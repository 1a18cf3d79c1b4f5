------------------------ MODULE DirectConnectProofs ------------------------
(***************************************************************************)
(* Proofs about connect_direct, for any devices at the address, old or     *)
(* new, and any number of salts they mint.                                 *)
(*                                                                         *)
(* What a call leaves behind follows from the life of its guard and from   *)
(* one fact about the maps: salt and pin are taken together, in the step   *)
(* that inserts the session, so that no ack can bring back either once     *)
(* they are gone.  The guard of on_hello suffices because the waiter goes  *)
(* only when the session is there, or with everything else.  The keys      *)
(* agree because an ack names the one session its device has had, as long  *)
(* as that device's app has kept its first.                                *)
(***************************************************************************)
EXTENDS DirectConnect, TLAPS

Calling == {"greeting", "waiting", "answered", "expired", "punching"}

\* The guard is armed as long as the call runs, and is left to sweep only
\* after a cancelled one.
GuardLife ==
    /\ pc \in Calling => guard = "armed"
    /\ pc \in {"open", "dropped", "gone", "failed"} => guard = "disarmed"
    /\ pc = "cancelled" => guard \in {"dropped", "swept"}
    /\ pc = "idle" => guard = "none" /\ ~permit /\ ~Waiters /\ sessions = None /\ net = {}

\* The salt waits with the pin the caller gave; the call's own session has
\* used up both, and only it leaves a permit for the wait.
Paired ==
    /\ pending_salt => expected_pubkey = pin
    /\ Own => ~pending_salt /\ expected_pubkey = None /\ pin \in {None, sessions.peer_pubkey}
    /\ permit /\ pc \in {"greeting", "waiting"} => Own

\* Until its guard has swept, a call that began to listen has its waiter or
\* its session in the maps: there is no gap for another device's Hello.
Claimed ==
    /\ pc \in {"greeting", "waiting", "answered", "expired"} => hello_done
    /\ pc \in {"answered", "punching", "open", "dropped"} => Own
    /\ pc = "cancelled" /\ guard = "dropped" => hello_done \/ Own
    /\ sessions # None /\ ~Own => ~Waiters /\ pc \in {"gone", "failed", "cancelled"}

\* What is gone at each stage.
Cleared ==
    /\ punched => pc \in {"punching", "cancelled"}
    /\ pc = "punching" => ~hello_done /\ ~identity_mismatch
    /\ NothingLeft

\* What a device has acknowledged is the session it holds, as long as its app
\* has kept the first one; the initiator's key comes from an ack.
AcksTrue ==
    /\ \A p \in Peers : peer_handle[p] = "none" => peer_sessions[p] = None
    /\ \A p \in Peers : peer_handle[p] = "held" => peer_sessions[p] # None
    /\ \A m \in net : m.type = "HelloAck" =>
          /\ peer_handle[m.key] # "none"
          /\ peer_handle[m.key] = "held" => peer_sessions[m.key] = session_hs(m.salt, m.v2)
    /\ Own =>
          HelloAck(sessions.peer_pubkey, sessions.key.salt, sessions.key.forward_secret) \in net

IInv == DirectTypeOK /\ GuardLife /\ Paired /\ Claimed /\ Cleared /\ AcksTrue

-----------------------------------------------------------------------------
(* Datagrams and keys.                                                     *)

\* A Hello is a datagram, and no ack.
LEMMA HelloFields ==
  ASSUME NEW v \in BOOLEAN
  PROVE  Hello(v) \in Datagram /\ Hello(v).type = "Hello"
BY DEF Hello, Datagram

\* An ack is a datagram with the fields it was made of.
LEMMA AckFields ==
  ASSUME NEW p \in Peers, NEW n \in 1 .. MaxSalts, NEW v \in BOOLEAN
  PROVE  /\ HelloAck(p, n, v) \in Datagram /\ HelloAck(p, n, v).type = "HelloAck"
         /\ HelloAck(p, n, v).key = p /\ HelloAck(p, n, v).salt = n /\ HelloAck(p, n, v).v2 = v
BY DEF HelloAck, Datagram

\* A datagram that is an ack is made of its fields.
LEMMA AckForm ==
  ASSUME NEW m \in Datagram, m.type = "HelloAck"
  PROVE  /\ m.key \in Peers /\ m.salt \in 1 .. MaxSalts /\ m.v2 \in BOOLEAN
         /\ m = HelloAck(m.key, m.salt, m.v2)
BY DEF Datagram, HelloAck

\* A derived key is one, and is not the absent one.
LEMMA KeyForm ==
  ASSUME NEW n \in 1 .. MaxSalts, NEW v \in BOOLEAN
  PROVE  /\ session_hs(n, v) \in Key /\ session_hs(n, v) # None
         /\ session_hs(n, v).salt = n /\ session_hs(n, v).forward_secret = v
BY DirectAssumption DEF session_hs, Key

\* A key is derived from its fields.
LEMMA KeyFields ==
  ASSUME NEW k \in Key
  PROVE  /\ k.salt \in 1 .. MaxSalts /\ k.forward_secret \in BOOLEAN
         /\ k = session_hs(k.salt, k.forward_secret) /\ k # None
<1>1. k.salt \in 1 .. MaxSalts /\ k.forward_secret \in BOOLEAN
  BY DEF Key
<1>2. k = session_hs(k.salt, k.forward_secret)
  BY DEF Key, session_hs
<1> QED BY <1>1, <1>2, KeyForm

\* A session is not the absent one, and tells whose it is.
LEMMA SessionForm ==
  ASSUME NEW p \in Peers, NEW k \in Key
  PROVE  /\ Opened(p, k) \in Session /\ Opened(p, k) # None
         /\ Opened(p, k).role = "Initiator" /\ Opened(p, k).peer_pubkey = p
         /\ Opened(p, k).key = k
         /\ Accepted(p) \in Session /\ Accepted(p) # None /\ Accepted(p).role = "Responder"
BY DirectAssumption DEF Session, Key, Opened, Accepted

-----------------------------------------------------------------------------
(* The invariant.                                                          *)

\* All of it holds before the call.
LEMMA InitInv == DirectInit => IInv
<1> SUFFICES ASSUME DirectInit PROVE IInv
  OBVIOUS
<1> USE DirectAssumption DEF DirectInit
<1>1. DirectTypeOK
  <2>1. minted \in [Peers -> 0 .. MaxSalts]
    OBVIOUS
  <2>2. peer_sessions \in [Peers -> Key \cup {None}]
    OBVIOUS
  <2>3. peer_handle \in [Peers -> {"none", "held", "dropped", "again"}]
    OBVIOUS
  <2> QED BY <2>1, <2>2, <2>3, Zenon DEF DirectTypeOK
<1>2. GuardLife /\ Paired /\ Claimed /\ Cleared
  BY DEF GuardLife, Paired, Claimed, Cleared, NothingLeft, Waiters, Calling, Own
<1>3. AcksTrue
  BY DEF AcksTrue, Own
<1> QED BY <1>1, <1>2, <1>3 DEF IInv

\* What an ack does at the initiator: it is dropped as another device's, it
\* is paired with salt and pin, or it finds a session.
LEMMA AckCases ==
  ASSUME DirectTypeOK, Paired, Claimed, NEW m \in net, OnHelloAck(m)
  PROVE  /\ m.type = "HelloAck"
         /\ UNCHANGED <<pin, net, pc, result, guard, hello_done, identity_mismatch, punched, peer>>
         /\ permit' \in BOOLEAN /\ mismatched' \in BOOLEAN
         /\ permit' => permit \/ Own'
         /\ \/ UNCHANGED <<pending_salt, expected_pubkey, sessions>>
            \/ /\ sessions = None /\ expected_pubkey \in {None, m.key} /\ pending_salt
               /\ pending_salt' = FALSE /\ expected_pubkey' = None
               /\ sessions' = Opened(m.key, session_hs(m.salt, m.v2))
<1>1. /\ m.type = "HelloAck"
      /\ UNCHANGED <<pin, net, pc, result, guard, hello_done, identity_mismatch, punched, peer>>
  BY DEF OnHelloAck
<1>2. permit' \in BOOLEAN /\ mismatched' \in BOOLEAN
  BY Zenon DEF OnHelloAck, DirectTypeOK
<1>3. sessions # None => expected_pubkey = None
  BY DEF Paired, Claimed, Waiters
<1>4. CASE sessions = None /\ UNCHANGED <<permit, pending_salt, expected_pubkey, sessions>>
  BY <1>1, <1>2, <1>4
<1>5. CASE /\ sessions = None /\ expected_pubkey \in {None, m.key} /\ pending_salt
           /\ pending_salt' = FALSE /\ expected_pubkey' = None
           /\ sessions' = Opened(m.key, session_hs(m.salt, m.v2))
  <2>1. m.key \in Peers /\ session_hs(m.salt, m.v2) \in Key
    BY <1>1, AckForm, KeyForm DEF DirectTypeOK
  <2>2. sessions' # None /\ sessions'.role = "Initiator"
    BY <1>5, <2>1, SessionForm
  <2> QED BY <1>1, <1>2, <1>5, <2>2 DEF Own
<1>6. CASE sessions # None
  <2>1. UNCHANGED <<pending_salt, expected_pubkey, sessions>>
    BY <1>3, <1>6 DEF OnHelloAck
  <2>2. permit' => permit \/ hello_done
    BY <1>6 DEF OnHelloAck
  <2>3. hello_done => Own
    BY <1>6 DEF Claimed, Waiters
  <2>4. Own' = Own
    BY <2>1 DEF Own
  <2> QED BY <1>1, <1>2, <2>1, <2>2, <2>3, <2>4
<1> QED BY <1>4, <1>5, <1>6 DEF OnHelloAck

\* Every step keeps the types.
LEMMA NextTypes == DirectTypeOK /\ Paired /\ Claimed /\ [DirectNext]_directvars => DirectTypeOK'
<1> SUFFICES ASSUME DirectTypeOK, Paired, Claimed, [DirectNext]_directvars PROVE DirectTypeOK'
  OBVIOUS
<1> USE DirectAssumption DEF DirectTypeOK, Maps, peer
<1>1. CASE ConnectDirect
  <2>1. net' \subseteq Datagram
    BY <1>1, HelloFields DEF ConnectDirect
  <2>2. identity_mismatch' \in BOOLEAN
    BY <1>1, Zenon DEF ConnectDirect
  <2> QED BY <1>1, <2>1, <2>2 DEF ConnectDirect
<1>2. CASE GreetOld
  <2>1. net' \subseteq Datagram
    BY <1>2, HelloFields DEF GreetOld
  <2>2. pc' = "waiting" /\ UNCHANGED <<pin, result, permit, mismatched, guard, Maps, peer>>
    BY <1>2, Zenon DEF GreetOld
  <2> QED BY <2>1, <2>2
<1>3. CASE HelloWakes
  <2>1. pc' \in {"answered", "expired"} /\ permit' \in BOOLEAN
    BY <1>3, Zenon DEF HelloWakes
  <2>2. UNCHANGED <<pin, net, result, mismatched, guard, Maps, peer>>
    BY <1>3, Zenon DEF HelloWakes
  <2> QED BY <2>1, <2>2
<1>4. CASE HelloExpired
  BY <1>4 DEF HelloExpired
<1>5. CASE HelloAnswered
  BY <1>5 DEF HelloAnswered
<1>6. CASE PunchEnds
  BY <1>6 DEF PunchEnds
<1>7. CASE Cancel
  BY <1>7 DEF Cancel
<1>8. CASE Sweep
  BY <1>8 DEF Sweep
<1>9. CASE DropSession \/ RemoveSession
  BY <1>9 DEF DropSession, RemoveSession
<1>10. ASSUME NEW m \in net, OnHelloAck(m) PROVE DirectTypeOK'
  <2>1. m.type = "HelloAck"
    BY <1>10, AckCases
  <2>2. m.key \in Peers /\ session_hs(m.salt, m.v2) \in Key
    BY <2>1, AckForm, KeyForm
  <2>3. Opened(m.key, session_hs(m.salt, m.v2)) \in Session
    BY <2>2, SessionForm
  <2>4. /\ UNCHANGED <<pin, net, pc, result, guard, hello_done, identity_mismatch, punched, peer>>
        /\ permit' \in BOOLEAN /\ mismatched' \in BOOLEAN
    BY <1>10, AckCases, Zenon
  <2>5. CASE UNCHANGED <<pending_salt, expected_pubkey, sessions>>
    BY <2>4, <2>5
  <2>6. CASE /\ pending_salt' = FALSE /\ expected_pubkey' = None
             /\ sessions' = Opened(m.key, session_hs(m.salt, m.v2))
    BY <2>3, <2>4, <2>6
  <2> QED BY <1>10, <2>5, <2>6, AckCases
<1>11. ASSUME NEW p \in Peers, NEW v2 \in BOOLEAN, OnHello(p, v2) PROVE DirectTypeOK'
  <2>1. CASE /\ peer_sessions[p] # None
             /\ net' = net \cup {HelloAck(p, peer_sessions[p].salt, peer_sessions[p].forward_secret)}
             /\ UNCHANGED peer
    <3>1. HelloAck(p, peer_sessions[p].salt, peer_sessions[p].forward_secret) \in Datagram
      BY <2>1, KeyFields, AckFields
    <3> QED BY <1>11, <2>1, <3>1 DEF OnHello
  <2>2. CASE peer_sessions[p] = None /\ minted[p] < MaxSalts
    <3>1. minted[p] + 1 \in 1 .. MaxSalts
      BY <2>2
    <3>2. session_hs(minted[p] + 1, v2) \in Key /\ HelloAck(p, minted[p] + 1, v2) \in Datagram
      BY <3>1, KeyForm, AckFields
    <3> QED BY <1>11, <2>2, <3>1, <3>2 DEF OnHello
  <2> QED BY <1>11, <2>1, <2>2 DEF OnHello
<1>12. ASSUME NEW p \in Peers, PeerDrops(p) \/ PeerRemoves(p) PROVE DirectTypeOK'
  BY <1>12 DEF PeerDrops, PeerRemoves
<1>13. ASSUME NEW p \in Peers, NEW v2 \in BOOLEAN, OnOwnHello(p, v2) PROVE DirectTypeOK'
  <2>1. sessions' \in Session
    BY <1>13 DEF OnOwnHello, Session, Accepted
  <2> QED BY <1>13, <2>1 DEF OnOwnHello
<1>14. CASE AcceptedDrops
  BY <1>14 DEF AcceptedDrops
<1>15. CASE UNCHANGED directvars
  BY <1>15 DEF directvars
<1> QED
  BY <1>1, <1>2, <1>3, <1>4, <1>5, <1>6, <1>7, <1>8, <1>9, <1>10, <1>11, <1>12, <1>13, <1>14, <1>15
  DEF DirectNext, Call

\* Every step keeps the account of the guard and of the maps.
LEMMA NextMaps ==
  DirectTypeOK /\ GuardLife /\ Paired /\ Claimed /\ Cleared /\ [DirectNext]_directvars
    => GuardLife' /\ Paired' /\ Claimed' /\ Cleared'
<1> SUFFICES ASSUME DirectTypeOK, GuardLife, Paired, Claimed, Cleared, [DirectNext]_directvars
             PROVE  GuardLife' /\ Paired' /\ Claimed' /\ Cleared'
  OBVIOUS
<1> USE DEF GuardLife, Paired, Claimed, Cleared, NothingLeft, Waiters, Calling, Own, Maps
<1>1. CASE ConnectDirect
  BY <1>1 DEF ConnectDirect
<1>2. CASE GreetOld
  BY <1>2 DEF GreetOld
<1>3. CASE HelloWakes
  BY <1>3 DEF HelloWakes
<1>4. CASE HelloExpired
  BY <1>4 DEF HelloExpired
<1>5. CASE HelloAnswered
  BY <1>5 DEF HelloAnswered
<1>6. CASE PunchEnds
  BY <1>6 DEF PunchEnds
<1>7. CASE Cancel
  BY <1>7 DEF Cancel
<1>8. CASE Sweep
  BY <1>8 DEF Sweep, DirectTypeOK
<1>9. CASE DropSession \/ RemoveSession
  BY <1>9 DEF DropSession, RemoveSession
<1>10. ASSUME NEW m \in net, OnHelloAck(m) PROVE GuardLife' /\ Paired' /\ Claimed' /\ Cleared'
  <2>1. m.type = "HelloAck"
    BY <1>10, AckCases
  <2>2. m.key \in Peers /\ session_hs(m.salt, m.v2) \in Key
    BY <2>1, AckForm, KeyForm DEF DirectTypeOK
  <2>3. /\ Opened(m.key, session_hs(m.salt, m.v2)) # None
        /\ Opened(m.key, session_hs(m.salt, m.v2)).role = "Initiator"
        /\ Opened(m.key, session_hs(m.salt, m.v2)).peer_pubkey = m.key
    BY <2>2, SessionForm
  <2>4. /\ UNCHANGED <<pin, net, pc, guard, hello_done, identity_mismatch, punched>>
        /\ permit' => permit \/ Own'
    BY <1>10, AckCases
  <2>5. CASE UNCHANGED <<pending_salt, expected_pubkey, sessions>>
    BY <2>4, <2>5
  <2>6. CASE /\ sessions = None /\ expected_pubkey \in {None, m.key} /\ pending_salt
             /\ pending_salt' = FALSE /\ expected_pubkey' = None
             /\ sessions' = Opened(m.key, session_hs(m.salt, m.v2))
    BY <2>3, <2>4, <2>6
  <2> QED BY <1>10, <2>5, <2>6, AckCases
<1>11. ASSUME NEW p \in Peers, NEW v2 \in BOOLEAN,
              OnHello(p, v2) \/ PeerDrops(p) \/ PeerRemoves(p)
       PROVE  GuardLife' /\ Paired' /\ Claimed' /\ Cleared'
  BY <1>11 DEF OnHello, PeerDrops, PeerRemoves
<1>12. ASSUME NEW p \in Peers, NEW v2 \in BOOLEAN, OnOwnHello(p, v2)
       PROVE  GuardLife' /\ Paired' /\ Claimed' /\ Cleared'
  <2>1. sessions' # None /\ sessions'.role = "Responder"
    BY <1>12, DirectAssumption DEF OnOwnHello, Accepted
  <2>2. pc \in {"gone", "failed", "cancelled"} /\ ~Waiters
    BY <1>12 DEF OnOwnHello, DirectTypeOK
  <2> QED BY <1>12, <2>1, <2>2 DEF OnOwnHello
<1>13. CASE AcceptedDrops
  BY <1>13 DEF AcceptedDrops
<1>14. CASE UNCHANGED directvars
  BY <1>14 DEF directvars
<1> QED
  BY <1>1, <1>2, <1>3, <1>4, <1>5, <1>6, <1>7, <1>8, <1>9, <1>10, <1>11, <1>12, <1>13, <1>14
  DEF DirectNext, Call

\* Every step keeps what the acks say true.
LEMMA NextAcks == DirectTypeOK /\ Paired /\ Claimed /\ AcksTrue /\ [DirectNext]_directvars => AcksTrue'
<1> SUFFICES ASSUME DirectTypeOK, Paired, Claimed, AcksTrue, [DirectNext]_directvars PROVE AcksTrue'
  OBVIOUS
<1> USE DEF AcksTrue, Own, Maps, peer
<1>1. ASSUME UNCHANGED peer, sessions' \in {sessions, None}, net \subseteq net',
             \A m \in net' \ net : m.type = "Hello"
      PROVE  AcksTrue'
  BY <1>1
<1>2. CASE ConnectDirect \/ GreetOld
  BY <1>1, <1>2, HelloFields DEF ConnectDirect, GreetOld
<1>3. CASE HelloWakes \/ HelloExpired \/ HelloAnswered \/ PunchEnds
  BY <1>1, <1>3 DEF HelloWakes, HelloExpired, HelloAnswered, PunchEnds
<1>4. CASE Cancel \/ Sweep \/ DropSession \/ RemoveSession
  BY <1>1, <1>4 DEF Cancel, Sweep, DropSession, RemoveSession
<1>5. ASSUME NEW m \in net, OnHelloAck(m) PROVE AcksTrue'
  <2>1. m.type = "HelloAck" /\ UNCHANGED <<net, peer>>
    BY <1>5, AckCases
  <2>2. /\ m.key \in Peers /\ m.salt \in 1 .. MaxSalts /\ m.v2 \in BOOLEAN
        /\ m = HelloAck(m.key, m.salt, m.v2)
    BY <2>1, AckForm DEF DirectTypeOK
  <2>3. CASE UNCHANGED sessions
    BY <2>1, <2>3
  <2>4. CASE sessions' = Opened(m.key, session_hs(m.salt, m.v2))
    <3>1. sessions'.peer_pubkey = m.key /\ sessions'.key = session_hs(m.salt, m.v2)
      BY <2>4 DEF Opened
    <3>2. sessions'.key.salt = m.salt /\ sessions'.key.forward_secret = m.v2
      BY <2>2, <3>1, KeyForm
    <3> QED BY <2>1, <2>2, <3>1, <3>2
  <2> QED BY <1>5, <2>3, <2>4, AckCases
<1>6. ASSUME NEW p \in Peers, NEW v2 \in BOOLEAN, OnHello(p, v2) PROVE AcksTrue'
  <2>1. UNCHANGED sessions
    BY <1>6 DEF OnHello
  <2>2. CASE /\ peer_sessions[p] # None
             /\ net' = net \cup {HelloAck(p, peer_sessions[p].salt, peer_sessions[p].forward_secret)}
             /\ UNCHANGED peer
    <3>1. /\ peer_sessions[p].salt \in 1 .. MaxSalts /\ peer_sessions[p].forward_secret \in BOOLEAN
          /\ peer_sessions[p] = session_hs(peer_sessions[p].salt, peer_sessions[p].forward_secret)
      BY <2>2, KeyFields DEF DirectTypeOK
    <3>2. peer_handle[p] # "none"
      BY <2>2
    <3> DEFINE a == HelloAck(p, peer_sessions[p].salt, peer_sessions[p].forward_secret)
    <3>3. /\ a.key = p /\ a.salt = peer_sessions[p].salt
          /\ a.v2 = peer_sessions[p].forward_secret
      BY <3>1, AckFields
    <3>4. net' = net \cup {a}
      BY <2>2
    <3> HIDE DEF a
    <3> QED BY <2>1, <2>2, <3>1, <3>2, <3>3, <3>4
  <2>3. CASE /\ peer_sessions[p] = None /\ minted[p] < MaxSalts
             /\ minted' = [minted EXCEPT ![p] = @ + 1]
             /\ peer_sessions' = [peer_sessions EXCEPT ![p] = session_hs(minted[p] + 1, v2)]
             /\ peer_handle' = [peer_handle EXCEPT ![p] = IF @ = "none" THEN "held" ELSE "again"]
             /\ net' = net \cup {HelloAck(p, minted[p] + 1, v2)}
    <3>1. minted[p] + 1 \in 1 .. MaxSalts
      BY <2>3, DirectAssumption DEF DirectTypeOK
    <3> DEFINE a == HelloAck(p, minted[p] + 1, v2)
    <3>2. a.key = p /\ session_hs(a.salt, a.v2) = session_hs(minted[p] + 1, v2)
      BY <3>1, AckFields
    <3>3. session_hs(minted[p] + 1, v2) # None
      BY <3>1, KeyForm
    <3>4. /\ peer_sessions'[p] = session_hs(minted[p] + 1, v2)
          /\ peer_handle'[p] = IF peer_handle[p] = "none" THEN "held" ELSE "again"
          /\ \A q \in Peers \ {p} : /\ peer_sessions'[q] = peer_sessions[q]
                                    /\ peer_handle'[q] = peer_handle[q]
      BY <2>3 DEF DirectTypeOK
    <3>5. net' = net \cup {a}
      BY <2>3
    <3>6. \A m \in net : m.type = "HelloAck" => m.key \in Peers
      BY AckForm DEF DirectTypeOK
    <3> HIDE DEF a
    <3>7. \A q \in Peers : /\ peer_handle'[q] = "none" => peer_sessions'[q] = None
                           /\ peer_handle'[q] = "held" => peer_sessions'[q] # None
      BY <3>3, <3>4
    <3>8. \A m \in net' : m.type = "HelloAck" =>
            /\ peer_handle'[m.key] # "none"
            /\ peer_handle'[m.key] = "held" => peer_sessions'[m.key] = session_hs(m.salt, m.v2)
      <4>1. ASSUME NEW m \in net, m.type = "HelloAck"
            PROVE  /\ peer_handle'[m.key] # "none"
                   /\ peer_handle'[m.key] = "held" => peer_sessions'[m.key] = session_hs(m.salt, m.v2)
        <5>1. CASE m.key = p
          BY <3>4, <4>1, <5>1
        <5>2. CASE m.key # p
          BY <3>4, <3>6, <4>1, <5>2
        <5> QED BY <5>1, <5>2
      <4>2. /\ peer_handle'[a.key] # "none"
            /\ peer_handle'[a.key] = "held" => peer_sessions'[a.key] = session_hs(a.salt, a.v2)
        BY <3>2, <3>4
      <4> QED BY <3>5, <4>1, <4>2
    <3> QED BY <2>1, <3>5, <3>7, <3>8
  <2> QED BY <1>6, <2>2, <2>3 DEF OnHello
<1>7. ASSUME NEW p \in Peers, PeerDrops(p) \/ PeerRemoves(p) PROVE AcksTrue'
  <2>1. \A m \in net : m.type = "HelloAck" => m.key \in Peers
    BY AckForm DEF DirectTypeOK
  <2> QED BY <1>7, <2>1 DEF PeerDrops, PeerRemoves, DirectTypeOK
<1>8. ASSUME NEW p \in Peers, NEW v2 \in BOOLEAN, OnOwnHello(p, v2) PROVE AcksTrue'
  <2>1. ~Own'
    BY <1>8 DEF OnOwnHello, Accepted
  <2> QED BY <1>8, <2>1 DEF OnOwnHello
<1>9. CASE AcceptedDrops
  BY <1>1, <1>9 DEF AcceptedDrops
<1>10. CASE UNCHANGED directvars
  BY <1>1, <1>10 DEF directvars
<1> QED
  BY <1>2, <1>3, <1>4, <1>5, <1>6, <1>7, <1>8, <1>9, <1>10 DEF DirectNext, Call

\* The parts together.
LEMMA NextInv == IInv /\ [DirectNext]_directvars => IInv'
BY NextTypes, NextMaps, NextAcks DEF IInv

-----------------------------------------------------------------------------
(* The theorems.                                                           *)

\* Types, and that every salt in use was minted.
THEOREM DirectTypeCorrect == DirectSpec => []DirectTypeOK
<1>1. IInv => DirectTypeOK
  BY DEF IInv
<1> QED BY <1>1, InitInv, NextInv, PTL DEF DirectSpec

\* Whatever devices ack or greet back, in whatever order and form, a pinned
\* call ends up with the pinned one or with none.
THEOREM DirectPinHonoured == DirectSpec => []PinHonoured
<1>1. IInv => PinHonoured
  BY DEF IInv, Paired, Claimed, PinHonoured
<1> QED BY <1>1, InitInv, NextInv, PTL DEF DirectSpec

\* A call that returned leaves no waiter, salt, pin or unreturned session, and
\* a dropped one none once its guard has swept.
THEOREM DirectLeavesNothing == DirectSpec => []NothingLeft
<1>1. IInv => NothingLeft
  BY DEF IInv, Cleared
<1> QED BY <1>1, InitInv, NextInv, PTL DEF DirectSpec

\* Both ends hold one key as long as the other app keeps its first Session.
THEOREM DirectKeysAgree == DirectSpec => []KeyAgreement
<1>1. IInv => KeyAgreement
  <2> SUFFICES ASSUME IInv, Own, peer_handle[sessions.peer_pubkey] = "held"
               PROVE  peer_sessions[sessions.peer_pubkey] = sessions.key
    BY DEF KeyAgreement
  <2>1. sessions.peer_pubkey \in Peers /\ sessions.key \in Key
    BY DEF IInv, DirectTypeOK, Session, Own
  <2>2. /\ sessions.key.salt \in 1 .. MaxSalts /\ sessions.key.forward_secret \in BOOLEAN
        /\ sessions.key = session_hs(sessions.key.salt, sessions.key.forward_secret)
    BY <2>1, KeyFields
  <2> DEFINE a == HelloAck(sessions.peer_pubkey, sessions.key.salt, sessions.key.forward_secret)
  <2>3. /\ a.type = "HelloAck" /\ a.key = sessions.peer_pubkey
        /\ a.salt = sessions.key.salt /\ a.v2 = sessions.key.forward_secret
    BY <2>1, <2>2, AckFields
  <2>4. a \in net
    BY DEF IInv, AcksTrue
  <2> HIDE DEF a
  <2> QED BY <2>2, <2>3, <2>4 DEF IInv, AcksTrue
<1> QED BY <1>1, InitInv, NextInv, PTL DEF DirectSpec
=============================================================================

-------------------------- MODULE PathChoiceProofs --------------------------
(***************************************************************************)
(* Proofs about the choice of a path, for any modes, networks, numbers of  *)
(* probes and round-trip times.                                            *)
(*                                                                         *)
(* Two lemmas say what one step can do: SessionStep to a session, NetTrue  *)
(* to the network.  From the first follow LiveTransportTrue and            *)
(* NoFlapping, in every network.  ModeRespected and DirectDelivers also    *)
(* need the provenance of a datagram (AllTrue), and networks in which no   *)
(* private candidate belongs to another device (NoStranger): with one, a   *)
(* session may go direct to that device, as the run stale_candidate shows. *)
(***************************************************************************)
EXTENDS PathChoice, TLAPS

\* No private candidate belongs to another device.
NoStranger == \A n \in Networks : n.stranger = {}

\* Two sessions that differ at most in the fields F.
SameBut(s, t, F) ==
    /\ "peer_addr" \in F \/ s.peer_addr = t.peer_addr
    /\ "transport" \in F \/ s.transport = t.transport
    /\ "direct_ok" \in F \/ s.direct_ok = t.direct_ok
    /\ "path_checked" \in F \/ s.path_checked = t.path_checked
    /\ "relay_preferred" \in F \/ s.relay_preferred = t.relay_preferred

\* The ways in which a session may change.
Proven(e) ==
    /\ sessions[e] # None /\ mode[e] # "RelayOnly"
    /\ \E m \in net :
          /\ m.type \in {"Punch", "PunchAck"} /\ m.to = e
          /\ Candidate(e, sessions[e], m.from)
          /\ sessions'[e] = Adopt(sessions[e], m.from)

Marked(e) ==
    /\ MayMeasure(e)
    /\ sessions'[e].path_checked = TRUE
    /\ SameBut(sessions[e], sessions'[e], {"path_checked"})

Relaying(e) ==
    /\ sessions[e] # None /\ probes[e] # None
    /\ e = "requester" => pc = "compare"
    /\ sessions'[e].relay_preferred = TRUE /\ sessions'[e].transport = "Relay"
    /\ SameBut(sessions[e], sessions'[e], {"relay_preferred", "transport"})

Found(e) == e = "requester" /\ pc = "await" /\ pc' = "establish" /\ sessions'[e] = NewSession

Finished(e) ==
    /\ e = "requester" /\ pc = "finish" /\ pc' = "open" /\ sessions[e] # None
    /\ sessions'[e].transport = IF sessions[e].direct_ok /\ ~sessions[e].relay_preferred
                                THEN "Direct" ELSE transport
    /\ SameBut(sessions[e], sessions'[e], {"transport"})

Change(e) ==
    \/ sessions'[e] \in {sessions[e], None}
    \/ Proven(e) \/ Marked(e) \/ Relaying(e) \/ Found(e) \/ Finished(e)

\* A step changes each session in one of these ways, and takes the
\* requester's away only when connect has failed or the app has dropped it.
SessionsMove ==
    /\ sessions' \in [End -> Session \cup {None}]
    /\ \A e \in End : Change(e)
    /\ sessions'["requester"] # None \/ sessions["requester"] = None \/ pc' \in {"gone", "failed"}

-----------------------------------------------------------------------------
(* Sessions.                                                               *)

\* A new session has its fields.
LEMMA NewForm ==
  /\ NewSession \in Session /\ NewSession # None
  /\ NewSession.peer_addr = "pub" /\ NewSession.transport = "Relay"
  /\ NewSession.direct_ok = FALSE /\ NewSession.path_checked = FALSE
  /\ NewSession.relay_preferred = FALSE
<1>1. NewSession \in Session
  BY DEF NewSession, Session, Addr
<1>2. /\ NewSession.peer_addr = "pub" /\ NewSession.transport = "Relay"
      /\ NewSession.direct_ok = FALSE /\ NewSession.path_checked = FALSE
      /\ NewSession.relay_preferred = FALSE
  BY DEF NewSession
<1>3. NewSession # None
  BY <1>1, NoneAssumption
<1> QED BY <1>1, <1>2, <1>3

\* The source that proves a path is an address.
LEMMA CandidateAddr ==
  ASSUME NEW e, NEW s \in Session, NEW from, Candidate(e, s, from)
  PROVE  from \in Addr
BY DEF Candidate, Session, Addr

\* What the arrival of a punch leaves of a session.
LEMMA AdoptForm ==
  ASSUME NEW s \in Session, NEW from \in Addr
  PROVE  /\ Adopt(s, from) \in Session
         /\ Adopt(s, from).peer_addr = IF Preferred(s, from) THEN from ELSE s.peer_addr
         /\ Adopt(s, from).direct_ok = TRUE
         /\ Adopt(s, from).transport = IF s.relay_preferred THEN s.transport ELSE "Direct"
         /\ Adopt(s, from).path_checked = s.path_checked
         /\ Adopt(s, from).relay_preferred = s.relay_preferred
<1> DEFINE a == IF Preferred(s, from) THEN from ELSE s.peer_addr
           t == IF s.relay_preferred THEN s.transport ELSE "Direct"
<1>1. a \in Addr /\ t \in {"Direct", "Relay"}
  BY DEF Session
<1> DEFINE n1 == [s EXCEPT !.peer_addr = a]
           n2 == [n1 EXCEPT !.direct_ok = TRUE]
           n3 == [n2 EXCEPT !.transport = t]
<1>2. Adopt(s, from) = n3
  BY DEF Adopt
<1> HIDE DEF a, t
<1>3. /\ n1 \in Session /\ n1.peer_addr = a /\ n1.path_checked = s.path_checked
      /\ n1.relay_preferred = s.relay_preferred
  BY <1>1 DEF Session
<1> HIDE DEF n1
<1>4. /\ n2 \in Session /\ n2.peer_addr = a /\ n2.path_checked = s.path_checked
      /\ n2.relay_preferred = s.relay_preferred /\ n2.direct_ok = TRUE
  BY <1>3 DEF Session
<1> HIDE DEF n2
<1>5. /\ n3 \in Session /\ n3.peer_addr = a /\ n3.path_checked = s.path_checked
      /\ n3.relay_preferred = s.relay_preferred /\ n3.direct_ok = TRUE /\ n3.transport = t
  BY <1>1, <1>4 DEF Session
<1> HIDE DEF n3
<1> QED BY <1>2, <1>5 DEF a, t

\* A step that leaves the sessions alone.
LEMMA SessionsSame ==
  ASSUME TypeOK, sessions' = sessions
  PROVE  SessionsMove
BY DEF SessionsMove, Change, TypeOK

\* A step that changes the session of one end.
LEMMA OneSession ==
  ASSUME TypeOK, NEW e \in End, NEW s \in Session \cup {None},
         sessions' = [sessions EXCEPT ![e] = s], Change(e),
         s # None \/ pc' \in {"gone", "failed"} \/ e # "requester"
  PROVE  SessionsMove
<1>1. sessions' \in [End -> Session \cup {None}]
  BY DEF TypeOK
<1>2. \A f \in End : f # e => sessions'[f] = sessions[f]
  BY DEF TypeOK
<1>3. sessions'[e] = s
  BY DEF TypeOK
<1>4. \A f \in End : Change(f)
  BY <1>2 DEF Change
<1>5. "requester" \in End
  BY DEF End
<1> QED BY <1>1, <1>2, <1>3, <1>4, <1>5 DEF SessionsMove

\* A session with one field set.
LEMMA SetChecked ==
  ASSUME NEW s \in Session, NEW n, n = [s EXCEPT !.path_checked = TRUE]
  PROVE  /\ n \in Session /\ n.path_checked = TRUE /\ SameBut(s, n, {"path_checked"})
BY DEF Session, SameBut

LEMMA SetTransport ==
  ASSUME NEW s \in Session, NEW t \in {"Direct", "Relay"}, NEW n, n = [s EXCEPT !.transport = t]
  PROVE  /\ n \in Session /\ n.transport = t /\ SameBut(s, n, {"transport"})
BY DEF Session, SameBut

LEMMA SetPreferred ==
  ASSUME NEW s \in Session, NEW n, n = [s EXCEPT !.relay_preferred = TRUE]
  PROVE  /\ n \in Session /\ n.relay_preferred = TRUE /\ SameBut(s, n, {"relay_preferred"})
BY DEF Session, SameBut

\* A punch or an ack arrives.
LEMMA ProveMoves ==
  ASSUME TypeOK, NEW m \in net, m.type \in {"Punch", "PunchAck"}, mode[m.to] # "RelayOnly",
         Prove(m.to, m.from)
  PROVE  SessionsMove /\ spawned' \in 0 .. MaxTasks
<1> DEFINE e == m.to
           s == sessions[e]
<1>1. e \in End
  BY DEF TypeOK, Datagram
<1>2. CASE s # None /\ Candidate(e, s, m.from)
  <2>1. s \in Session
    BY <1>1, <1>2 DEF TypeOK
  <2>2. m.from \in Addr
    BY <1>2, <2>1, CandidateAddr
  <2>3. Adopt(s, m.from) \in Session
    BY <2>1, <2>2, AdoptForm
  <2>4. sessions' = [sessions EXCEPT ![e] = Adopt(s, m.from)] /\ Spawn(e, s)
    BY <1>2 DEF Prove
  <2>5. sessions'[e] = Adopt(s, m.from)
    BY <1>1, <2>4 DEF TypeOK
  <2>6. Change(e)
    BY <1>2, <2>5 DEF Change, Proven
  <2>7. Adopt(s, m.from) # None
    BY <2>3, NoneAssumption
  <2>8. SessionsMove
    <3> HIDE DEF e, s
    <3>1. Adopt(s, m.from) \in Session \cup {None}
      BY <2>3
    <3> QED BY <1>1, <2>4, <2>6, <2>7, <3>1, OneSession
  <2>9. spawned' \in 0 .. MaxTasks
    BY <2>4, PathAssumption DEF Spawn, TypeOK
  <2> QED BY <2>8, <2>9
<1>3. CASE ~(s # None /\ Candidate(e, s, m.from))
  <2>1. UNCHANGED <<sessions, spawned>>
    BY <1>3 DEF Prove
  <2> QED BY <2>1, SessionsSame DEF TypeOK
<1> QED BY <1>2, <1>3

\* A measurement begins.
LEMMA MeasureMoves ==
  ASSUME TypeOK, NEW e \in End, Measure(e)
  PROVE  SessionsMove
<1> DEFINE s == sessions[e]
           n == [s EXCEPT !.path_checked = TRUE]
<1>1. s \in Session /\ MayMeasure(e)
  BY DEF Measure, MayMeasure, TypeOK
<1>2. sessions' = [sessions EXCEPT ![e] = n]
  BY DEF Measure
<1>3. n \in Session /\ n.path_checked = TRUE /\ SameBut(s, n, {"path_checked"})
  BY <1>1, SetChecked
<1>4. sessions'[e] = n
  BY <1>2 DEF TypeOK
<1>5. Change(e)
  <2> HIDE DEF n
  <2> QED BY <1>1, <1>3, <1>4 DEF Change, Marked
<1>6. n # None
  BY <1>3, NoneAssumption
<1> HIDE DEF n, s
<1> QED BY <1>2, <1>3, <1>5, <1>6, OneSession

\* A measurement is decided.
LEMMA ComparedMoves ==
  ASSUME TypeOK, NEW e \in End, Compared(e), probes[e] # None, e = "requester" => pc = "compare"
  PROVE  SessionsMove
<1> DEFINE s == sessions[e]
           n1 == [s EXCEPT !.relay_preferred = TRUE]
           n2 == [n1 EXCEPT !.transport = "Relay"]
<1>1. CASE sessions' = sessions
  BY <1>1, SessionsSame
<1>2. CASE s # None /\ sessions' = [sessions EXCEPT ![e].relay_preferred = TRUE, ![e].transport = "Relay"]
  <2>1. s \in Session
    BY <1>2 DEF TypeOK
  <2>2. sessions' = [[sessions EXCEPT ![e] = n1] EXCEPT ![e] = [[sessions EXCEPT ![e] = n1][e] EXCEPT !.transport = "Relay"]]
    BY <1>2
  <2>3. [sessions EXCEPT ![e] = n1][e] = n1
    BY DEF TypeOK
  <2>4. sessions' = [sessions EXCEPT ![e] = n2]
    <3> HIDE DEF n1
    <3> QED BY <2>2, <2>3 DEF TypeOK
  <2>5. n1 \in Session /\ n1.relay_preferred = TRUE /\ SameBut(s, n1, {"relay_preferred"})
    BY <2>1, SetPreferred
  <2> HIDE DEF n1
  <2>6. n2 \in Session /\ n2.transport = "Relay" /\ SameBut(n1, n2, {"transport"})
    BY <2>5, SetTransport
  <2>7. sessions'[e] = n2
    BY <2>4 DEF TypeOK
  <2> HIDE DEF n2
  <2>8. n2.relay_preferred = TRUE /\ SameBut(s, n2, {"relay_preferred", "transport"})
    BY <2>5, <2>6 DEF SameBut
  <2>9. Change(e)
    BY <1>2, <2>6, <2>7, <2>8 DEF Change, Relaying
  <2>10. n2 # None
    BY <2>6, NoneAssumption
  <2> QED BY <2>4, <2>6, <2>9, <2>10, OneSession
<1> QED BY <1>1, <1>2 DEF Compared

\* Every step moves the sessions in these ways.
LEMMA SessionStep == TypeOK /\ [Next]_vars => SessionsMove
<1> SUFFICES ASSUME TypeOK, [Next]_vars PROVE SessionsMove
  OBVIOUS
<1>0. "requester" \in End /\ "host" \in End
  BY DEF End
<1>1. ASSUME NEW m \in net, OnPunch(m) \/ OnPunchAck(m) \/ OnRelayPunch(m) \/ OnRelayAck(m)
      PROVE  SessionsMove
  <2>1. CASE OnPunch(m)
    BY <2>1, ProveMoves DEF OnPunch
  <2>2. CASE OnPunchAck(m)
    BY <2>2, ProveMoves DEF OnPunchAck
  <2>3. CASE OnRelayPunch(m) \/ OnRelayAck(m)
    BY <2>3, SessionsSame DEF OnRelayPunch, OnRelayAck
  <2> QED BY <1>1, <2>1, <2>2, <2>3
<1>2. CASE HostPicks
  <2>1. Measure("host") \/ UNCHANGED sessions
    BY <1>2 DEF HostPicks
  <2> QED BY <1>0, <2>1, MeasureMoves, SessionsSame
<1>3. CASE HostCompares
  <2>1. probes["host"] # None /\ Compared("host")
    BY <1>3 DEF HostCompares
  <2> QED BY <1>0, <2>1, ComparedMoves
<1>4. CASE OnPeerFound
  <2>1. sessions' = [sessions EXCEPT !["requester"] = NewSession] /\ pc = "await" /\ pc' = "establish"
    BY <1>4 DEF OnPeerFound
  <2>2. sessions'["requester"] = NewSession
    BY <1>0, <2>1 DEF TypeOK
  <2>3. Change("requester")
    BY <2>1, <2>2 DEF Change, Found
  <2> QED BY <1>0, <2>1, <2>3, NewForm, OneSession
<1>5. CASE EstablishStart
  BY <1>5, SessionsSame DEF EstablishStart
<1>6. CASE EstablishEnd
  <2>1. UNCHANGED sessions \/ (pc' = "failed" /\ sessions' = [sessions EXCEPT !["requester"] = None])
    BY <1>6 DEF EstablishEnd
  <2>2. ASSUME pc' = "failed", sessions' = [sessions EXCEPT !["requester"] = None]
        PROVE  SessionsMove
    <3>1. Change("requester")
      BY <1>0, <2>2 DEF Change, TypeOK
    <3> QED BY <1>0, <2>2, <3>1, OneSession
  <2> QED BY <2>1, <2>2, SessionsSame
<1>7. CASE RequesterPicks
  <2>1. Measure("requester") \/ UNCHANGED sessions
    BY <1>7 DEF RequesterPicks
  <2> QED BY <1>0, <2>1, MeasureMoves, SessionsSame
<1>8. CASE RequesterCompares
  <2>1. pc = "compare" /\ Compared("requester")
    BY <1>8 DEF RequesterCompares
  <2>2. probes["requester"] # None
    BY <2>1 DEF TypeOK
  <2> QED BY <1>0, <2>1, <2>2, ComparedMoves
<1>9. CASE ConnectFinish
  <2> DEFINE s == sessions["requester"]
             t == IF s.direct_ok /\ ~s.relay_preferred THEN "Direct" ELSE transport
             n == [s EXCEPT !.transport = t]
  <2>1. pc = "finish" /\ pc' = "open" /\ sessions' = [sessions EXCEPT !["requester"] = n]
    BY <1>9 DEF ConnectFinish
  <2>2. s \in Session /\ s # None
    BY <1>0, <2>1 DEF TypeOK
  <2>3. t \in {"Direct", "Relay"}
    BY DEF TypeOK
  <2>4. sessions'["requester"] = n
    BY <1>0, <2>1 DEF TypeOK
  <2>5. n \in Session /\ n.transport = t /\ SameBut(s, n, {"transport"})
    <3> HIDE DEF s, t
    <3> QED BY <2>2, <2>3, SetTransport
  <2> HIDE DEF n
  <2>6. Change("requester")
    BY <2>1, <2>2, <2>4, <2>5 DEF Change, Finished
  <2>7. n # None
    BY <2>5, NoneAssumption
  <2> QED BY <1>0, <2>1, <2>5, <2>6, <2>7, OneSession
<1>10. ASSUME NEW e \in End, DropSession(e)
       PROVE  SessionsMove
  <2>1. sessions' = [sessions EXCEPT ![e] = None] /\ (e = "requester" => pc' = "gone")
    BY <1>10 DEF DropSession
  <2>2. Change(e)
    BY <2>1 DEF Change, TypeOK
  <2> QED BY <2>1, <2>2, OneSession
<1>11. CASE UNCHANGED vars
  BY <1>11, SessionsSame DEF vars
<1> QED BY <1>1, <1>2, <1>3, <1>4, <1>5, <1>6, <1>7, <1>8, <1>9, <1>10, <1>11 DEF Next, Requester

-----------------------------------------------------------------------------
(* Types.                                                                  *)

\* What is sent is a datagram.
LEMMA SentTypes ==
  ASSUME NEW e \in End, NEW a, NEW type \in {"Punch", "PunchAck"}, NEW q \in Seq
  PROVE  Sent(e, a, type, q) \subseteq Datagram
<1>1. Peer(e) \in End
  BY DEF Peer, End
<1>2. \A t \in {"Punch", "PunchAck"}, p \in End, f \in Addr :
         [type |-> t, to |-> p, seq |-> q, from |-> f] \in Datagram
  BY DEF Datagram
<1>3. \A d \in Sent(e, a, type, q) : \E t \in {"Punch", "PunchAck"}, p \in End, f \in Addr :
         d = [type |-> t, to |-> p, seq |-> q, from |-> f]
  BY <1>1 DEF Sent, Addr
<1> QED BY <1>2, <1>3

LEMMA RelayedTypes ==
  ASSUME NEW e \in End, NEW type \in {"RelayPunch", "RelayAck"}, NEW q \in Seq
  PROVE  Relayed(e, type, q) \subseteq Datagram
<1>1. Peer(e) \in End
  BY DEF Peer, End
<1> QED BY <1>1 DEF Relayed, Datagram

LEMMA PunchesTypes ==
  ASSUME NEW e \in End, NEW a
  PROVE  Punches(e, a) \subseteq Datagram
<1>1. Burst \in Seq
  BY DEF Seq
<1> QED BY <1>1, SentTypes DEF Punches

\* The other half of a step: measurements.
ProbesMove ==
    /\ probes' \in [End -> Measurement \cup {None}]
    /\ pc' = "compare" => probes'["requester"] # None

\* An answer to a probe.
LEMMA RecordedTypes ==
  ASSUME TypeOK, NEW e \in End, NEW path, NEW q, Recorded(e, path, q), pc' = pc
  PROVE  ProbesMove
<1>0. "requester" \in End
  BY DEF End
<1>1. CASE UNCHANGED probes
  BY <1>1 DEF ProbesMove, TypeOK
<1>2. CASE probes[e] # None /\ ~UNCHANGED probes
  <2> DEFINE m == probes[e]
  <2>1. PICK t \in RTT : probes' = [probes EXCEPT ![e] =
            [sent   |-> m.sent \ {<<path, q>>},
             direct |-> IF path = "direct" THEN m.direct \cup {t} ELSE m.direct,
             relay  |-> IF path = "relay" THEN m.relay \cup {t} ELSE m.relay]]
    BY <1>2 DEF Recorded
  <2> DEFINE s == m.sent \ {<<path, q>>}
             d == IF path = "direct" THEN m.direct \cup {t} ELSE m.direct
             r == IF path = "relay" THEN m.relay \cup {t} ELSE m.relay
             n == [sent |-> s, direct |-> d, relay |-> r]
  <2>2. m \in Measurement
    BY <1>2 DEF TypeOK
  <2>3. /\ m.sent \in SUBSET ({"direct", "relay"} \X Probe)
        /\ m.direct \in SUBSET RTT /\ m.relay \in SUBSET RTT
    BY <2>2 DEF Measurement
  <2>4. s \in SUBSET ({"direct", "relay"} \X Probe) /\ d \in SUBSET RTT /\ r \in SUBSET RTT
    BY <2>3
  <2>5. probes' = [probes EXCEPT ![e] = n]
    BY <2>1
  <2> HIDE DEF s, d, r
  <2>6. n \in Measurement
    BY <2>4 DEF Measurement
  <2>7. n # None
    BY <2>6, NoneAssumption
  <2> HIDE DEF n
  <2> QED BY <1>0, <2>5, <2>6, <2>7 DEF ProbesMove, TypeOK
<1> QED BY <1>1, <1>2 DEF Recorded

\* The probes of a new measurement.
LEMMA MeasureTypes ==
  ASSUME TypeOK, NEW e \in End, Measure(e), pc' = "compare" => pc = "compare" \/ e = "requester"
  PROVE  ProbesMove /\ net' \subseteq Datagram
<1> DEFINE n == [sent |-> {"direct", "relay"} \X Probe, direct |-> {}, relay |-> {}]
<1>0. "requester" \in End
  BY DEF End
<1>1. probes' = [probes EXCEPT ![e] = n]
  BY DEF Measure
<1>2. n \in Measurement
  <2> DEFINE all == {"direct", "relay"} \X Probe
  <2>1. all \in SUBSET ({"direct", "relay"} \X Probe) /\ {} \in SUBSET RTT
    OBVIOUS
  <2> HIDE DEF all
  <2>2. [sent |-> all, direct |-> {}, relay |-> {}] \in Measurement
    BY <2>1 DEF Measurement
  <2> QED BY <2>2 DEF all
<1>3. n # None
  BY <1>2, NoneAssumption
<1> HIDE DEF n
<1>4. ProbesMove
  BY <1>0, <1>1, <1>2, <1>3 DEF ProbesMove, TypeOK
<1>5. \A q \in Probe : Sent(e, sessions[e].peer_addr, "Punch", q) \subseteq Datagram
  BY SentTypes DEF Seq
<1>6. \A q \in Probe : Relayed(e, "RelayPunch", q) \subseteq Datagram
  BY RelayedTypes DEF Seq
<1>7. net' = net \cup (UNION {Sent(e, sessions[e].peer_addr, "Punch", q) : q \in Probe})
                 \cup (UNION {Relayed(e, "RelayPunch", q) : q \in Probe})
  BY DEF Measure
<1>8. net' \subseteq Datagram
  <2> DEFINE S == UNION {Sent(e, sessions[e].peer_addr, "Punch", q) : q \in Probe}
             R == UNION {Relayed(e, "RelayPunch", q) : q \in Probe}
  <2>1. S \subseteq Datagram
    BY <1>5
  <2>2. R \subseteq Datagram
    BY <1>6
  <2>3. net' = net \cup S \cup R
    BY <1>7
  <2> HIDE DEF S, R
  <2> QED BY <2>1, <2>2, <2>3 DEF TypeOK
<1> QED BY <1>4, <1>8

\* Every step keeps the types.
LEMMA NextTypes == TypeOK /\ [Next]_vars => TypeOK'
<1> SUFFICES ASSUME TypeOK, [Next]_vars PROVE TypeOK'
  OBVIOUS
<1> DEFINE Pcs == {"await", "establish", "punching", "pick", "compare", "finish", "open", "gone", "failed"}
           Live == {"establish", "punching", "pick", "compare", "finish", "open"}
           Rest ==
              /\ UNCHANGED <<mode, nw>>
              /\ net' \subseteq Datagram
              /\ ProbesMove
              /\ spawned' \in 0 .. MaxTasks
              /\ pc' \in Pcs /\ (pc' \in Live => pc \in Live \/ sessions'["requester"] # None)
              /\ transport' \in {"Direct", "Relay"} /\ punched' \in {"none", "waiting", "notified"}
<1>0. "requester" \in End /\ "host" \in End
  BY DEF End
<1>a. SessionsMove
  BY SessionStep
<1>b. UNCHANGED probes /\ pc' # "compare" => ProbesMove
  BY DEF ProbesMove, TypeOK
<1>c. UNCHANGED <<probes, pc>> => ProbesMove
  BY DEF ProbesMove, TypeOK
<1>1. ASSUME NEW m \in net, OnPunch(m) \/ OnPunchAck(m) \/ OnRelayPunch(m) \/ OnRelayAck(m)
      PROVE  Rest
  <2>0. m.to \in End /\ m.seq \in Seq
    BY DEF TypeOK, Datagram
  <2>1. CASE OnPunch(m)
    <3>1. net' \subseteq Datagram
      BY <2>0, <2>1, SentTypes DEF OnPunch, TypeOK
    <3>2. spawned' \in 0 .. MaxTasks
      BY <2>1, ProveMoves DEF OnPunch
    <3> QED BY <2>1, <3>1, <3>2, <1>c DEF OnPunch, TypeOK
  <2>2. CASE OnPunchAck(m)
    <3>1. ProbesMove
      BY <2>0, <2>2, RecordedTypes DEF OnPunchAck
    <3>2. spawned' \in 0 .. MaxTasks
      BY <2>2, ProveMoves DEF OnPunchAck
    <3> QED BY <2>2, <3>1, <3>2 DEF OnPunchAck, TypeOK
  <2>3. CASE OnRelayPunch(m)
    <3>1. net' \subseteq Datagram
      BY <2>0, <2>3, RelayedTypes DEF OnRelayPunch, TypeOK
    <3> QED BY <2>3, <3>1, <1>c DEF OnRelayPunch, TypeOK
  <2>4. CASE OnRelayAck(m)
    <3>1. ProbesMove
      BY <2>0, <2>4, RecordedTypes DEF OnRelayAck
    <3> QED BY <2>4, <3>1 DEF OnRelayAck, TypeOK
  <2> QED BY <1>1, <2>1, <2>2, <2>3, <2>4
<1>2. ASSUME HostPicks PROVE Rest
  <2>1. spawned' \in 0 .. MaxTasks
    BY <1>2, PathAssumption DEF HostPicks, TypeOK
  <2>2. ProbesMove /\ net' \subseteq Datagram
    <3>1. CASE Measure("host")
      BY <1>0, <1>2, <3>1, MeasureTypes DEF HostPicks
    <3>2. CASE UNCHANGED <<probes, net>>
      BY <1>2, <1>c, <3>2 DEF HostPicks, TypeOK
    <3> QED BY <1>2, <3>1, <3>2 DEF HostPicks
  <2> QED BY <1>2, <2>1, <2>2 DEF HostPicks, TypeOK
<1>3. ASSUME HostCompares PROVE Rest
  <2>1. ProbesMove
    BY <1>0, <1>3 DEF HostCompares, Compared, ProbesMove, TypeOK
  <2> QED BY <1>3, <2>1 DEF HostCompares, TypeOK
<1>4. ASSUME OnPeerFound PROVE Rest
  <2>1. sessions'["requester"] # None
    BY <1>0, <1>4, NewForm DEF OnPeerFound, TypeOK
  <2> QED BY <1>4, <1>b, <2>1 DEF OnPeerFound, TypeOK
<1>5. ASSUME EstablishStart PROVE Rest
  <2>1. net' \subseteq Datagram
    BY <1>0, <1>5, PunchesTypes DEF EstablishStart, TypeOK
  <2>2. pc' \in {"finish", "punching"} /\ transport' \in {transport, "Relay"} /\ punched' \in {punched, "waiting"}
    BY <1>5 DEF EstablishStart
  <2> QED BY <1>5, <1>b, <2>1, <2>2 DEF EstablishStart, TypeOK
<1>6. ASSUME EstablishEnd PROVE Rest
  <2>2. pc' \in {"pick", "finish", "failed"} /\ transport' \in {transport, "Direct", "Relay"}
    BY <1>6 DEF EstablishEnd
  <2> QED BY <1>6, <1>b, <2>2 DEF EstablishEnd, TypeOK
<1>7. ASSUME RequesterPicks PROVE Rest
  <2>1. CASE Measure("requester") /\ pc' = "compare" /\ UNCHANGED transport
    <3>1. ProbesMove /\ net' \subseteq Datagram
      BY <1>0, <2>1, MeasureTypes
    <3> QED BY <1>7, <2>1, <3>1 DEF RequesterPicks, TypeOK
  <2>2. CASE /\ transport' = sessions["requester"].transport
             /\ pc' = "finish" /\ UNCHANGED <<sessions, probes, net>>
    <3>1. sessions["requester"] \in Session
      BY <1>0, <1>7 DEF RequesterPicks, TypeOK
    <3>2. transport' \in {"Direct", "Relay"}
      BY <2>2, <3>1 DEF Session
    <3> QED BY <1>7, <1>b, <2>2, <3>2 DEF RequesterPicks, TypeOK
  <2> QED BY <1>7, <2>1, <2>2 DEF RequesterPicks
<1>8. ASSUME RequesterCompares PROVE Rest
  <2>1. ProbesMove
    BY <1>0, <1>8 DEF RequesterCompares, Compared, ProbesMove, TypeOK
  <2>2. pc = "compare" /\ pc' = "finish"
    BY <1>8 DEF RequesterCompares
  <2>3. sessions'["requester"] \in Session
    BY <1>0, <1>a, <2>2 DEF SessionsMove, TypeOK
  <2>4. transport' \in {"Direct", "Relay"}
    BY <1>8, <2>3 DEF RequesterCompares, Session
  <2> QED BY <1>8, <2>1, <2>2, <2>4 DEF RequesterCompares, TypeOK
<1>9. ASSUME ConnectFinish PROVE Rest
  BY <1>9, <1>b DEF ConnectFinish, TypeOK
<1>10. ASSUME NEW e \in End, DropSession(e)
       PROVE  Rest
  <2>1. pc' \in {pc, "gone"}
    BY <1>10 DEF DropSession
  <2> QED BY <1>10, <1>b, <1>c, <2>1 DEF DropSession, TypeOK
<1>11. ASSUME UNCHANGED vars PROVE Rest
  BY <1>11, <1>c DEF vars, TypeOK
<1>12. Rest
  <2> HIDE DEF Rest
  <2> QED BY <1>1, <1>2, <1>3, <1>4, <1>5, <1>6, <1>7, <1>8, <1>9, <1>10, <1>11 DEF Next, Requester
<1>13. pc' \in Live => sessions'["requester"] # None
  BY <1>a, <1>12 DEF SessionsMove, TypeOK
<1> QED BY <1>a, <1>12, <1>13 DEF SessionsMove, ProbesMove, TypeOK

\* And the first state has them.
LEMMA InitTypes == Init => TypeOK
<1> SUFFICES ASSUME Init PROVE TypeOK
  OBVIOUS
<1>1. net \subseteq Datagram
  BY PunchesTypes DEF Init, End
<1>2. sessions \in [End -> Session \cup {None}]
  BY NewForm DEF Init
<1>3. probes \in [End -> Measurement \cup {None}]
  BY DEF Init
<1>4. spawned \in 0 .. MaxTasks
  BY PathAssumption DEF Init
<1> QED BY <1>1, <1>2, <1>3, <1>4 DEF Init, TypeOK

\* The variables keep the shapes they have, whatever the modes and networks.
THEOREM PathTypeCorrect == Spec => []TypeOK
BY InitTypes, NextTypes, PTL DEF Spec

-----------------------------------------------------------------------------
(* The transport a session reports.                                        *)

\* Only a proven path is measured.
CheckedProven ==
    \A e \in End : sessions[e] # None /\ sessions[e].path_checked => sessions[e].direct_ok

\* One end's share of the two, which every change of its session keeps.
Sound(s) ==
    /\ s.direct_ok /\ ~s.relay_preferred => s.transport = "Direct"
    /\ s.path_checked => s.direct_ok

LEMMA SoundIs ==
  ASSUME TypeOK
  PROVE  LiveTransportTrue /\ CheckedProven <=> \A e \in End : sessions[e] # None => Sound(sessions[e])
BY Zenon DEF LiveTransportTrue, CheckedProven, Sound, live_transport

\* How each change treats it.
LEMMA SoundStep ==
  ASSUME TypeOK, SessionsMove, NEW e \in End,
         sessions[e] # None => Sound(sessions[e]), sessions'[e] # None
  PROVE  Sound(sessions'[e])
<1>1. CASE sessions'[e] = sessions[e]
  BY <1>1
<1>2. CASE Proven(e)
  <2>1. sessions[e] \in Session
    BY <1>2 DEF Proven, TypeOK
  <2>2. PICK m \in net : Candidate(e, sessions[e], m.from) /\ sessions'[e] = Adopt(sessions[e], m.from)
    BY <1>2 DEF Proven
  <2>3. m.from \in Addr
    BY <2>1, <2>2, CandidateAddr
  <2> DEFINE s == sessions[e]
             n == sessions'[e]
  <2>4. /\ n.direct_ok = TRUE /\ n.relay_preferred = s.relay_preferred
        /\ n.transport = IF s.relay_preferred THEN s.transport ELSE "Direct"
    <3>1. /\ Adopt(s, m.from).direct_ok = TRUE /\ Adopt(s, m.from).relay_preferred = s.relay_preferred
          /\ Adopt(s, m.from).transport = IF s.relay_preferred THEN s.transport ELSE "Direct"
      BY <2>1, <2>3, AdoptForm
    <3> QED BY <2>2, <3>1
  <2> HIDE DEF n, s
  <2>5. Sound(n)
    BY <2>4, Zenon DEF Sound
  <2> QED BY <2>5 DEF n
<1>3. CASE Marked(e)
  BY <1>3 DEF Marked, MayMeasure, SameBut, Sound
<1>4. CASE Relaying(e)
  BY <1>4 DEF Relaying, SameBut, Sound
<1>5. CASE Found(e)
  BY <1>5, NewForm DEF Found, Sound
<1>6. CASE Finished(e)
  BY <1>6 DEF Finished, SameBut, Sound
<1> QED BY <1>1, <1>2, <1>3, <1>4, <1>5, <1>6 DEF SessionsMove, Change

LEMMA SoundInit == Init => LiveTransportTrue /\ CheckedProven
<1> SUFFICES ASSUME Init PROVE LiveTransportTrue /\ CheckedProven
  OBVIOUS
<1>1. TypeOK
  BY InitTypes
<1>2. \A e \in End : sessions[e] # None => sessions[e] = NewSession
  BY DEF Init
<1> QED BY <1>1, <1>2, SoundIs, NewForm DEF Sound

LEMMA SoundNext ==
  TypeOK /\ LiveTransportTrue /\ CheckedProven /\ [Next]_vars => LiveTransportTrue' /\ CheckedProven'
<1> SUFFICES ASSUME TypeOK, LiveTransportTrue, CheckedProven, [Next]_vars
             PROVE  LiveTransportTrue' /\ CheckedProven'
  OBVIOUS
<1>1. SessionsMove /\ TypeOK'
  BY SessionStep, NextTypes
<1>2. \A e \in End : sessions[e] # None => Sound(sessions[e])
  BY SoundIs
<1>3. \A e \in End : sessions'[e] # None => Sound(sessions'[e])
  BY <1>1, <1>2, SoundStep
<1> QED BY <1>3, Zenon DEF LiveTransportTrue, CheckedProven, Sound, live_transport

LEMMA SoundAlways == Spec => [](TypeOK /\ LiveTransportTrue /\ CheckedProven)
BY InitTypes, NextTypes, SoundInit, SoundNext, PTL DEF Spec

\* What live_transport reports is what the session does, however punches,
\* timeouts, measurements and the end of connect fall.
THEOREM ReportedTransportTrue == Spec => []LiveTransportTrue
BY SoundAlways, PTL

\* Once an end has compared, no later punch, ack or answer moves it.
THEOREM ChosenPathStays == Spec => NoFlapping
<1> DEFINE Stays == \A e \in End :
              /\ sessions[e] # None /\ sessions'[e] # None
              /\ sessions[e].path_checked /\ probes[e] = None
              /\ e = "requester" => pc = "open"
              => sessions'[e].transport = sessions[e].transport
<1>1. TypeOK /\ LiveTransportTrue /\ CheckedProven /\ [Next]_vars => Stays
  <2> SUFFICES ASSUME TypeOK, LiveTransportTrue, CheckedProven, [Next]_vars, NEW e \in End,
                      sessions[e] # None, sessions'[e] # None,
                      sessions[e].path_checked, probes[e] = None, e = "requester" => pc = "open"
               PROVE  sessions'[e].transport = sessions[e].transport
    OBVIOUS
  <2>1. Change(e) /\ Sound(sessions[e])
    BY SessionStep, SoundIs DEF SessionsMove
  <2>2. CASE Proven(e)
    <3>1. sessions[e] \in Session
      BY DEF TypeOK
    <3>2. PICK m \in net : Candidate(e, sessions[e], m.from) /\ sessions'[e] = Adopt(sessions[e], m.from)
      BY <2>2 DEF Proven
    <3>3. m.from \in Addr
      BY <3>1, <3>2, CandidateAddr
    <3>4. sessions'[e].transport = IF sessions[e].relay_preferred THEN sessions[e].transport ELSE "Direct"
      <4>1. Adopt(sessions[e], m.from).transport =
                IF sessions[e].relay_preferred THEN sessions[e].transport ELSE "Direct"
        BY <3>1, <3>3, AdoptForm
      <4> QED BY <3>2, <4>1
    <3>5. ~sessions[e].relay_preferred => sessions[e].transport = "Direct"
      BY <2>1 DEF Sound
    <3> QED BY <3>4, <3>5
  <2>3. ~Marked(e) /\ ~Relaying(e) /\ ~Found(e) /\ ~Finished(e)
    BY DEF Marked, MayMeasure, Relaying, Found, Finished
  <2> QED BY <2>1, <2>2, <2>3 DEF Change
<1>2. TypeOK /\ LiveTransportTrue /\ CheckedProven /\ [Next]_vars => [Stays]_vars
  BY <1>1
<1> QED BY <1>2, SoundAlways, PTL DEF Spec, NoFlapping

-----------------------------------------------------------------------------
(* Where datagrams come from, in networks without strangers.               *)

\* Address a of e's peer is one at which a datagram of e reaches it.
Reached(e, a) ==
    /\ \/ a = "lan" /\ "lan" \in nw.open
       \/ a = "pub" /\ "pub" \in nw.open /\ Peer(e) \notin nw.symmetric
       \/ a = "other"
    /\ a = "other" => "pub" \in nw.open

\* A punch was sent by an end that punches, from where it can be reached.
PunchTrue(m) ==
    m.type \in {"Punch", "PunchAck"} => mode[Peer(m.to)] # "RelayOnly" /\ Reached(m.to, m.from)

\* A session goes direct only once it is proven, which no RelayOnly end
\* allows, and then over such an address.
SessionTrue(e, s) ==
    /\ s.transport = "Direct" => s.direct_ok
    /\ s.peer_addr = "other" => "pub" \in nw.open
    /\ s.direct_ok => /\ mode[e] # "RelayOnly" /\ mode[Peer(e)] # "RelayOnly"
                      /\ Reached(e, s.peer_addr)

\* What connect has settled on rests on its session.
ConnectTrue ==
    /\ pc \in {"await", "establish", "punching"} => transport = "Relay"
    /\ punched # "none" => pc = "punching"
    /\ punched = "notified" => sessions["requester"].direct_ok
    /\ transport = "Direct" /\ pc \in {"pick", "compare", "finish"} => sessions["requester"].direct_ok
    /\ mode["requester"] = "P2pOnly" =>
          /\ pc \notin {"pick", "compare"}
          /\ pc = "finish" => transport = "Direct"
          /\ pc = "open" => sessions["requester"].transport = "Direct"

AllTrue ==
    /\ \A m \in net : PunchTrue(m)
    /\ \A e \in End : sessions[e] # None => SessionTrue(e, sessions[e])
    /\ ConnectTrue

\* A direct datagram tells the truth.
LEMMA SentTrue ==
  ASSUME nw.stranger = {}, NEW e \in End, mode[e] # "RelayOnly",
         NEW a, a = "other" => "pub" \in nw.open, NEW type, NEW q, NEW d \in Sent(e, a, type, q)
  PROVE  PunchTrue(d)
<1>1. Peer(Peer(e)) = e
  BY DEF Peer, End
<1>2. PICK f \in Addr : /\ d = [type |-> type, to |-> Peer(e), seq |-> q, from |-> f]
                        /\ f = IF a = "lan" THEN "lan" ELSE IF e \in nw.symmetric THEN "other" ELSE "pub"
                        /\ a = "lan" => "lan" \in nw.open
                        /\ a # "lan" => "pub" \in nw.open
  BY DEF Sent, Addr
<1>3. d.to = Peer(e) /\ d.from = f
  BY <1>2
<1> QED BY <1>1, <1>2, <1>3 DEF PunchTrue, Reached

\* A relayed one claims nothing.
LEMMA RelayedTrue ==
  ASSUME NEW e, NEW type \in {"RelayPunch", "RelayAck"}, NEW q, NEW d \in Relayed(e, type, q)
  PROVE  PunchTrue(d)
<1>1. d.type \in {"RelayPunch", "RelayAck"}
  BY DEF Relayed
<1> QED BY <1>1 DEF PunchTrue

\* Modes and network do not change.
LEMMA Fixed == [Next]_vars => UNCHANGED <<mode, nw>>
<1> SUFFICES ASSUME [Next]_vars PROVE UNCHANGED <<mode, nw>>
  OBVIOUS
<1>1. CASE \E m \in net : OnPunch(m) \/ OnPunchAck(m) \/ OnRelayPunch(m) \/ OnRelayAck(m)
  BY <1>1 DEF OnPunch, OnPunchAck, OnRelayPunch, OnRelayAck
<1>2. CASE HostPicks \/ HostCompares \/ OnPeerFound
  BY <1>2 DEF HostPicks, HostCompares, OnPeerFound
<1>3. CASE Requester
  BY <1>3 DEF Requester, EstablishStart, EstablishEnd, RequesterPicks, RequesterCompares, ConnectFinish
<1>4. CASE \E e \in End : DropSession(e)
  BY <1>4 DEF DropSession
<1> QED BY <1>1, <1>2, <1>3, <1>4 DEF Next, vars

\* The probes of a measurement tell the truth.
LEMMA MeasureTrue ==
  ASSUME TypeOK, AllTrue, nw.stranger = {}, NEW e \in End, Measure(e), NEW d \in net'
  PROVE  PunchTrue(d)
<1>1. sessions[e] # None /\ mode[e] = "Auto"
  BY DEF Measure, MayMeasure
<1>2. sessions[e].peer_addr = "other" => "pub" \in nw.open
  BY <1>1 DEF AllTrue, SessionTrue
<1>3. CASE d \in net
  BY <1>3 DEF AllTrue
<1>4. ASSUME NEW q \in Probe, d \in Sent(e, sessions[e].peer_addr, "Punch", q) PROVE PunchTrue(d)
  BY <1>1, <1>2, <1>4, SentTrue
<1>5. ASSUME NEW q \in Probe, d \in Relayed(e, "RelayPunch", q) PROVE PunchTrue(d)
  BY <1>5, RelayedTrue
<1>6. \/ d \in net
      \/ \E q \in Probe : d \in Sent(e, sessions[e].peer_addr, "Punch", q)
      \/ \E q \in Probe : d \in Relayed(e, "RelayPunch", q)
  BY DEF Measure
<1> QED BY <1>3, <1>4, <1>5, <1>6

\* So does the burst.
LEMMA PunchesTrue ==
  ASSUME nw.stranger = {}, NEW e \in End, mode[e] # "RelayOnly",
         NEW a, a = "other" => "pub" \in nw.open, NEW d \in Punches(e, a)
  PROVE  PunchTrue(d)
<1>1. d \in Sent(e, a, "Punch", Burst) \/ d \in Sent(e, "lan", "Punch", Burst)
  BY DEF Punches
<1> QED BY <1>1, SentTrue

\* Every datagram a step sends tells the truth.
LEMMA NetTrue ==
  ASSUME TypeOK, AllTrue, nw.stranger = {}, [Next]_vars, NEW d \in net'
  PROVE  PunchTrue(d)
<1>0. "requester" \in End /\ "host" \in End
  BY DEF End
<1>a. d \in net => PunchTrue(d)
  BY DEF AllTrue
<1>1. ASSUME NEW m \in net, OnPunch(m) PROVE PunchTrue(d)
  <2>1. m.to \in End
    BY DEF TypeOK, Datagram
  <2>2. mode[m.to] # "RelayOnly" /\ m.type = "Punch"
    BY <1>1 DEF OnPunch
  <2>3. m.from = "other" => "pub" \in nw.open
    BY <2>2 DEF AllTrue, PunchTrue, Reached
  <2>4. d \in net \/ d \in Sent(m.to, m.from, "PunchAck", m.seq)
    BY <1>1 DEF OnPunch
  <2> QED BY <1>a, <2>1, <2>2, <2>3, <2>4, SentTrue
<1>2. ASSUME NEW m \in net, OnPunchAck(m) \/ OnRelayAck(m) PROVE PunchTrue(d)
  BY <1>2, <1>a DEF OnPunchAck, OnRelayAck
<1>3. ASSUME NEW m \in net, OnRelayPunch(m) PROVE PunchTrue(d)
  <2>1. d \in net \/ d \in Relayed(m.to, "RelayAck", m.seq)
    BY <1>3 DEF OnRelayPunch
  <2> QED BY <1>a, <2>1, RelayedTrue
<1>4. CASE HostPicks
  <2>1. Measure("host") \/ UNCHANGED net
    BY <1>4 DEF HostPicks
  <2> QED BY <1>0, <1>a, <2>1, MeasureTrue
<1>5. CASE RequesterPicks
  <2>1. Measure("requester") \/ UNCHANGED net
    BY <1>5 DEF RequesterPicks
  <2> QED BY <1>0, <1>a, <2>1, MeasureTrue
<1>6. CASE EstablishStart
  <2>1. \/ UNCHANGED net
        \/ /\ mode["requester"] # "RelayOnly"
           /\ net' = net \cup Punches("requester", sessions["requester"].peer_addr)
    BY <1>6 DEF EstablishStart
  <2>2. sessions["requester"] # None
    BY <1>6 DEF EstablishStart, TypeOK
  <2>3. sessions["requester"].peer_addr = "other" => "pub" \in nw.open
    BY <1>0, <2>2 DEF AllTrue, SessionTrue
  <2> QED BY <1>0, <1>a, <2>1, <2>3, PunchesTrue
<1>7. CASE HostCompares \/ OnPeerFound \/ EstablishEnd \/ RequesterCompares \/ ConnectFinish
  BY <1>7, <1>a DEF HostCompares, OnPeerFound, EstablishEnd, RequesterCompares, ConnectFinish
<1>8. CASE \E e \in End : DropSession(e)
  BY <1>8, <1>a DEF DropSession
<1>9. CASE UNCHANGED vars
  BY <1>9, <1>a DEF vars
<1> QED BY <1>1, <1>2, <1>3, <1>4, <1>5, <1>6, <1>7, <1>8, <1>9 DEF Next, Requester

\* Every change of a session keeps what holds of it.
LEMMA SessionTrueStep ==
  ASSUME TypeOK, AllTrue, SessionsMove, NEW e \in End, sessions'[e] # None
  PROVE  SessionTrue(e, sessions'[e])
<1> DEFINE s == sessions[e]
           n == sessions'[e]
<1>0. s # None => SessionTrue(e, s)
  BY DEF AllTrue
<1>1. CASE n = s
  BY <1>0, <1>1
<1>2. CASE Proven(e)
  <2>1. s \in Session /\ s # None /\ mode[e] # "RelayOnly"
    BY <1>2 DEF Proven, TypeOK
  <2>2. PICK m \in net : /\ m.type \in {"Punch", "PunchAck"} /\ m.to = e
                         /\ Candidate(e, s, m.from) /\ n = Adopt(s, m.from)
    BY <1>2 DEF Proven
  <2>3. m.from \in Addr
    BY <2>1, <2>2, CandidateAddr
  <2>4. n.direct_ok = TRUE /\ n.peer_addr = IF Preferred(s, m.from) THEN m.from ELSE s.peer_addr
    <3>1. /\ Adopt(s, m.from).direct_ok = TRUE
          /\ Adopt(s, m.from).peer_addr = IF Preferred(s, m.from) THEN m.from ELSE s.peer_addr
      BY <2>1, <2>3, AdoptForm
    <3> QED BY <2>2, <3>1
  <2>5. mode[Peer(e)] # "RelayOnly" /\ Reached(e, m.from)
    BY <2>2 DEF AllTrue, PunchTrue
  <2>6. ~Preferred(s, m.from) => Reached(e, s.peer_addr)
    BY <1>0, <2>1 DEF Preferred, SessionTrue
  <2>7. Reached(e, n.peer_addr)
    BY <2>4, <2>5, <2>6
  <2>8. n.peer_addr = "other" => "pub" \in nw.open
    BY <2>7 DEF Reached
  <2> HIDE DEF n
  <2>9. SessionTrue(e, n)
    BY <2>1, <2>4, <2>5, <2>7, <2>8 DEF SessionTrue
  <2> QED BY <2>9 DEF n
<1>3. CASE Marked(e)
  BY <1>0, <1>3 DEF Marked, MayMeasure, SameBut, SessionTrue
<1>4. CASE Relaying(e)
  BY <1>0, <1>4 DEF Relaying, SameBut, SessionTrue
<1>5. CASE Found(e)
  BY <1>5, NewForm DEF Found, SessionTrue
<1>6. CASE Finished(e)
  <2>1. transport = "Direct" => s.direct_ok
    BY <1>6 DEF Finished, AllTrue, ConnectTrue
  <2> QED BY <1>0, <1>6, <2>1 DEF Finished, SameBut, SessionTrue
<1> QED BY <1>1, <1>2, <1>3, <1>4, <1>5, <1>6 DEF SessionsMove, Change

\* While connect runs a proven path stays proven.
LEMMA StaysProven ==
  ASSUME TypeOK, SessionsMove, pc # "await", sessions["requester"] # None,
         sessions["requester"].direct_ok, sessions'["requester"] # None
  PROVE  sessions'["requester"].direct_ok
<1> DEFINE e == "requester"
<1>0. e \in End
  BY DEF End
<1>1. CASE Proven(e)
  <2>1. sessions[e] \in Session
    BY <1>0 DEF TypeOK
  <2>2. PICK m \in net : Candidate(e, sessions[e], m.from) /\ sessions'[e] = Adopt(sessions[e], m.from)
    BY <1>1 DEF Proven
  <2>3. m.from \in Addr
    BY <2>1, <2>2, CandidateAddr
  <2>4. Adopt(sessions[e], m.from).direct_ok = TRUE
    BY <2>1, <2>3, AdoptForm
  <2> QED BY <2>2, <2>4
<1>2. CASE Marked(e)
  BY <1>2 DEF Marked, SameBut
<1>3. CASE Relaying(e)
  BY <1>3 DEF Relaying, SameBut
<1>4. CASE Finished(e)
  BY <1>4 DEF Finished, SameBut
<1> QED BY <1>0, <1>1, <1>2, <1>3, <1>4 DEF SessionsMove, Change, Found

\* A P2pOnly session stays direct.
LEMMA StaysDirect ==
  ASSUME TypeOK, SessionsMove, pc = "open", mode["requester"] = "P2pOnly",
         sessions["requester"] # None, sessions["requester"].transport = "Direct",
         sessions'["requester"] # None
  PROVE  sessions'["requester"].transport = "Direct"
<1> DEFINE e == "requester"
<1>0. e \in End
  BY DEF End
<1>1. CASE Proven(e)
  <2>1. sessions[e] \in Session
    BY <1>0 DEF TypeOK
  <2>2. PICK m \in net : Candidate(e, sessions[e], m.from) /\ sessions'[e] = Adopt(sessions[e], m.from)
    BY <1>1 DEF Proven
  <2>3. m.from \in Addr
    BY <2>1, <2>2, CandidateAddr
  <2>4. Adopt(sessions[e], m.from).transport =
            IF sessions[e].relay_preferred THEN sessions[e].transport ELSE "Direct"
    BY <2>1, <2>3, AdoptForm
  <2> QED BY <2>2, <2>4
<1>2. ~Marked(e) /\ ~Relaying(e) /\ ~Found(e) /\ ~Finished(e)
  BY DEF Marked, MayMeasure, Relaying, Found, Finished
<1> QED BY <1>0, <1>1, <1>2 DEF SessionsMove, Change

\* A step that leaves connect where it is.
LEMMA ConnectRests ==
  ASSUME TypeOK, TypeOK', ConnectTrue, SessionsMove, UNCHANGED <<mode, pc, transport>>,
         punched' = punched \/ (pc = "punching" /\ sessions'["requester"].direct_ok)
  PROVE  ConnectTrue'
<1>1. pc \in {"establish", "punching", "pick", "compare", "finish", "open"}
         => sessions["requester"] # None /\ sessions'["requester"] # None
  BY DEF TypeOK
<1>2. punched' = "notified" => sessions'["requester"].direct_ok
  BY <1>1, StaysProven DEF ConnectTrue
<1>3. transport' = "Direct" /\ pc' \in {"pick", "compare", "finish"} => sessions'["requester"].direct_ok
  BY <1>1, StaysProven DEF ConnectTrue
<1>4. mode["requester"] = "P2pOnly" /\ pc = "open" => sessions'["requester"].transport = "Direct"
  BY <1>1, StaysDirect DEF ConnectTrue
<1> QED BY <1>2, <1>3, <1>4 DEF ConnectTrue

\* Every step of connect rests on its session too.
LEMMA ConnectStep ==
  ASSUME TypeOK, TypeOK', AllTrue, SessionsMove, [Next]_vars
  PROVE  ConnectTrue'
<1> DEFINE e == "requester"
<1>0. e \in End
  BY DEF End
<1>a. UNCHANGED mode
  BY Fixed
<1>b. sessions'[e] # None => (sessions'[e].transport = "Direct" => sessions'[e].direct_ok)
  BY <1>0, SessionTrueStep DEF SessionTrue
<1>c. ConnectTrue
  BY DEF AllTrue
<1>d. sessions[e] # None => (sessions[e].transport = "Direct" => sessions[e].direct_ok)
  BY <1>0 DEF AllTrue, SessionTrue
<1>1. ASSUME NEW m \in net, OnPunch(m) \/ OnRelayPunch(m) \/ OnRelayAck(m)
      PROVE  ConnectTrue'
  <2>1. UNCHANGED <<pc, transport, punched>>
    BY <1>1 DEF OnPunch, OnRelayPunch, OnRelayAck
  <2> QED BY <1>a, <1>c, <2>1, ConnectRests
<1>2. ASSUME NEW m \in net, OnPunchAck(m)
      PROVE  ConnectTrue'
  <2>1. UNCHANGED <<pc, transport>>
    BY <1>2 DEF OnPunchAck
  <2>2. CASE m.to = e /\ punched = "waiting" /\ sessions[e] # None /\ Candidate(e, sessions[e], m.from)
    <3>1. sessions[e] \in Session
      BY <1>0, <2>2 DEF TypeOK
    <3>2. m.from \in Addr
      BY <2>2, <3>1, CandidateAddr
    <3>3. sessions' = [sessions EXCEPT ![e] = Adopt(sessions[e], m.from)]
      BY <1>2, <2>2 DEF OnPunchAck, Prove
    <3>4. sessions'[e] = Adopt(sessions[e], m.from)
      BY <1>0, <3>3 DEF TypeOK
    <3>5. Adopt(sessions[e], m.from).direct_ok = TRUE
      BY <3>1, <3>2, AdoptForm
    <3>6. pc = "punching"
      BY <1>c, <2>2 DEF ConnectTrue
    <3> QED BY <1>a, <1>c, <2>1, <3>4, <3>5, <3>6, ConnectRests
  <2>3. CASE ~(m.to = e /\ punched = "waiting" /\ sessions[e] # None /\ Candidate(e, sessions[e], m.from))
    <3>1. punched' = punched
      BY <1>2, <2>3 DEF OnPunchAck
    <3> QED BY <1>a, <1>c, <2>1, <3>1, ConnectRests
  <2> QED BY <2>2, <2>3
<1>3. CASE HostPicks \/ HostCompares
  <2>1. UNCHANGED <<pc, transport, punched>>
    BY <1>3 DEF HostPicks, HostCompares
  <2> QED BY <1>a, <1>c, <2>1, ConnectRests
<1>4. CASE OnPeerFound
  BY <1>4, <1>a, <1>c DEF OnPeerFound, ConnectTrue
<1>5. CASE EstablishStart
  BY <1>5, <1>a, <1>c DEF EstablishStart, ConnectTrue
<1>6. CASE EstablishEnd
  BY <1>6, <1>a, <1>c DEF EstablishEnd, ConnectTrue
<1>7. CASE RequesterPicks
  <2>1. pc = "pick" /\ UNCHANGED punched /\ pc' \in {"compare", "finish"} /\ sessions[e] # None
    BY <1>7 DEF RequesterPicks, TypeOK
  <2>2. mode[e] # "P2pOnly" /\ punched = "none"
    BY <1>c, <2>1 DEF ConnectTrue, TypeOK
  <2>3. CASE UNCHANGED transport
    <3>1. transport' = "Direct" => sessions'[e].direct_ok
      BY <1>c, <2>1, <2>3, StaysProven DEF ConnectTrue, TypeOK
    <3> QED BY <1>a, <2>1, <2>2, <3>1 DEF ConnectTrue
  <2>4. CASE transport' = sessions[e].transport /\ UNCHANGED sessions
    BY <1>a, <1>d, <2>1, <2>2, <2>4 DEF ConnectTrue
  <2> QED BY <1>7, <2>3, <2>4 DEF RequesterPicks
<1>8. CASE RequesterCompares
  <2>1. pc = "compare" /\ UNCHANGED punched /\ pc' = "finish" /\ transport' = sessions'[e].transport
    BY <1>8 DEF RequesterCompares
  <2>2. mode[e] # "P2pOnly" /\ punched = "none" /\ sessions'[e] # None
    BY <1>c, <2>1 DEF ConnectTrue, TypeOK
  <2> QED BY <1>a, <1>b, <2>1, <2>2 DEF ConnectTrue
<1>9. CASE ConnectFinish
  <2>1. /\ pc = "finish" /\ pc' = "open" /\ UNCHANGED <<transport, punched>>
        /\ sessions' = [sessions EXCEPT ![e].transport =
              IF sessions[e].direct_ok /\ ~sessions[e].relay_preferred THEN "Direct" ELSE transport]
    BY <1>9 DEF ConnectFinish
  <2>2. sessions[e] \in Session
    BY <1>0, <2>1 DEF TypeOK
  <2>3. transport = "Direct" => sessions'[e].transport = "Direct"
    BY <1>0, <2>1, <2>2 DEF TypeOK, Session
  <2> QED BY <1>a, <1>c, <2>1, <2>3 DEF ConnectTrue
<1>10. ASSUME NEW f \in End, DropSession(f)
       PROVE  ConnectTrue'
  <2>1. CASE f = e
    BY <1>10, <1>a, <1>c, <2>1 DEF DropSession, ConnectTrue
  <2>2. CASE f # e
    <3>1. UNCHANGED <<pc, transport, punched>>
      BY <1>10, <2>2 DEF DropSession
    <3> QED BY <1>a, <1>c, <3>1, ConnectRests
  <2> QED BY <2>1, <2>2
<1>11. CASE UNCHANGED vars
  <2>1. UNCHANGED <<pc, transport, punched>>
    BY <1>11 DEF vars
  <2> QED BY <1>a, <1>c, <2>1, ConnectRests
<1> QED BY <1>1, <1>2, <1>3, <1>4, <1>5, <1>6, <1>7, <1>8, <1>9, <1>10, <1>11 DEF Next, Requester

\* Without strangers all of it is invariant.
LEMMA TrueNext ==
  ASSUME NoStranger
  PROVE  TypeOK /\ AllTrue /\ [Next]_vars => AllTrue'
<1> SUFFICES ASSUME TypeOK, AllTrue, [Next]_vars PROVE AllTrue'
  OBVIOUS
<1>1. SessionsMove /\ TypeOK' /\ UNCHANGED <<mode, nw>> /\ nw.stranger = {}
  BY SessionStep, NextTypes, Fixed DEF TypeOK, NoStranger
<1>2. \A m \in net' : PunchTrue(m)
  BY <1>1, NetTrue
<1>3. \A e \in End : sessions'[e] # None => SessionTrue(e, sessions'[e])
  BY <1>1, SessionTrueStep
<1>4. ConnectTrue'
  BY <1>1, ConnectStep
<1>5. (\A m \in net : PunchTrue(m))'
  BY <1>1, <1>2 DEF PunchTrue, Reached
<1>6. (\A e \in End : sessions[e] # None => SessionTrue(e, sessions[e]))'
  BY <1>1, <1>3 DEF SessionTrue, Reached
<1> QED BY <1>4, <1>5, <1>6 DEF AllTrue

LEMMA TrueInit ==
  ASSUME NoStranger
  PROVE  Init => AllTrue
<1> SUFFICES ASSUME Init PROVE AllTrue
  OBVIOUS
<1>1. nw.stranger = {}
  BY DEF Init, NoStranger
<1>2. \A m \in net : PunchTrue(m)
  BY <1>1, PunchesTrue DEF Init, End
<1>3. \A e \in End : sessions[e] # None => sessions[e] = NewSession
  BY DEF Init
<1>4. \A e \in End : SessionTrue(e, NewSession)
  BY NewForm DEF SessionTrue
<1>5. ConnectTrue
  BY DEF Init, ConnectTrue
<1> QED BY <1>2, <1>3, <1>4, <1>5 DEF AllTrue

\* What is invariant says that modes bind and that direct sessions deliver.
LEMMA TrueMeans ==
  ASSUME NoStranger, TypeOK, AllTrue
  PROVE  ModeRespected /\ DirectDelivers
<1>1. nw.stranger = {}
  BY DEF TypeOK, NoStranger
<1>2. ModeRespected
  <2>1. ASSUME NEW e \in End, mode[e] = "RelayOnly", NEW f \in End, sessions[f] # None
        PROVE  sessions[f].transport = "Relay"
    <3>1. e = f \/ e = Peer(f)
      BY DEF Peer, End
    <3>2. sessions[f].transport # "Direct"
      BY <2>1, <3>1 DEF AllTrue, SessionTrue
    <3>3. sessions[f] \in Session
      BY <2>1 DEF TypeOK
    <3> QED BY <3>2, <3>3 DEF Session
  <2>2. pc = "open" /\ mode["requester"] = "P2pOnly" => sessions["requester"].transport = "Direct"
    BY DEF AllTrue, ConnectTrue
  <2> QED BY <2>1, <2>2 DEF ModeRespected
<1>3. DirectDelivers
  <2> SUFFICES ASSUME NEW e \in End, sessions[e] # None, sessions[e].transport = "Direct"
               PROVE  Sent(e, sessions[e].peer_addr, "Data", Burst) # {}
    BY DEF DirectDelivers
  <2>1. Reached(e, sessions[e].peer_addr)
    BY DEF AllTrue, SessionTrue
  <2> QED BY <1>1, <2>1 DEF Reached, Sent
<1> QED BY <1>2, <1>3

LEMMA TrueAlways ==
  ASSUME NoStranger
  PROVE  Spec => [](TypeOK /\ AllTrue)
<1>1. Init => TypeOK /\ AllTrue
  BY InitTypes, TrueInit
<1>2. TypeOK /\ AllTrue /\ [Next]_vars => (TypeOK /\ AllTrue)'
  BY NextTypes, TrueNext
<1> QED BY <1>1, <1>2, PTL DEF Spec

\* A RelayOnly end keeps both ends off the direct path, and a P2pOnly connect
\* never ends on the relay, in any network without a stranger.
THEOREM ModesBind ==
  ASSUME NoStranger
  PROVE  Spec => []ModeRespected
<1>1. TypeOK /\ AllTrue => ModeRespected
  BY TrueMeans
<1> QED BY <1>1, TrueAlways, PTL

\* A direct session of such a network reaches its peer.
THEOREM DirectReachesPeer ==
  ASSUME NoStranger
  PROVE  Spec => []DirectDelivers
<1>1. TypeOK /\ AllTrue => DirectDelivers
  BY TrueMeans
<1> QED BY <1>1, TrueAlways, PTL
=============================================================================

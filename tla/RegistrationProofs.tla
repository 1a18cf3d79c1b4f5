------------------------- MODULE RegistrationProofs -------------------------
(***************************************************************************)
(* Proofs about registration, for any policies, credentials and bounds.    *)
(* NoOutcomeMissed needs an account of where a signal is: an outcome that  *)
(* the call has not seen is about to be signalled, or, once the call has   *)
(* let go of the lock, has left a permit for its wait.  TimeoutReal needs  *)
(* that the call decides only on an outcome.  VersionErrorReal needs the   *)
(* provenance of the datagram: only a relay with a newer version sends the *)
(* refusal, and it stays newer.                                            *)
(***************************************************************************)
EXTENDS Registration, TLAPS

\* A handler owes the call a signal.
Owed == signals \cap {"waiters", "one"} # {}

\* Whatever there is to report will be seen: a signal is owed or, on the way
\* to the wait, a permit is stored; and the second signal outlasts the first.
SignalKept ==
    /\ call.pc = "parked" /\ Outcome => Owed
    /\ call.pc = "unlocked" /\ Outcome => permit \/ Owed
    /\ "waiters" \in signals => "one" \in signals

\* The call decides on an outcome that stays until it does.
Decided == call.pc = "decide" => Outcome

\* A version refusal, under way or noted, is from a relay that is newer.
RefusalReal ==
    /\ Error("Version") \in toNode => relay.newer
    /\ version_error => relay.newer

IInv == TypeOK /\ SignalKept /\ Decided /\ RefusalReal

-----------------------------------------------------------------------------
(* Datagrams.                                                              *)

\* What may be under way may still be once further ids were minted.
LEMMA MoreIds ==
  ASSUME NEW n \in Nat, NEW k \in Nat, n <= k
  PROVE  ToRelay(n) \subseteq ToRelay(k) /\ ToNode(n) \subseteq ToNode(k)
BY DEF ToRelay, ToNode

\* A Register is a datagram to the relay; so is a Heartbeat under a used id.
LEMMA SentToRelay ==
  ASSUME NEW n \in Nat
  PROVE  /\ \A p \in Proof \cup {NoProof} : Register(p) \in ToRelay(n)
         /\ \A i \in 1 .. n : Heartbeat(i) \in ToRelay(n)
BY DEF ToRelay, Register, Heartbeat

\* The relay's replies are datagrams to the node.
LEMMA SentToNode ==
  ASSUME NEW n \in Nat
  PROVE  /\ \A i \in 1 .. n, k \in BOOLEAN : Registered(i, k) \in ToNode(n)
         /\ \A c \in Challenge : AuthRequired(c) \in ToNode(n)
         /\ \A c \in ErrCode : Error(c) \in ToNode(n)
BY DEF ToNode, Registered, AuthRequired, Error

\* A datagram to the node has the fields of its type.
LEMMA NodeFields ==
  ASSUME NEW n \in Nat, NEW m \in ToNode(n)
  PROVE  /\ m.type = "Registered" => m.id \in 1 .. n /\ m.auth_key \in BOOLEAN
         /\ m.type = "AuthRequired" => m.need \in Challenge
         /\ m.type = "Error" => m.code \in ErrCode
BY DEF ToNode

\* A reply other than a version refusal is not one.
LEMMA OtherReplies ==
  /\ \A i, k : Registered(i, k) # Error("Version")
  /\ \A c : AuthRequired(c) # Error("Version")
  /\ \A c : Error(c) = Error("Version") => c = "Version"
<1>1. \A i, k : Registered(i, k).type = "Registered"
  BY DEF Registered
<1>2. \A c : AuthRequired(c).type = "AuthRequired"
  BY DEF AuthRequired
<1>3. \A c : Error(c).type = "Error" /\ Error(c).code = c
  BY DEF Error
<1> QED BY <1>1, <1>2, <1>3

-----------------------------------------------------------------------------
(* The invariant.                                                          *)

\* All of it holds before the first call.
LEMMA InitInv == Init => IInv
<1> SUFFICES ASSUME Init PROVE IInv
  OBVIOUS
<1>1. TypeOK
  <2> USE RegistrationAssumption DEF Init
  <2>1. relay \in [policy : Challenge, newer : BOOLEAN, id : 0 .. lastId, holds : BOOLEAN]
    <3>1. PICK p \in Policies : relay = [policy |-> p, newer |-> FALSE, id |-> 0, holds |-> FALSE]
      OBVIOUS
    <3>2. p \in Challenge /\ 0 \in 0 .. lastId
      OBVIOUS
    <3> QED BY <3>1, <3>2
  <2>2. call \in [pc : {"idle", "send", "check", "unlocked", "parked", "decide"},
                  attempts : 0 .. MaxAttempts, proof : Proof \cup {NoProof},
                  expired : BOOLEAN, heard : BOOLEAN]
    OBVIOUS
  <2>3. call.pc # "send" /\ result.id = 0
    BY DEF Ok
  <2>4. /\ lastId \in Nat /\ faults \in 0 .. MaxFaults /\ outages \in 0 .. MaxOutages
        /\ calls \in 0 .. MaxCalls /\ self_id \in 0 .. lastId /\ advertised \in 0 .. lastId
        /\ result.id \in 0 .. lastId
    BY <2>3
  <2>5. /\ toRelay \subseteq ToRelay(lastId) /\ toNode \subseteq ToNode(lastId)
        /\ relay_creds \in Proof /\ register_error \in ErrCode \cup {NoError}
        /\ auth_required \in Challenge \cup {NoChallenge}
    OBVIOUS
  <2>6. /\ issued_key \in BOOLEAN /\ heartbeat \in BOOLEAN
        /\ permit \in BOOLEAN /\ id_changed \in BOOLEAN /\ version_error \in BOOLEAN
        /\ signals \subseteq {"waiters", "one", "id_changed"}
    OBVIOUS
  <2> QED BY <2>1, <2>2, <2>3, <2>4, <2>5, <2>6, Zenon DEF TypeOK
<1>2. SignalKept /\ Decided /\ RefusalReal
  BY DEF Init, SignalKept, Decided, RefusalReal
<1> QED BY <1>1, <1>2 DEF IInv

\* A step of the relay keeps the types: what it sends names ids it has minted.
LEMMA RelayTypes == TypeOK /\ Relay => TypeOK'
<1> SUFFICES ASSUME TypeOK, Relay PROVE TypeOK'
  OBVIOUS
<1> USE RegistrationAssumption DEF TypeOK
<1>1. CASE RelayAccepts
  <2> DEFINE id == IF relay.id = 0 THEN lastId + 1 ELSE relay.id
  <2>1. PICK m \in toRelay :
          /\ relay' = [relay EXCEPT !.id = id, !.holds = TRUE]
          /\ lastId' = IF relay.id = 0 THEN id ELSE lastId
          /\ \E k \in BOOLEAN : Reply(m, Registered(id, k))
          /\ UNCHANGED outages
    BY <1>1, Zenon DEF RelayAccepts
  <2>2. lastId' \in Nat /\ lastId <= lastId' /\ id \in 1 .. lastId'
    BY <2>1
  <2>3. relay' \in [policy : Challenge, newer : BOOLEAN, id : 0 .. lastId', holds : BOOLEAN]
    <3>1. id \in 0 .. lastId'
      BY <2>2
    <3> HIDE DEF id
    <3> QED BY <2>1, <3>1
  <2>4. ToRelay(lastId) \subseteq ToRelay(lastId') /\ ToNode(lastId) \subseteq ToNode(lastId')
    BY <2>2, MoreIds
  <2> HIDE DEF id
  <2>5. PICK k \in BOOLEAN : Reply(m, Registered(id, k))
    BY <2>1
  <2>6. toNode' \subseteq ToNode(lastId')
    BY <2>2, <2>4, <2>5, SentToNode DEF Reply
  <2>7. toRelay' \subseteq ToRelay(lastId') /\ faults' \in 0 .. MaxFaults
    BY <2>4, <2>5 DEF Reply, Taken
  <2>8. UNCHANGED <<permits, inner, callVars, appVars>>
    BY <2>5 DEF Reply
  <2> QED
    BY <2>1, <2>2, <2>3, <2>6, <2>7, <2>8 DEF permits, inner, callVars, appVars
<1>2. ASSUME NEW m \in toRelay, NEW r \in ToNode(lastId), Reply(m, r), UNCHANGED relayVars
      PROVE  TypeOK'
  BY <1>2 DEF Reply, Taken, relayVars, permits, inner, callVars, appVars
<1>3. CASE RelayChallenges
  <2>1. AuthRequired(relay.policy) \in ToNode(lastId)
    BY SentToNode
  <2> QED BY <1>2, <1>3, <2>1 DEF RelayChallenges
<1>4. CASE RelayRefuses
  <2>1. Error("Version") \in ToNode(lastId) /\ Error("BadAuth") \in ToNode(lastId)
    BY SentToNode DEF ErrCode
  <2> QED BY <1>2, <1>4, <2>1 DEF RelayRefuses
<1>5. CASE RelayOnHeartbeat
  <2>1. Error("NotRegistered") \in ToNode(lastId)
    BY SentToNode DEF ErrCode
  <2>2. ASSUME NEW m \in toRelay, Taken(toRelay, m), UNCHANGED relayVars,
               UNCHANGED <<toNode, permits, inner, callVars, appVars>>
        PROVE  TypeOK'
    BY <2>2 DEF Taken, relayVars, permits, inner, callVars, appVars
  <2> QED BY <1>2, <1>5, <2>1, <2>2 DEF RelayOnHeartbeat
<1> QED BY <1>1, <1>3, <1>4, <1>5 DEF Relay

\* A step of the call keeps the types; a Register is sent only within budget.
LEMMA CallTypes ==
  TypeOK /\ (RegisterCall \/ Call \/ Expire \/ RegisterTimeout \/ Signal) => TypeOK'
<1> SUFFICES ASSUME TypeOK, RegisterCall \/ Call \/ Expire \/ RegisterTimeout \/ Signal
             PROVE  TypeOK'
  OBVIOUS
<1> USE RegistrationAssumption DEF TypeOK, relayVars, netVars, permits, inner, callVars, appVars
<1>1. CASE RegisterCall
  <2>1. key_only_proof \in Proof \cup {NoProof}
    BY DEF key_only_proof, Proof, Offered
  <2> QED BY <1>1, <2>1 DEF RegisterCall
<1>2. CASE RegisterSend
  <2>1. Register(call.proof) \in ToRelay(lastId)
    BY SentToRelay
  <2>2. call' \in [pc : {"idle", "send", "check", "unlocked", "parked", "decide"},
                   attempts : 0 .. MaxAttempts, proof : Proof \cup {NoProof},
                  expired : BOOLEAN, heard : BOOLEAN]
    <3>1. call' = [pc |-> "check", attempts |-> call.attempts + 1, proof |-> NoProof,
                   expired |-> FALSE, heard |-> call.heard]
      BY <1>2 DEF RegisterSend
    <3>2. call.attempts + 1 \in 0 .. MaxAttempts
      BY <1>2 DEF RegisterSend
    <3> QED BY <3>1, <3>2
  <2>3. call'.pc = "check" /\ toRelay' \subseteq ToRelay(lastId)
    BY <1>2, <2>1 DEF RegisterSend
  <2> QED BY <1>2, <2>2, <2>3 DEF RegisterSend
<1>3. ASSUME NEW r, r.id \in 0 .. lastId, Return(r)
      PROVE  /\ call' \in [pc : {"idle", "send", "check", "unlocked", "parked", "decide"},
                           attempts : 0 .. MaxAttempts, proof : Proof \cup {NoProof},
                  expired : BOOLEAN, heard : BOOLEAN]
             /\ call'.pc # "send" /\ result'.id \in 0 .. lastId /\ UNCHANGED calls
  <2>1. call' \in [pc : {"idle", "send", "check", "unlocked", "parked", "decide"},
                   attempts : 0 .. MaxAttempts, proof : Proof \cup {NoProof},
                  expired : BOOLEAN, heard : BOOLEAN]
    <3>1. call' = [pc |-> "idle", attempts |-> 0, proof |-> NoProof,
                   expired |-> FALSE, heard |-> FALSE]
      BY <1>3 DEF Return
    <3> QED BY <3>1
  <2>2. call'.pc = "idle" /\ result' = r /\ UNCHANGED calls
    BY <1>3 DEF Return
  <2> QED BY <1>3, <2>1, <2>2
<1>4. \A e : Err(e).id = 0
  BY DEF Err
<1>5. CASE RegisterCheck
  BY <1>5 DEF RegisterCheck
<1>6. CASE RegisterPark
  <2>1. UNCHANGED <<relayVars, netVars, signals, id_changed, version_error, inner, appVars>>
    BY <1>6 DEF RegisterPark
  <2>2. CASE Return(Err("RelayTimeout")) /\ UNCHANGED permit
    BY <1>3, <1>4, <2>1, <2>2
  <2>3. CASE /\ call' = [call EXCEPT !.pc = IF permit THEN "check" ELSE "parked"]
             /\ permit' = FALSE /\ UNCHANGED <<result, calls>>
    BY <2>1, <2>3
  <2> QED BY <1>6, <2>2, <2>3 DEF RegisterPark
<1>7. CASE RegisterTimeout
  BY <1>3, <1>4, <1>7 DEF RegisterTimeout
<1>8. CASE RegisterDecide
  <2>1. UNCHANGED <<relayVars, netVars, permits, relay_creds, advertised>>
    BY <1>8 DEF RegisterDecide
  <2>2. CASE Return(Ok(self_id)) /\ heartbeat' = TRUE /\ UNCHANGED inner
    <3>1. Ok(self_id).id = self_id
      BY DEF Ok
    <3> QED BY <1>3, <2>1, <2>2, <3>1
  <2>3. ASSUME NEW e, Return(Err(e)), UNCHANGED <<self_id, issued_key, register_error, heartbeat>>,
               auth_required' \in {auth_required, NoChallenge}
        PROVE  TypeOK'
    BY <1>3, <1>4, <2>1, <2>3
  <2>4. CASE /\ MayRetry /\ call' = [call EXCEPT !.pc = "send", !.proof = build_auth_proof]
             /\ register_error' = NoError /\ auth_required' = NoChallenge
             /\ UNCHANGED <<result, calls, self_id, issued_key, heartbeat>>
    BY <2>1, <2>4 DEF MayRetry, build_auth_proof
  <2> QED BY <1>8, <2>2, <2>3, <2>4, Zenon DEF RegisterDecide, inner
<1>9. CASE Expire
  BY <1>9 DEF Expire
<1>10. CASE NotifyWaiters
  BY <1>10 DEF NotifyWaiters
<1>11. CASE NotifyOne
  <2>1. permit' \in BOOLEAN
    BY <1>11, Zenon DEF NotifyOne
  <2> QED BY <1>11, <2>1 DEF NotifyOne
<1>12. CASE NotifyRotation
  BY <1>12 DEF NotifyRotation
<1> QED BY <1>1, <1>2, <1>5, <1>6, <1>7, <1>8, <1>9, <1>10, <1>11, <1>12 DEF Call, Signal

\* The handlers keep the types: what they record came in a datagram.
LEMMA NodeTypes == TypeOK /\ Node => TypeOK'
<1> SUFFICES ASSUME TypeOK, Node PROVE TypeOK'
  OBVIOUS
<1> USE RegistrationAssumption DEF TypeOK
<1>1. ASSUME NEW m \in toNode, Receive(m)
      PROVE  toNode' \subseteq ToNode(lastId) /\ faults' \in 0 .. MaxFaults
  BY <1>1 DEF Receive, Taken
<1>2. ASSUME Heard
      PROVE  /\ call' \in [pc : {"idle", "send", "check", "unlocked", "parked", "decide"},
                           attempts : 0 .. MaxAttempts, proof : Proof \cup {NoProof},
                           expired : BOOLEAN, heard : BOOLEAN]
             /\ call'.pc = "send" => call'.attempts < MaxAttempts
  <2>1. PICK b \in BOOLEAN :
          call' = [pc |-> call.pc, attempts |-> call.attempts, proof |-> call.proof,
                   expired |-> call.expired, heard |-> b]
    BY <1>2 DEF Heard
  <2> QED BY <2>1
<1>3. CASE OnRegistered
  <2>1. PICK m \in toNode :
          /\ m.type = "Registered" /\ Receive(m)
          /\ self_id' = m.id /\ issued_key' = (issued_key \/ m.auth_key)
          /\ auth_required' = NoChallenge /\ register_error' = NoError
          /\ signals' = notify_registered \cup
                           (IF self_id \notin {0, m.id} THEN {"id_changed"} ELSE {})
          /\ Heard
          /\ UNCHANGED <<permit, id_changed, version_error, result, calls, toRelay, relayVars, appVars>>
    BY <1>3, Zenon DEF OnRegistered
  <2>2. m.id \in 1 .. lastId
    BY <2>1, NodeFields
  <2>3. issued_key' \in BOOLEAN
    BY <2>1, Zenon
  <2>4. signals' \subseteq {"waiters", "one", "id_changed"}
    BY <2>1 DEF notify_registered
  <2> QED BY <1>1, <1>2, <2>1, <2>2, <2>3, <2>4 DEF relayVars, appVars
<1>4. CASE OnAuthRequired
  <2>1. PICK m \in toNode :
          /\ m.type = "AuthRequired" /\ Receive(m)
          /\ Heard /\ signals' \in {signals, notify_registered}
          /\ auth_required' \in {auth_required, m.need}
          /\ toRelay' \in {toRelay, toRelay \cup {Register(build_auth_proof)}}
          /\ UNCHANGED <<self_id, register_error, issued_key, result, calls,
                         permit, id_changed, version_error, relayVars, appVars>>
    BY <1>4 DEF OnAuthRequired
  <2>2. m.need \in Challenge
    BY <2>1, NodeFields
  <2>3. toRelay' \subseteq ToRelay(lastId)
    BY <2>1, SentToRelay DEF build_auth_proof
  <2>4. signals' \subseteq {"waiters", "one", "id_changed"}
    BY <2>1 DEF notify_registered
  <2> QED BY <1>1, <1>2, <2>1, <2>2, <2>3, <2>4 DEF relayVars, appVars
<1>5. ASSUME NEW c \in ErrCode, OnError(c) PROVE TypeOK'
  <2>1. PICK m \in toNode :
          /\ m = Error(c) /\ Receive(m)
          /\ Heard /\ signals' \in {signals, notify_registered}
          /\ register_error' \in {register_error, m.code}
          /\ \/ UNCHANGED version_error
             \/ version_error' = (version_error \/ m.code = "Version")
          /\ toRelay' \in {toRelay, toRelay \cup {Register(NoProof)}}
          /\ UNCHANGED <<self_id, auth_required, issued_key, result, calls,
                         permit, id_changed, relayVars, appVars>>
    BY <1>5 DEF OnError
  <2>2. m.code \in ErrCode
    BY <2>1 DEF Error
  <2>3. toRelay' \subseteq ToRelay(lastId)
    BY <2>1, SentToRelay
  <2>4. version_error' \in BOOLEAN
    BY <2>1, Zenon
  <2>5. signals' \subseteq {"waiters", "one", "id_changed"}
    BY <2>1 DEF notify_registered
  <2> QED BY <1>1, <1>2, <2>1, <2>2, <2>3, <2>4, <2>5 DEF relayVars, appVars
<1> QED BY <1>3, <1>4, <1>5 DEF Node

\* Every step keeps the types.
LEMMA NextTypes == TypeOK /\ [Next]_vars => TypeOK'
<1> SUFFICES ASSUME TypeOK, [Next]_vars PROVE TypeOK'
  OBVIOUS
<1> USE RegistrationAssumption DEF TypeOK, relayVars, netVars, permits, inner, callVars, appVars
<1>1. CASE Relay
  BY <1>1, RelayTypes
<1>2. CASE RegisterCall \/ Call \/ Expire \/ RegisterTimeout \/ Signal
  BY <1>2, CallTypes
<1>3. CASE Node
  BY <1>3, NodeTypes
<1>4. CASE Outage
  <2>1. relay' \in [policy : Challenge, newer : BOOLEAN, id : 0 .. lastId, holds : BOOLEAN]
    <3>1. \E b \in BOOLEAN, i \in {0, relay.id} :
             relay' = [policy |-> relay.policy, newer |-> b, id |-> i, holds |-> FALSE]
      BY <1>4 DEF Outage
    <3> QED BY <3>1
  <2> QED BY <1>4, <2>1 DEF Outage
<1>5. CASE StaleSessionError
  <2>1. Error("Protocol") \in ToNode(lastId)
    BY SentToNode DEF ErrCode
  <2> QED BY <1>5, <2>1 DEF StaleSessionError
<1>6. CASE Lose
  BY <1>6 DEF Lose
<1>7. CASE HeartbeatTick
  <2>1. Heartbeat(self_id) \in ToRelay(lastId)
    BY <1>7, SentToRelay DEF HeartbeatTick
  <2> QED BY <1>7, <2>1 DEF HeartbeatTick
<1>8. CASE AppGoesOnline
  BY <1>8 DEF AppGoesOnline
<1>9. CASE AppIdWatcher
  <2>1. advertised' = self_id /\ id_changed' \in BOOLEAN
    BY <1>9, Zenon DEF AppIdWatcher
  <2>2. UNCHANGED <<relay_creds, heartbeat, relayVars, netVars, signals, permit, version_error,
                    inner, callVars>>
    BY <1>9, Zenon DEF AppIdWatcher
  <2> QED BY <2>1, <2>2
<1>10. CASE set_relay_creds
  BY <1>10 DEF set_relay_creds
<1>11. CASE UNCHANGED vars
  BY <1>11 DEF vars
<1> QED BY <1>1, <1>2, <1>3, <1>4, <1>5, <1>6, <1>7, <1>8, <1>9, <1>10, <1>11 DEF Next

\* What the handlers record is an outcome; the others leave outcomes alone.
LEMMA HandlerOutcome ==
  ASSUME TypeOK, Node
  PROVE  /\ call'.pc = call.pc /\ UNCHANGED permit
         /\ Outcome => Outcome'
         /\ \/ UNCHANGED <<self_id, auth_required, register_error, signals>>
            \/ notify_registered \subseteq signals'
<1> USE RegistrationAssumption DEF TypeOK
<1>1. ASSUME Heard PROVE call'.pc = call.pc
  BY <1>1 DEF Heard
<1>2. CASE OnRegistered
  <2>1. PICK m \in toNode :
          /\ m.type = "Registered" /\ self_id' = m.id /\ Heard
          /\ notify_registered \subseteq signals' /\ UNCHANGED permit
    BY <1>2 DEF OnRegistered
  <2>2. m.id \in 1 .. lastId
    BY <2>1, NodeFields
  <2>3. Outcome'
    BY <2>1, <2>2 DEF Outcome
  <2> QED BY <1>1, <2>1, <2>3
<1>3. CASE OnAuthRequired
  <2>1. PICK m \in toNode :
          /\ m.type = "AuthRequired" /\ Heard /\ UNCHANGED <<permit, self_id, register_error>>
          /\ \/ UNCHANGED <<auth_required, signals>>
             \/ auth_required' = m.need /\ signals' = notify_registered
    BY <1>3 DEF OnAuthRequired
  <2>2. m.need # NoChallenge
    BY <2>1, NodeFields
  <2> QED BY <1>1, <2>1, <2>2 DEF Outcome
<1>4. ASSUME NEW c \in ErrCode, OnError(c)
      PROVE  /\ call'.pc = call.pc /\ UNCHANGED permit
             /\ Outcome => Outcome'
             /\ \/ UNCHANGED <<self_id, auth_required, register_error, signals>>
                \/ notify_registered \subseteq signals'
  <2>1. /\ Heard /\ UNCHANGED <<permit, self_id, auth_required>>
        /\ \/ UNCHANGED <<register_error, signals>>
           \/ register_error' = c /\ signals' = notify_registered
    BY <1>4 DEF OnError, Error
  <2>2. c # NoError
    BY DEF ErrCode, NoError
  <2> QED BY <1>1, <2>1, <2>2 DEF Outcome
<1> QED BY <1>2, <1>3, <1>4 DEF Node

\* A return ends the call.
LEMMA ReturnEnds ==
  ASSUME TypeOK, NEW r, Return(r)
  PROVE  call'.pc = "idle" /\ result' = r
BY DEF Return, TypeOK

\* Every step keeps track of the signal and of what is being decided.
LEMMA NextSignal ==
  TypeOK /\ SignalKept /\ Decided /\ [Next]_vars => SignalKept' /\ Decided'
<1> SUFFICES ASSUME TypeOK, SignalKept, Decided, [Next]_vars PROVE SignalKept' /\ Decided'
  OBVIOUS
<1> USE DEF SignalKept, Decided, Owed
<1>1. CASE UNCHANGED <<call, signals, permit, inner>>
  BY <1>1 DEF Outcome, inner
<1>2. CASE Node
  <2>1. notify_registered = {"waiters", "one"}
    BY DEF notify_registered
  <2>2. CASE UNCHANGED <<self_id, auth_required, register_error, signals>>
    BY <1>2, <2>2, HandlerOutcome DEF Outcome
  <2>3. CASE notify_registered \subseteq signals'
    BY <1>2, <2>1, <2>3, HandlerOutcome
  <2> QED BY <1>2, <2>2, <2>3, HandlerOutcome
<1>3. CASE RegisterCall \/ RegisterSend \/ RegisterTimeout
  <2>1. UNCHANGED signals
    BY <1>3 DEF RegisterCall, RegisterSend, RegisterTimeout, permits
  <2>2. call'.pc \in {"send", "check", "idle"}
    <3>1. CASE RegisterCall
      BY <3>1 DEF RegisterCall
    <3>2. CASE RegisterSend
      BY <3>2 DEF RegisterSend, TypeOK
    <3>3. CASE RegisterTimeout
      BY <3>3, ReturnEnds DEF RegisterTimeout
    <3> QED BY <1>3, <3>1, <3>2, <3>3
  <2> QED BY <2>1, <2>2
<1>4. CASE RegisterCheck
  <2>1. call'.pc = IF Outcome THEN "decide" ELSE "unlocked"
    BY <1>4 DEF RegisterCheck, TypeOK
  <2>2. UNCHANGED <<signals, inner>>
    BY <1>4 DEF RegisterCheck, permits
  <2> QED BY <2>1, <2>2 DEF Outcome, inner
<1>5. CASE RegisterPark
  <2>1. UNCHANGED <<signals, inner>>
    BY <1>5 DEF RegisterPark
  <2>2. CASE Return(Err("RelayTimeout"))
    BY <2>1, <2>2, ReturnEnds
  <2>3. CASE call' = [call EXCEPT !.pc = IF permit THEN "check" ELSE "parked"]
    <3>1. call'.pc = IF permit THEN "check" ELSE "parked"
      BY <2>3 DEF TypeOK
    <3> QED BY <1>5, <2>1, <3>1 DEF RegisterPark, Outcome, inner
  <2> QED BY <1>5, <2>2, <2>3 DEF RegisterPark
<1>6. CASE RegisterDecide
  <2>1. call'.pc \in {"idle", "send"}
    BY <1>6, ReturnEnds DEF RegisterDecide, TypeOK
  <2>2. UNCHANGED signals
    BY <1>6 DEF RegisterDecide, permits
  <2> QED BY <2>1, <2>2
<1>7. CASE Expire
  <2>1. call'.pc = call.pc
    BY <1>7 DEF Expire, TypeOK
  <2> QED BY <1>7, <2>1 DEF Expire, Outcome, inner, permits
<1>8. CASE NotifyWaiters
  <2>1. call'.pc = IF call.pc = "parked" THEN "check" ELSE call.pc
    BY <1>8 DEF NotifyWaiters, TypeOK
  <2>2. "one" \in signals' /\ "waiters" \notin signals'
    BY <1>8 DEF NotifyWaiters
  <2> QED BY <1>8, <2>1, <2>2 DEF NotifyWaiters, Outcome, inner
<1>9. CASE NotifyOne
  <2>1. call'.pc = IF call.pc = "parked" THEN "check" ELSE call.pc
    BY <1>9 DEF NotifyOne, TypeOK
  <2>2. call.pc = "unlocked" => permit'
    BY <1>9, Zenon DEF NotifyOne
  <2>3. "waiters" \notin signals' /\ UNCHANGED inner
    BY <1>9 DEF NotifyOne
  <2> QED BY <2>1, <2>2, <2>3 DEF Outcome, inner
<1>10. CASE NotifyRotation
  BY <1>10 DEF NotifyRotation, Outcome, inner, callVars
<1>11. CASE Relay \/ Outage \/ StaleSessionError \/ Lose
  BY <1>1, <1>11 DEF Relay, RelayAccepts, RelayChallenges, RelayRefuses, RelayOnHeartbeat, Reply,
                     Outage, StaleSessionError, Lose, permits, callVars
<1>12. CASE HeartbeatTick \/ AppGoesOnline \/ AppIdWatcher \/ set_relay_creds
  BY <1>1, <1>12 DEF HeartbeatTick, AppGoesOnline, AppIdWatcher, set_relay_creds, permits, callVars
<1>13. CASE UNCHANGED vars
  BY <1>1, <1>13 DEF vars, permits, callVars
<1> QED
  BY <1>2, <1>3, <1>4, <1>5, <1>6, <1>7, <1>8, <1>9, <1>10, <1>11, <1>12, <1>13
  DEF Next, Call, Signal

\* Every step keeps the provenance of a version refusal.
LEMMA NextRefusal == TypeOK /\ RefusalReal /\ [Next]_vars => RefusalReal'
<1> SUFFICES ASSUME TypeOK, RefusalReal, [Next]_vars PROVE RefusalReal'
  OBVIOUS
<1> USE DEF RefusalReal
<1>1. ASSUME toNode' \subseteq toNode, UNCHANGED <<relay, version_error>> PROVE RefusalReal'
  BY <1>1
<1>2. ASSUME NEW m, NEW r, Reply(m, r), r # Error("Version"), relay'.newer = relay.newer
      PROVE  RefusalReal'
  BY <1>2 DEF Reply, permits
<1>3. CASE RelayAccepts
  <2>1. relay'.newer = relay.newer
    BY <1>3 DEF RelayAccepts, TypeOK
  <2>2. \E m, i, k : Reply(m, Registered(i, k))
    BY <1>3, Zenon DEF RelayAccepts
  <2> QED BY <1>2, <2>1, <2>2, OtherReplies
<1>4. CASE RelayChallenges
  BY <1>2, <1>4, OtherReplies DEF RelayChallenges, relayVars
<1>5. CASE RelayRefuses
  <2>1. CASE relay.newer
    BY <1>5, <2>1 DEF RelayRefuses, relayVars
  <2>2. CASE ~relay.newer
    <3>1. PICK m : Reply(m, Error("BadAuth"))
      BY <1>5, <2>2 DEF RelayRefuses
    <3>2. Error("BadAuth") # Error("Version")
      BY OtherReplies
    <3> QED BY <1>2, <1>5, <3>1, <3>2 DEF RelayRefuses, relayVars
  <2> QED BY <2>1, <2>2
<1>6. CASE RelayOnHeartbeat
  <2>1. Error("NotRegistered") # Error("Version")
    BY OtherReplies
  <2> QED BY <1>1, <1>2, <1>6, <2>1 DEF RelayOnHeartbeat, relayVars, permits
<1>7. CASE Outage
  <2>1. relay.newer => relay'.newer
    BY <1>7 DEF Outage, TypeOK
  <2> QED BY <1>7, <2>1 DEF Outage, netVars, permits
<1>8. CASE StaleSessionError
  <2>1. Error("Protocol") # Error("Version")
    BY OtherReplies
  <2> QED BY <1>8, <2>1 DEF StaleSessionError, relayVars, permits
<1>9. CASE OnRegistered \/ OnAuthRequired
  BY <1>1, <1>9 DEF OnRegistered, OnAuthRequired, Receive, Taken, relayVars
<1>10. ASSUME NEW c \in ErrCode, OnError(c) PROVE RefusalReal'
  <2>1. PICK m \in toNode :
          /\ m = Error(c) /\ Receive(m) /\ UNCHANGED relay
          /\ \/ UNCHANGED version_error
             \/ version_error' = (version_error \/ m.code = "Version")
    BY <1>10 DEF OnError, relayVars
  <2>2. m.code = c
    BY <2>1 DEF Error
  <2>3. version_error' => relay.newer
    BY <2>1, <2>2, Zenon
  <2>4. toNode' \subseteq toNode
    BY <2>1 DEF Receive, Taken
  <2> QED BY <2>1, <2>3, <2>4
<1>11. CASE RegisterCall \/ Call \/ Expire \/ RegisterTimeout \/ Signal
  BY <1>1, <1>11 DEF RegisterCall, Call, RegisterSend, RegisterCheck, RegisterPark, RegisterDecide,
                     Expire, RegisterTimeout, Signal, NotifyWaiters, NotifyOne, NotifyRotation,
                     relayVars, netVars, permits
<1>12. CASE Lose \/ HeartbeatTick \/ AppGoesOnline \/ AppIdWatcher \/ set_relay_creds
  BY <1>1, <1>12 DEF Lose, HeartbeatTick, AppGoesOnline, AppIdWatcher, set_relay_creds,
                     relayVars, netVars, permits
<1>13. CASE UNCHANGED vars
  BY <1>1, <1>13 DEF vars, relayVars, netVars, permits
<1> QED
  BY <1>3, <1>4, <1>5, <1>6, <1>7, <1>8, <1>9, <1>10, <1>11, <1>12, <1>13 DEF Next, Relay, Node

\* The three together.
LEMMA NextInv == IInv /\ [Next]_vars => IInv'
BY NextTypes, NextSignal, NextRefusal DEF IInv

-----------------------------------------------------------------------------
(* The theorems.                                                           *)

\* Types, the budget of Registers of a call and the origin of every id.
THEOREM RegistrationTypeCorrect == Spec => []TypeOK
<1>1. IInv => TypeOK
  BY DEF IInv
<1> QED BY <1>1, InitInv, NextInv, PTL DEF Spec

\* register() never sleeps on an outcome that nobody is about to signal,
\* wherever between its look, the unlock and the wait a handler recorded it.
THEOREM NoOutcomeIsMissed == Spec => []NoOutcomeMissed
<1>1. IInv => NoOutcomeMissed
  BY DEF IInv, SignalKept, Owed, NoOutcomeMissed
<1> QED BY <1>1, InitInv, NextInv, PTL DEF Spec

\* register() reports a silent relay only past the deadline or on a refusal
\* that says so: no stored permit is taken for a verdict.
THEOREM TimeoutIsReal == Spec => TimeoutReal
<1>1. IInv /\ [Next]_vars =>
        [call.pc # "idle" /\ call'.pc = "idle" /\ result'.err = "RelayTimeout"
            => call.expired \/ register_error = "NotRegistered"]_vars
  <2> SUFFICES ASSUME IInv, Next, call.pc # "idle", call'.pc = "idle", result'.err = "RelayTimeout"
               PROVE  call.expired \/ register_error = "NotRegistered"
    OBVIOUS
  <2> USE DEF IInv, TypeOK
  <2>1. \A r : Return(r) => result' = r
    BY DEF Return
  <2>2. Ok(self_id).err # "RelayTimeout"
    BY DEF Ok, NoError
  <2>3. /\ Err("RelayAuthRequired").err = "RelayAuthRequired"
        /\ Err("RelayAuthFailed").err = "RelayAuthFailed"
    BY DEF Err
  <2>4. CASE RegisterDecide
    <3>1. CASE self_id # 0 /\ Return(Ok(self_id))
      BY <2>1, <2>2, <3>1
    <3>2. CASE self_id = 0 /\ auth_required # NoChallenge
      <4>1. \/ Return(Err("RelayAuthRequired")) \/ Return(Err("RelayAuthFailed"))
            \/ call' = [call EXCEPT !.pc = "send", !.proof = build_auth_proof]
        BY <2>4, <3>2 DEF RegisterDecide
      <4>2. CASE call' = [call EXCEPT !.pc = "send", !.proof = build_auth_proof]
        <5>1. call'.pc = "send"
          BY <4>2
        <5> QED BY <5>1
      <4> QED BY <2>1, <2>3, <4>1, <4>2
    <3>3. CASE self_id = 0 /\ auth_required = NoChallenge
      <4> DEFINE e == CASE register_error = "BadAuth" -> "RelayAuthFailed"
                        [] register_error \in {"Version", "Protocol"} -> "IncompatibleVersion"
                        [] OTHER -> "RelayTimeout"
      <4>1. Return(Err(e))
        BY <2>4, <3>3 DEF RegisterDecide
      <4>2. register_error \in ErrCode
        BY <2>4, <3>3 DEF RegisterDecide, Decided, Outcome
      <4>3. Err(e).err = e
        BY DEF Err
      <4> QED BY <2>1, <4>1, <4>2, <4>3 DEF ErrCode
    <3> QED BY <2>4, <3>1, <3>2, <3>3 DEF RegisterDecide
  <2>5. CASE RegisterPark \/ RegisterTimeout
    BY <2>5 DEF RegisterPark, RegisterTimeout
  <2>6. CASE Node
    <3>1. call'.pc = call.pc
      BY <2>6, HandlerOutcome
    <3> QED BY <3>1
  <2>7. CASE RegisterCall \/ RegisterSend \/ RegisterCheck \/ Expire
    BY <2>7 DEF RegisterCall, RegisterSend, RegisterCheck, Expire
  <2>8. CASE NotifyWaiters \/ NotifyOne
    BY <2>8 DEF NotifyWaiters, NotifyOne
  <2>9. CASE UNCHANGED call
    BY <2>9
  <2> QED
    BY <2>4, <2>5, <2>6, <2>7, <2>8, <2>9
    DEF Next, Relay, Call, Signal, NotifyRotation, RelayAccepts, RelayChallenges, RelayRefuses,
        RelayOnHeartbeat, Reply, Outage, StaleSessionError, Lose, HeartbeatTick, AppGoesOnline,
        AppIdWatcher, set_relay_creds, callVars
<1> QED BY <1>1, InitInv, NextInv, PTL DEF Spec, TimeoutReal

\* The app is told of a version mismatch only by a relay that is newer.
THEOREM OnlyRealVersionErrors == Spec => []VersionErrorReal
<1>1. IInv => VersionErrorReal
  BY DEF IInv, RefusalReal, VersionErrorReal
<1> QED BY <1>1, InitInv, NextInv, PTL DEF Spec
=============================================================================

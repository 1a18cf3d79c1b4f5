---------------------------- MODULE Registration ----------------------------
(***************************************************************************)
(* A node's registration with its relay (node.rs, handlers.rs): the        *)
(* `register` call and its wait for an outcome, the handlers of the        *)
(* relay's `Registered`, `AuthRequired` and `Error` datagrams, the         *)
(* heartbeat loop that notices an eviction, and the app's id watcher.      *)
(*                                                                         *)
(* The relay is outside this repository and is modelled from how the node  *)
(* uses it.  The network may lose or duplicate datagrams.                  *)
(* Challenge nonces are left out: a relay may challenge an answer again,   *)
(* which is what a stale nonce amounts to.  The receive task handles one   *)
(* datagram at a time; what a handler does under the lock is a step, and   *)
(* so is each signal it gives after it has let go of it.                   *)
(***************************************************************************)
EXTENDS Naturals, FiniteSets

CONSTANTS
    Policies,     \* the relay policies considered: records [password, totp]
    Secrets,      \* what the app may offer: records [key, password, totp]
    NoProof,      \* a Register without an auth proof
    NoChallenge,  \* no challenge is stored
    MaxAttempts,  \* Register datagrams one call may send (4 in the code)
    MaxCalls,     \* bound: calls of register() by the app
    MaxOutages,   \* bound: times the relay forgets the node or is redeployed
    MaxFaults     \* bound: datagrams lost, duplicated or bounced

VARIABLES
    relay,          \* the relay: its policy, whether it was redeployed with a
                    \* newer protocol, the id it maps our key to (0 if none)
                    \* and whether it holds our registration
    lastId,         \* the last id the relay minted
    toRelay,        \* datagrams under way to the relay
    toNode,         \* datagrams under way to the node
    faults, outages, calls,                \* counters for the bounds
    relay_creds,    \* what the app stored with set_relay_creds
    self_id,        \* our id, 0 before the first Registered
    register_error, \* a refusal received while unregistered
    auth_required,  \* a challenge received while unregistered
    issued_key,     \* the relay handed out an access key
    call,           \* the register() in progress; expired: the deadline of
                    \* its attempt is over; heard: history, a reply of the
                    \* relay arrived since the call began
    result,         \* what the last register() returned
    signals,        \* signals the handler that runs has still to give
    permit,         \* the stored permit of the `registered` Notify
    id_changed,     \* the stored permit of the `id_changed` Notify
    version_error,  \* the stored permit of the `version_error` Notify
    heartbeat,      \* a heartbeat loop is running
    advertised      \* the id the app shows and advertises, 0 if none

relayVars == <<relay, lastId, outages>>
netVars   == <<toRelay, toNode, faults>>
permits   == <<signals, permit, id_changed, version_error>>
inner     == <<self_id, register_error, auth_required, issued_key>>
callVars  == <<call, result, calls>>
appVars   == <<relay_creds, heartbeat, advertised>>

vars == <<relayVars, netVars, permits, inner, callVars, appVars>>

NoError == "no error"

Ok(id) == [id |-> id, err |-> NoError]
Err(e) == [id |-> 0, err |-> e]

Offered   == {"none", "good", "bad"}
Proof     == [key : Offered, password : Offered, totp : Offered]
Challenge == [password : BOOLEAN, totp : BOOLEAN]
ErrCode   == {"BadAuth", "Version", "Protocol", "NotRegistered"}

ASSUME RegistrationAssumption ==
    /\ Policies \subseteq Challenge /\ Secrets \subseteq Proof
    /\ NoProof \notin Proof /\ NoChallenge \notin Challenge
    /\ MaxAttempts \in Nat \ {0} /\ MaxCalls \in Nat /\ MaxOutages \in Nat /\ MaxFaults \in Nat

Register(proof)  == [type |-> "Register", proof |-> proof]
Heartbeat(id)    == [type |-> "Heartbeat", id |-> id]
Registered(i, k) == [type |-> "Registered", id |-> i, auth_key |-> k]
AuthRequired(c)  == [type |-> "AuthRequired", need |-> c]
Error(code)      == [type |-> "Error", code |-> code]

-----------------------------------------------------------------------------
(***************************************************************************)
(* The relay and the network (external).                                   *)
(***************************************************************************)

\* A datagram m is taken from the set net, or a duplicate of it stays behind.
Taken(net, m) ==
    \/ net' = net \ {m} /\ UNCHANGED faults
    \/ faults < MaxFaults /\ faults' = faults + 1 /\ UNCHANGED net

Lose ==
    /\ faults < MaxFaults
    /\ faults' = faults + 1
    /\ \/ \E m \in toRelay : toRelay' = toRelay \ {m} /\ UNCHANGED toNode
       \/ \E m \in toNode : toNode' = toNode \ {m} /\ UNCHANGED toRelay
    /\ UNCHANGED <<relayVars, permits, inner, callVars, appVars>>

Open(policy) == ~policy.password /\ ~policy.totp

\* The proof holds a valid access key, or every factor of the policy.
Satisfies(proof, policy) ==
    /\ proof # NoProof
    /\ \/ proof.key = "good"
       \/ /\ policy.password => proof.password = "good"
          /\ policy.totp => proof.totp = "good"

Reply(m, r) ==
    /\ Taken(toRelay, m)
    /\ toNode' = toNode \cup {r}
    /\ UNCHANGED <<permits, inner, callVars, appVars>>

\* The relay registers the node, under the id it knows it by or a fresh one.
\* It issues an access key when the interactive factors were used.
RelayAccepts ==
    \E m \in toRelay :
        /\ m.type = "Register" /\ ~relay.newer
        /\ Open(relay.policy) \/ Satisfies(m.proof, relay.policy)
        /\ LET id == IF relay.id = 0 THEN lastId + 1 ELSE relay.id
               issues == m.proof # NoProof /\ m.proof.key # "good" /\ ~Open(relay.policy)
           IN  /\ Reply(m, Registered(id, issues))
               /\ relay' = [relay EXCEPT !.id = id, !.holds = TRUE]
               /\ lastId' = IF relay.id = 0 THEN id ELSE lastId
        /\ UNCHANGED outages

\* It challenges a Register without a valid key; an answer whose nonce it
\* finds stale, valid or not, is challenged again.
RelayChallenges ==
    \E m \in toRelay :
        /\ m.type = "Register" /\ ~relay.newer /\ ~Open(relay.policy)
        /\ m.proof # NoProof => m.proof.key # "good"
        /\ Reply(m, AuthRequired(relay.policy))
        /\ UNCHANGED relayVars

RelayRefuses ==
    \E m \in toRelay :
        /\ m.type = "Register"
        /\ \/ relay.newer /\ Reply(m, Error("Version"))
           \/ /\ ~relay.newer /\ ~Open(relay.policy) /\ m.proof # NoProof
              /\ ~Satisfies(m.proof, relay.policy)
              /\ Reply(m, Error("BadAuth"))
        /\ UNCHANGED relayVars

\* A heartbeat of a node it no longer holds, or under an old id, bounces.
RelayOnHeartbeat ==
    \E m \in toRelay :
        /\ m.type = "Heartbeat"
        /\ IF relay.holds /\ relay.id = m.id
           THEN /\ Taken(toRelay, m)
                /\ UNCHANGED <<toNode, permits, inner, callVars, appVars>>
           ELSE Reply(m, Error("NotRegistered"))
        /\ UNCHANGED relayVars

\* The relay drops the silent node, restarts without its table of ids, or is
\* redeployed with a newer protocol version.
Outage ==
    /\ outages < MaxOutages
    /\ outages' = outages + 1
    /\ relay' \in {[relay EXCEPT !.holds = FALSE],
                   [relay EXCEPT !.holds = FALSE, !.id = 0],
                   [relay EXCEPT !.holds = FALSE, !.newer = TRUE]}
    /\ UNCHANGED <<lastId, netVars, permits, inner, callVars, appVars>>

\* RelayData for a session the relay lost comes back as a Protocol error.
StaleSessionError ==
    /\ self_id # 0 /\ outages > 0
    /\ faults < MaxFaults /\ faults' = faults + 1
    /\ toNode' = toNode \cup {Error("Protocol")}
    /\ UNCHANGED <<relayVars, toRelay, permits, inner, callVars, appVars>>

-----------------------------------------------------------------------------
(***************************************************************************)
(* register()                                                              *)
(***************************************************************************)

key_only_proof ==
    IF relay_creds.key = "none" THEN NoProof
    ELSE [key |-> relay_creds.key, password |-> "none", totp |-> "none"]

build_auth_proof == relay_creds

Outcome == self_id # 0 \/ auth_required # NoChallenge \/ register_error # NoError

RegisterCall ==
    /\ call.pc = "idle" /\ calls < MaxCalls
    /\ calls' = calls + 1
    /\ call' = [pc |-> "send", attempts |-> 0, proof |-> key_only_proof,
                expired |-> FALSE, heard |-> FALSE]
    /\ UNCHANGED <<result, relayVars, netVars, permits, inner, appVars>>

RegisterSend ==
    /\ call.pc = "send"
    /\ toRelay' = toRelay \cup {Register(call.proof)}
    /\ call' = [call EXCEPT !.pc = "check", !.attempts = @ + 1, !.proof = NoProof,
                            !.expired = FALSE]
    /\ UNCHANGED <<result, calls, relayVars, toNode, faults, permits, inner, appVars>>

Return(r) ==
    /\ call' = [call EXCEPT !.pc = "idle", !.attempts = 0, !.proof = NoProof,
                            !.expired = FALSE, !.heard = FALSE]
    /\ result' = r
    /\ UNCHANGED calls

\* Time runs; the call looks at it after the unlock and while it waits.
Expire ==
    /\ call.pc \in {"unlocked", "parked"} /\ ~call.expired
    /\ call' = [call EXCEPT !.expired = TRUE]
    /\ UNCHANGED <<result, calls, relayVars, netVars, permits, inner, appVars>>

\* Under the lock: is there an outcome?  If not, the lock is released.
RegisterCheck ==
    /\ call.pc = "check"
    /\ call' = [call EXCEPT !.pc = IF Outcome THEN "decide" ELSE "unlocked"]
    /\ UNCHANGED <<result, calls, relayVars, netVars, permits, inner, appVars>>

\* Mutant: whatever ends the wait is taken for a verdict.
RegisterParkTrusting ==
    /\ call.pc = "unlocked"
    /\ \/ call.expired /\ Return(Err("RelayTimeout")) /\ UNCHANGED permit
       \/ /\ ~call.expired
          /\ call' = [call EXCEPT !.pc = IF permit THEN "decide" ELSE "parked"]
          /\ permit' = FALSE
          /\ UNCHANGED <<result, calls>>
    /\ UNCHANGED <<relayVars, netVars, signals, id_changed, version_error, inner, appVars>>

\* Without the lock: the call gives up if no time remains; else
\* `registered.notified()` ends at once on a stored permit, or parks.
RegisterPark ==
    /\ call.pc = "unlocked"
    /\ \/ call.expired /\ Return(Err("RelayTimeout")) /\ UNCHANGED permit
       \/ /\ ~call.expired
          /\ call' = [call EXCEPT !.pc = IF permit THEN "check" ELSE "parked"]
          /\ permit' = FALSE
          /\ UNCHANGED <<result, calls>>
    /\ UNCHANGED <<relayVars, netVars, signals, id_changed, version_error, inner, appVars>>

\* Mutant: the wait has no deadline of its own.
RegisterTimeoutOnOutcome ==
    /\ call.pc = "parked" /\ call.expired /\ Outcome
    /\ Return(Err("RelayTimeout"))
    /\ UNCHANGED <<relayVars, netVars, permits, inner, appVars>>

RegisterTimeout ==
    /\ call.pc = "parked" /\ call.expired
    /\ Return(Err("RelayTimeout"))
    /\ UNCHANGED <<relayVars, netVars, permits, inner, appVars>>

\* The factors of the challenge that the app did not supply.
Missing ==
    [password |-> auth_required.password /\ relay_creds.password = "none",
     totp     |-> auth_required.totp /\ relay_creds.totp = "none"]

MayRetry == call.attempts < MaxAttempts

\* Locked again, with an outcome: an id, else a challenge, else a refusal.
RegisterDecide ==
    /\ call.pc = "decide"
    /\ \/ /\ self_id # 0
          /\ Return(Ok(self_id))
          /\ heartbeat' = TRUE
          /\ UNCHANGED inner
       \/ /\ self_id = 0 /\ auth_required # NoChallenge
          /\ auth_required' = NoChallenge
          /\ \/ /\ Missing.password \/ Missing.totp
                /\ Return(Err("RelayAuthRequired"))
                /\ UNCHANGED register_error
             \/ /\ ~Missing.password /\ ~Missing.totp
                /\ ~MayRetry
                /\ Return(Err("RelayAuthFailed"))
                /\ UNCHANGED register_error
             \/ /\ ~Missing.password /\ ~Missing.totp
                /\ MayRetry
                /\ call' = [call EXCEPT !.pc = "send", !.proof = build_auth_proof]
                /\ register_error' = NoError
                /\ UNCHANGED <<result, calls>>
          /\ UNCHANGED <<self_id, issued_key, heartbeat>>
       \/ /\ self_id = 0 /\ auth_required = NoChallenge
          /\ Return(Err(CASE register_error = "BadAuth" -> "RelayAuthFailed"
                          [] register_error \in {"Version", "Protocol"} -> "IncompatibleVersion"
                          [] OTHER -> "RelayTimeout"))
          /\ UNCHANGED <<inner, heartbeat>>
    /\ UNCHANGED <<relayVars, netVars, permits, relay_creds, advertised>>

-----------------------------------------------------------------------------
(***************************************************************************)
(* The relay's datagrams at the node                                       *)
(***************************************************************************)

\* The receive task takes a datagram once its last handler has ended.
Receive(m) == signals = {} /\ Taken(toNode, m)

Heard == call' = [call EXCEPT !.heard = @ \/ call.pc # "idle"]

\* Mutant: notify_waiters alone, which stores no permit.
NotifyWaitersOnly == {"waiters"}

\* Both notifications, still to be given.
notify_registered == {"waiters", "one"}

\* notify_waiters wakes a parked call.
NotifyWaiters ==
    /\ "waiters" \in signals /\ signals' = signals \ {"waiters"}
    /\ call' = [call EXCEPT !.pc = IF @ = "parked" THEN "check" ELSE @]
    /\ UNCHANGED <<result, calls, permit, id_changed, version_error,
                   relayVars, netVars, inner, appVars>>

\* notify_one wakes it, or stores a permit, which may later wake a call with
\* nothing to report.
NotifyOne ==
    /\ "one" \in signals /\ "waiters" \notin signals
    /\ signals' = signals \ {"one"}
    /\ permit' = (permit \/ call.pc # "parked")
    /\ call' = [call EXCEPT !.pc = IF @ = "parked" THEN "check" ELSE @]
    /\ UNCHANGED <<result, calls, id_changed, version_error, relayVars, netVars, inner, appVars>>

NotifyRotation ==
    /\ signals = {"id_changed"} /\ signals' = {}
    /\ id_changed' = TRUE
    /\ UNCHANGED <<permit, version_error, relayVars, netVars, inner, callVars, appVars>>

\* Mutant: a Registered with another id does not raise id_changed.
OnRegisteredQuietly ==
    \E m \in toNode :
        /\ m.type = "Registered"
        /\ Receive(m)
        /\ self_id' = m.id
        /\ issued_key' = (issued_key \/ m.auth_key)
        /\ auth_required' = NoChallenge
        /\ register_error' = NoError
        /\ signals' = notify_registered
        /\ Heard
        /\ UNCHANGED <<permit, id_changed, version_error, result, calls, toRelay, relayVars, appVars>>

OnRegistered ==
    \E m \in toNode :
        /\ m.type = "Registered"
        /\ Receive(m)
        /\ self_id' = m.id
        /\ issued_key' = (issued_key \/ m.auth_key)
        /\ auth_required' = NoChallenge
        /\ register_error' = NoError
        /\ signals' = notify_registered \cup
                         (IF self_id \notin {0, m.id} THEN {"id_changed"} ELSE {})
        /\ Heard
        /\ UNCHANGED <<permit, id_changed, version_error, result, calls, toRelay, relayVars, appVars>>

\* A challenge to an unregistered node goes to register(); one that answers a
\* recovery Register is answered here if the stored password is enough.
OnAuthRequired ==
    \E m \in toNode :
        /\ m.type = "AuthRequired"
        /\ Receive(m)
        /\ \/ /\ self_id = 0
              /\ auth_required' = m.need
              /\ signals' = notify_registered
              /\ UNCHANGED toRelay
           \/ /\ self_id # 0
              /\ ~m.need.totp /\ (m.need.password => relay_creds.password # "none")
              /\ toRelay' = toRelay \cup {Register(build_auth_proof)}
              /\ UNCHANGED <<auth_required, signals>>
           \/ /\ self_id # 0
              /\ m.need.totp \/ (m.need.password /\ relay_creds.password = "none")
              /\ UNCHANGED <<auth_required, toRelay, signals>>
        /\ Heard
        /\ UNCHANGED <<self_id, register_error, issued_key, result, calls,
                       permit, id_changed, version_error, relayVars, appVars>>

\* Only a version refusal raises version_error; NotRegistered is answered with
\* a Register, whoever we are.
OnError(code) ==
    \E m \in toNode :
        /\ m = Error(code)
        /\ Receive(m)
        /\ \/ /\ self_id = 0
              /\ register_error' = m.code
              /\ signals' = notify_registered
              /\ UNCHANGED version_error
           \/ /\ self_id # 0
              /\ version_error' = (version_error \/ m.code = "Version")
              /\ UNCHANGED <<register_error, signals>>
        /\ toRelay' = IF m.code = "NotRegistered"
                      THEN toRelay \cup {Register(NoProof)} ELSE toRelay
        /\ Heard
        /\ UNCHANGED <<self_id, auth_required, issued_key, result, calls,
                       permit, id_changed, relayVars, appVars>>

HeartbeatTick ==
    /\ heartbeat /\ self_id # 0
    /\ toRelay' = toRelay \cup {Heartbeat(self_id)}
    /\ UNCHANGED <<toNode, faults, relayVars, permits, inner, callVars, appVars>>

-----------------------------------------------------------------------------
(***************************************************************************)
(* The app: it advertises the id register() returned, follows id_changed,  *)
(* and may change the credentials between calls.  A good access key was    *)
(* issued to it, in this life or an earlier one.                           *)
(***************************************************************************)
AppGoesOnline ==
    /\ call.pc = "idle" /\ result.id # 0 /\ advertised = 0
    /\ advertised' = result.id
    /\ UNCHANGED <<relay_creds, heartbeat, relayVars, netVars, permits, inner, callVars>>

AppIdWatcher ==
    /\ advertised # 0 /\ id_changed
    /\ id_changed' = FALSE
    /\ advertised' = self_id
    /\ UNCHANGED <<relay_creds, heartbeat, relayVars, netVars, signals, permit, version_error,
                   inner, callVars>>

set_relay_creds ==
    /\ call.pc = "idle"
    /\ \E s \in Secrets :
          /\ s # relay_creds
          /\ s.key = "good" => issued_key
          /\ relay_creds' = s
    /\ UNCHANGED <<heartbeat, advertised, relayVars, netVars, permits, inner, callVars>>

-----------------------------------------------------------------------------

Init ==
    /\ relay \in {[policy |-> p, newer |-> FALSE, id |-> 0, holds |-> FALSE] : p \in Policies}
    /\ lastId = 0 /\ outages = 0
    /\ toRelay = {} /\ toNode = {} /\ faults = 0
    /\ signals = {} /\ permit = FALSE /\ id_changed = FALSE /\ version_error = FALSE
    /\ self_id = 0 /\ register_error = NoError /\ auth_required = NoChallenge
    /\ issued_key = FALSE
    /\ call = [pc |-> "idle", attempts |-> 0, proof |-> NoProof, expired |-> FALSE, heard |-> FALSE]
    /\ result = Ok(0) /\ calls = 0
    /\ relay_creds \in Secrets
    /\ heartbeat = FALSE /\ advertised = 0

Relay == RelayAccepts \/ RelayChallenges \/ RelayRefuses \/ RelayOnHeartbeat
Call  == RegisterSend \/ RegisterCheck \/ RegisterPark \/ RegisterDecide
Node  == OnRegistered \/ OnAuthRequired \/ \E c \in ErrCode : OnError(c)
Signal == NotifyWaiters \/ NotifyOne \/ NotifyRotation

Next ==
    \/ Relay \/ Outage \/ StaleSessionError \/ Lose
    \/ RegisterCall \/ Call \/ Expire \/ RegisterTimeout
    \/ Node \/ Signal \/ HeartbeatTick
    \/ AppGoesOnline \/ AppIdWatcher \/ set_relay_creds

\* The tasks of the node run, its deadline expires, its heartbeat ticks, and
\* datagrams that are not lost arrive and are answered.  A relay that gets
\* satisfying answers again and again accepts one.  Nothing is assumed of its
\* refusals; outages, losses and what the user does with the credentials are
\* not fair.
Fairness ==
    /\ WF_vars(Call) /\ WF_vars(Expire) /\ WF_vars(RegisterTimeout) /\ WF_vars(Signal)
    /\ WF_vars(OnRegistered) /\ WF_vars(OnAuthRequired) /\ WF_vars(OnError("NotRegistered"))
    /\ WF_vars(HeartbeatTick)
    /\ SF_vars(RelayAccepts) /\ SF_vars(RelayChallenges) /\ SF_vars(RelayOnHeartbeat)
    /\ WF_vars(AppGoesOnline) /\ WF_vars(AppIdWatcher)

Spec == Init /\ [][Next]_vars /\ Fairness

-----------------------------------------------------------------------------

\* Datagrams that carry no other ids than 1 .. n.
ToRelay(n) ==
    [type : {"Register"}, proof : Proof \cup {NoProof}] \cup [type : {"Heartbeat"}, id : 1 .. n]
ToNode(n) ==
    [type : {"Registered"}, id : 1 .. n, auth_key : BOOLEAN]
        \cup [type : {"AuthRequired"}, need : Challenge] \cup [type : {"Error"}, code : ErrCode]

\* Every variable has its shape; in particular a call sends at most
\* MaxAttempts Registers, and no id is in use that the relay never minted.
TypeOK ==
    /\ lastId \in Nat
    /\ relay \in [policy : Challenge, newer : BOOLEAN, id : 0 .. lastId, holds : BOOLEAN]
    /\ faults \in 0 .. MaxFaults /\ outages \in 0 .. MaxOutages /\ calls \in 0 .. MaxCalls
    /\ toRelay \subseteq ToRelay(lastId) /\ toNode \subseteq ToNode(lastId)
    /\ relay_creds \in Proof
    /\ self_id \in 0 .. lastId /\ advertised \in 0 .. lastId /\ result.id \in 0 .. lastId
    /\ register_error \in ErrCode \cup {NoError}
    /\ auth_required \in Challenge \cup {NoChallenge}
    /\ issued_key \in BOOLEAN /\ heartbeat \in BOOLEAN
    /\ signals \subseteq {"waiters", "one", "id_changed"}
    /\ permit \in BOOLEAN /\ id_changed \in BOOLEAN /\ version_error \in BOOLEAN
    /\ call \in [pc : {"idle", "send", "check", "unlocked", "parked", "decide"},
                  attempts : 0 .. MaxAttempts, proof : Proof \cup {NoProof},
                  expired : BOOLEAN, heard : BOOLEAN]
    /\ call.pc = "send" => call.attempts < MaxAttempts

\* "A signal is never lost": register() does not sleep on an outcome that no
\* handler is about to signal, wherever between its look under the lock, the
\* unlock and the wait the outcome was recorded.  (One recorded when the last
\* moment has already passed is reported as a timeout all the same.)
NoOutcomeMissed ==
    call.pc = "parked" /\ Outcome => signals \cap {"waiters", "one"} # {}

\* "A stale permit can't be misread as a RelayTimeout": the relay is said to
\* be silent only when the deadline of the attempt is over, however many
\* permits earlier replies have left, or when it refused with NotRegistered.
TimeoutReal ==
    [][call.pc # "idle" /\ call'.pc = "idle" /\ result'.err = "RelayTimeout"
          => call.expired \/ register_error = "NotRegistered"]_vars

\* A call of register() always returns, even to a relay that challenges every
\* answer again.
RegisterReturns == call.pc # "idle" ~> call.pc = "idle"

\* The relay knows the node under the id the node uses.
Known == relay.holds /\ relay.id = self_id

\* The node can answer the relay's challenge by itself.
Answerable ==
    /\ ~relay.newer
    /\ ~relay.policy.totp
    /\ relay.policy.password => relay_creds.password = "good"

\* The node is reachable under the id the app shows.
Reachable == Known /\ advertised = self_id

\* A node that is online and can answer for itself gets back into the relay's
\* table after an eviction or a restart, whatever was lost meanwhile, and the
\* app comes to show the id it got: a rotation between register()'s return and
\* the app's watch on id_changed is not missed.
Recovers == (heartbeat /\ Answerable /\ ~Reachable) ~> (Reachable \/ ~Answerable)

\* The app is told to update only by a relay that speaks a newer version, not
\* by the Protocol error of a session the relay lost.
VersionErrorReal == version_error => relay.newer

-----------------------------------------------------------------------------

\* "DEFINITIVE registration outcome" of "THIS Register" (register's comment):
\* a verdict on the credentials comes from a reply received during the call.
VerdictFresh ==
    [][call.pc # "idle" /\ call'.pc = "idle" /\ result'.err = "RelayAuthFailed" => call.heard]_vars

\* "Tried first on every registration, so a device that authenticated once is
\* never prompted again" (RelayCreds::key): a node that holds a valid access
\* key gets back into the relay's table after an outage.
KeyHolderRecovers ==
    (heartbeat /\ relay_creds.key = "good" /\ ~relay.newer /\ ~Known)
        ~> (Known \/ relay_creds.key # "good" \/ relay.newer)
=============================================================================

-------------------------- MODULE AccessHandshake ---------------------------
(***************************************************************************)
(* The access handshake that opens a session (auth.rs, pake.rs), up to the *)
(* host's serve loop, which is module ServeLoop.  The session hands each   *)
(* message over at most once and in any order; messages may be lost.       *)
(*                                                                         *)
(* SPAKE2 and the MACs are ideal.  Attempt n of the client stands for the  *)
(* pair of SPAKE2 messages it sends, and the host's reply to it for the    *)
(* host's; a MAC verifies iff both sides used the same two messages, equal *)
(* passwords and the same channel.  The two ends' channels differ when     *)
(* somebody in between ended the key exchange with each of them and passes *)
(* the messages on.                                                        *)
(*                                                                         *)
(* The host application's loop around the handshake, which races the       *)
(* user's Allow or Deny against a password, is outside this repository;    *)
(* tests/auth_race.rs shows it.                                            *)
(***************************************************************************)
EXTENDS Naturals, Sequences

CONSTANTS
    Passwords,      \* what the user may type
    Norm,           \* the one-time form of each: dashes dropped, lower case
    Empty,          \* no password
    Creds,          \* the host's credentials considered: records [otp, fixed]
    MAX_WAIT_MSGS,  \* messages read while waiting for one (16 in the code)
    MaxAttempts,    \* bound: attempts of the client
    MaxLosses       \* bound: messages lost

ASSUME ServiceAssumption ==
    /\ Empty \notin Passwords
    /\ Norm \in [Passwords -> Passwords] /\ \A p \in Passwords : Norm[Norm[p]] = Norm[p]
    /\ Creds \subseteq [otp : Passwords \cup {Empty}, fixed : Passwords \cup {Empty}]
    /\ MAX_WAIT_MSGS \in Nat \ {0}
    /\ MaxAttempts \in Nat /\ MaxLosses \in Nat

VARIABLES
    creds,          \* the host's one-time and fixed password
    peer_pake,      \* the host's build knows PAKE
    old,            \* the client's build does not
    binding,        \* each end's channel binding
    toHost, toClient, losses,
    typed,          \* the password of each attempt
    pake_client,    \* the attempt whose SPAKE2 state the client holds, or 0
    waiting,        \* the client awaits an answer
    phase,          \* the client: "auth", "session" or "over"
    hpc,            \* the host: "first", "race", "verify", "serving", "over"
    run,            \* the attempt being verified
    budget,         \* messages the verification may still read
    granted,        \* what admitted the client, and at which attempt
    refused,        \* history: attempts answered with NeedPassword
    disturbed       \* history: an attempt overtook another, the host stopped
                    \* waiting for a confirmation

env    == <<creds, peer_pake, old, binding>>
client == <<typed, pake_client, waiting, phase>>
gate   == <<hpc, run, budget, granted, refused>>
accessvars == <<env, toHost, toClient, losses, client, gate, disturbed>>

Auth(n, pw)    == [type |-> "Auth", n |-> n, pw |-> pw]
AuthPake(n)    == [type |-> "AuthPake", n |-> n]
AuthPakeReply(n)  == [type |-> "AuthPakeReply", n |-> n, ch |-> binding.host]
Confirm(p, n, slot) ==
    [type |-> "AuthPakeConfirm", a |-> p, n |-> n, slot |-> slot, ch |-> binding.client]
NeedPassword(n) == [type |-> "NeedPassword", n |-> n]
Plain(type)     == [type |-> type]

norm_otp(p) == Norm[p]

\* Password pw is the host's credential of that slot.
Matches(pw, slot) ==
    \/ slot = "OneTime" /\ creds.otp # Empty /\ norm_otp(pw) = norm_otp(creds.otp)
    \/ slot = "Fixed" /\ creds.fixed # Empty /\ pw = creds.fixed

\* The slots are tried in this order by the client and, for a password in the
\* clear, by the host.
Credential(pw) ==
    IF Matches(pw, "OneTime") THEN "OneTime"
    ELSE IF Matches(pw, "Fixed") THEN "Fixed" ELSE "None"

-----------------------------------------------------------------------------
(***************************************************************************)
(* The client during the handshake                                         *)
(***************************************************************************)

\* send_attempt: without a password at once; with one, PAKE is required.  A
\* client of an old build sends any password in the clear.
send_attempt(pw) ==
    /\ phase = "auth" /\ Len(typed) < MaxAttempts
    /\ LET n == Len(typed) + 1
       IN  \/ /\ pw = Empty \/ old
              /\ toHost' = toHost \cup {Auth(n, pw)}
              /\ pake_client' = 0 /\ waiting' = TRUE
           \/ /\ pw # Empty /\ ~old /\ peer_pake
              /\ toHost' = toHost \cup {AuthPake(n)}
              /\ pake_client' = n /\ waiting' = TRUE
           \/ /\ pw # Empty /\ ~old /\ ~peer_pake       \* PeerOutdated
              /\ UNCHANGED <<toHost, pake_client, waiting>>
    /\ typed' = Append(typed, pw)
    /\ disturbed' = (disturbed \/ waiting)
    /\ UNCHANGED <<env, toClient, losses, phase, gate>>

\* Mutant: the client does not look at the channel in the host's MAC.
ClientConfirmAnyChannel(p, m) == IF p = m.n THEN Credential(typed[p]) ELSE "None"

\* Mutant: the one-time slot of the reply is skipped.
ClientConfirmFixedOnly(p, m) ==
    IF p = m.n /\ m.ch = binding.client /\ Matches(typed[p], "Fixed") THEN "Fixed" ELSE "None"

\* client_confirm: the first slot whose host MAC verifies with the state p.
client_confirm(p, m) ==
    IF p = m.n /\ m.ch = binding.client THEN Credential(typed[p]) ELSE "None"

\* client_on_reply: a reply without a pending attempt is ignored.
client_on_reply(m) ==
    /\ phase = "auth" /\ m \in toClient /\ m.type = "AuthPakeReply"
    /\ toClient' = toClient \ {m}
    /\ toHost' = IF pake_client = 0 THEN toHost
                 ELSE toHost \cup {Confirm(pake_client, m.n, client_confirm(pake_client, m))}
    /\ pake_client' = 0
    /\ UNCHANGED <<env, losses, typed, waiting, phase, gate, disturbed>>

\* recv_host_auth and authenticate: a verdict, or something else to skip.
recv_host_auth(m) ==
    /\ phase = "auth" /\ m \in toClient /\ m.type # "AuthPakeReply"
    /\ toClient' = toClient \ {m}
    /\ waiting' = (waiting /\ m.type \notin {"Ok", "Denied", "NeedPassword"})
    /\ phase' = CASE m.type = "Ok" -> "session" [] m.type = "Denied" -> "over" [] OTHER -> phase
    /\ UNCHANGED <<env, toHost, losses, typed, pake_client, gate, disturbed>>

\* The client's keepalive, or a message the host cannot decode.
ClientSends(type) ==
    /\ phase = "auth"
    /\ toHost' = toHost \cup {Plain(type)}
    /\ UNCHANGED <<env, toClient, losses, client, gate, disturbed>>

-----------------------------------------------------------------------------
(***************************************************************************)
(* The host during the handshake                                           *)
(***************************************************************************)

Admit(by, n) ==
    /\ granted' = [by |-> by, n |-> n]
    /\ hpc' = "serving"
    /\ toClient' = toClient \cup {Plain("Ok")}
    /\ UNCHANGED <<run, budget, refused>>

Refuse(n) ==
    /\ refused' = refused \cup {n}
    /\ hpc' = "race"
    /\ toClient' = toClient \cup {NeedPassword(n)}
    /\ UNCHANGED <<run, budget, granted>>

\* An attempt in the clear is judged at once; an empty one asks for a password.
OnAuth(n) ==
    /\ hpc \in {"first", "race"}
    /\ \E m \in toHost :
          /\ m.type = "Auth" /\ m.n = n
          /\ toHost' = toHost \ {m}
          /\ IF m.pw # Empty /\ Credential(m.pw) # "None"
             THEN Admit(Credential(m.pw), n) ELSE Refuse(n)
    /\ UNCHANGED <<env, losses, client, disturbed>>

\* host_verify: reply, and wait for the confirmation.
OnAuthPake(n) ==
    /\ hpc \in {"first", "race"} /\ AuthPake(n) \in toHost
    /\ toHost' = toHost \ {AuthPake(n)}
    /\ toClient' = toClient \cup {AuthPakeReply(n)}
    /\ hpc' = "verify" /\ run' = n /\ budget' = MAX_WAIT_MSGS
    /\ UNCHANGED <<env, losses, client, granted, refused, disturbed>>

\* recv_auth gives up on anything but an attempt; recv_client_auth skips what
\* it can decode and takes the rest for the end of the client.
OnOther(m) ==
    /\ hpc \in {"first", "race"} /\ m \in toHost /\ m.type \notin {"Auth", "AuthPake"}
    /\ toHost' = toHost \ {m}
    /\ hpc' = IF hpc = "race" /\ m.type # "Unknown" THEN hpc ELSE "over"
    /\ toClient' = IF hpc = "race" /\ m.type = "Unknown" THEN toClient \cup {Plain("Denied")} ELSE toClient
    /\ UNCHANGED <<env, losses, client, run, budget, granted, refused, disturbed>>

\* The user's Allow or Deny.
UserDecides ==
    /\ hpc = "race"
    /\ \/ Admit("User", 0)
       \/ /\ hpc' = "over" /\ toClient' = toClient \cup {Plain("Denied")}
          /\ UNCHANGED <<run, budget, granted, refused>>
    /\ UNCHANGED <<env, toHost, losses, client, disturbed>>

\* Mutant: the slot the client names is believed.
HostCheckBelieves(c) == c.slot

\* host_check: the slot exists and the client's MAC verifies under its key.
host_check(c) ==
    IF c.a = run /\ c.n = run /\ c.ch = binding.host /\ Matches(typed[c.a], c.slot)
    THEN c.slot ELSE "None"

\* The wait of host_verify: a confirmation ends it, so does a message that
\* cannot be decoded or the last one of the budget; others are skipped, a
\* further attempt among them.
VerifyRecv(m) ==
    /\ hpc = "verify" /\ m \in toHost
    /\ toHost' = toHost \ {m}
    /\ IF m.type = "AuthPakeConfirm"
       THEN /\ IF host_check(m) # "None" THEN Admit(host_check(m), run) ELSE Refuse(run)
            /\ UNCHANGED disturbed
       ELSE IF m.type = "Unknown" \/ budget = 1
       THEN Refuse(run) /\ disturbed' = TRUE
       ELSE budget' = budget - 1 /\ UNCHANGED <<hpc, run, granted, refused, toClient, disturbed>>
    /\ UNCHANGED <<env, losses, client>>

\* Mutant: the wait has no deadline.
VerifyTimeoutNever ==
    /\ hpc = "verify" /\ budget = 0
    /\ Refuse(run) /\ disturbed' = TRUE
    /\ UNCHANGED <<env, toHost, losses, client>>

VerifyTimeout ==
    /\ hpc = "verify"
    /\ Refuse(run) /\ disturbed' = TRUE
    /\ UNCHANGED <<env, toHost, losses, client>>

-----------------------------------------------------------------------------
\* The network loses a message.
Lose ==
    /\ losses < MaxLosses
    /\ \E m \in toHost \cup toClient :
          /\ toHost' = toHost \ {m}
          /\ toClient' = toClient \ {m}
    /\ losses' = losses + 1
    /\ UNCHANGED <<env, client, gate, disturbed>>

-----------------------------------------------------------------------------
AccessInit ==
    /\ creds \in Creds
    /\ peer_pake \in BOOLEAN /\ old \in BOOLEAN
    /\ binding \in [host : {1}, client : {1, 2}]
    /\ toHost = {} /\ toClient = {} /\ losses = 0
    /\ typed = <<>> /\ pake_client = 0 /\ waiting = FALSE /\ phase = "auth"
    /\ hpc = "first" /\ run = 0 /\ budget = MAX_WAIT_MSGS
    /\ granted = [by |-> "None", n |-> 0] /\ refused = {} /\ disturbed = FALSE

AccessNext ==
    \/ \E pw \in Passwords \cup {Empty} : send_attempt(pw)
    \/ \E m \in toClient : client_on_reply(m) \/ recv_host_auth(m)
    \/ \E n \in 1..MaxAttempts : OnAuth(n) \/ OnAuthPake(n)
    \/ \E m \in toHost : OnOther(m) \/ VerifyRecv(m)
    \/ UserDecides \/ VerifyTimeout
    \/ \E type \in {"Ping", "Unknown"} : ClientSends(type)
    \/ Lose

\* Each end reads the messages it is waiting for, and the host's deadline
\* passes.  Users and the network owe nothing.
AccessFairness ==
    /\ \A n \in 1..MaxAttempts :
          /\ WF_accessvars(OnAuth(n)) /\ WF_accessvars(OnAuthPake(n))
          /\ WF_accessvars(client_on_reply(AuthPakeReply(n)))
    /\ WF_accessvars(\E m \in toClient :
                  m.type \in {"Ok", "Denied", "NeedPassword"} /\ recv_host_auth(m))
    /\ WF_accessvars(\E m \in toHost : VerifyRecv(m))
    /\ WF_accessvars(VerifyTimeout)

AccessSpec == AccessInit /\ [][AccessNext]_accessvars /\ AccessFairness

-----------------------------------------------------------------------------
(***************************************************************************)
(* Properties                                                              *)
(***************************************************************************)

\* The wait for a confirmation always has a message left to read, and every
\* other variable has its type.
AccessTypeOK ==
    /\ creds \in Creds /\ peer_pake \in BOOLEAN /\ old \in BOOLEAN
    /\ binding \in [host : {1}, client : {1, 2}]
    /\ waiting \in BOOLEAN /\ disturbed \in BOOLEAN
    /\ typed \in Seq(Passwords \cup {Empty}) /\ Len(typed) <= MaxAttempts
    /\ pake_client \in 0..Len(typed) /\ run \in 0..Len(typed)
    /\ phase \in {"auth", "session", "over"}
    /\ hpc \in {"first", "race", "verify", "serving", "over"}
    /\ budget \in 1..MAX_WAIT_MSGS
    /\ granted.by \in {"None", "OneTime", "Fixed", "User"} /\ granted.n \in 0..Len(typed)
    /\ refused \subseteq 1..Len(typed)
    /\ losses \in 0..MaxLosses

\* A client admitted by a credential typed that very credential in the attempt
\* that admitted it, whatever replies and confirmations of other attempts were
\* read in between (host_verify, host_check).
AcceptedIsProven ==
    granted.by \in {"OneTime", "Fixed"} => Matches(typed[granted.n], granted.by)

\* When the two ends do not share a channel, a client of this build reveals no
\* MAC for any slot and no password admits it (client_confirm, host_check).
NoProofAcrossChannels ==
    (binding.client # binding.host /\ ~old) =>
        /\ \A m \in toHost : m.type = "AuthPakeConfirm" => m.slot = "None"
        /\ granted.by \notin {"OneTime", "Fixed"}

\* The right password over a shared channel is refused only when a message was
\* lost, the host stopped waiting for a confirmation, or the client sent an
\* attempt before the last one was answered.
VerdictRight ==
    \A n \in refused :
        (typed[n] # Empty /\ Credential(typed[n]) # "None" /\ (old \/ binding.client = binding.host))
            => losses > 0 \/ disturbed

\* An attempt gets an answer, unless messages are lost or the host is gone:
\* neither side waits for the other for ever.
AttemptAnswered == waiting ~> (~waiting \/ losses > 0 \/ hpc = "over")
=============================================================================

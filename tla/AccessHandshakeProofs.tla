------------------------ MODULE AccessHandshakeProofs -----------------------
(***************************************************************************)
(* Proofs about the access handshake, for any passwords, any number of     *)
(* attempts and of losses.  Beside the types, the invariant says what the  *)
(* messages in flight still say about the attempt and the channel they     *)
(* were made for; AcceptedIsProven and NoProofAcrossChannels need it.      *)
(* VerdictRight needs the order of a handshake that nothing disturbs.      *)
(***************************************************************************)
EXTENDS AccessHandshake, TLAPS

\* A password in the clear is the one typed, and a client of this build sends
\* none; an offer belongs to an attempt; a reply names the host's channel.
AuthInv ==
    \A m \in toHost : m.type = "Auth" =>
        m.n \in 1..Len(typed) /\ m.pw = typed[m.n] /\ (~old => m.pw = Empty)
OfferInv == \A m \in toHost : m.type = "AuthPake" => m.n \in 1..Len(typed)
ReplyInv == \A m \in toClient : m.type = "AuthPakeReply" => m.ch = binding.host
RunInv   == hpc = "verify" => run # 0
GrantInv == granted.by \in {"OneTime", "Fixed"} => granted.n # 0
MsgInv   == AuthInv /\ OfferInv /\ ReplyInv /\ RunInv /\ GrantInv
IInv == AccessTypeOK /\ MsgInv /\ AcceptedIsProven /\ NoProofAcrossChannels

\* A slot that matches is one of the two, and Credential finds one that does.
LEMMA CredentialFits ==
    ASSUME NEW pw
    PROVE  /\ \A slot : Matches(pw, slot) => slot \in {"OneTime", "Fixed"}
           /\ Credential(pw) \in {"OneTime", "Fixed", "None"}
           /\ Credential(pw) # "None" => Matches(pw, Credential(pw))
BY DEF Matches, Credential

\* The credentials do not change, so neither does what matches them.
LEMMA MatchesStable ==
    ASSUME NEW pw, NEW slot, UNCHANGED creds PROVE Matches(pw, slot)' <=> Matches(pw, slot)
BY DEF Matches, norm_otp

\* The invariant holds before the first attempt.
LEMMA InitInv == AccessInit => IInv
<1> SUFFICES ASSUME AccessInit PROVE IInv
  OBVIOUS
<1> USE ServiceAssumption DEF AccessInit
<1>1. AccessTypeOK
  <2>1. waiting \in BOOLEAN /\ disturbed \in BOOLEAN /\ old \in BOOLEAN /\ peer_pake \in BOOLEAN
    BY Zenon
  <2>2. typed \in Seq(Passwords \cup {Empty}) /\ Len(typed) = 0
    OBVIOUS
  <2>3. budget \in 1..MAX_WAIT_MSGS
    OBVIOUS
  <2>4. /\ granted.by = "None" /\ granted.n = 0 /\ refused \subseteq 1..Len(typed)
        /\ pake_client = 0 /\ run = 0 /\ losses \in 0..MaxLosses
    OBVIOUS
  <2> QED BY <2>1, <2>2, <2>3, <2>4 DEF AccessTypeOK
<1>2. MsgInv
  BY DEF MsgInv, AuthInv, OfferInv, ReplyInv, RunInv, GrantInv
<1>3. AcceptedIsProven /\ NoProofAcrossChannels
  BY DEF AcceptedIsProven, NoProofAcrossChannels
<1> QED BY <1>1, <1>2, <1>3 DEF IInv

\* A new attempt is appended: what is said of the earlier ones stays true.
LEMMA AttemptInv ==
    ASSUME IInv, NEW pw \in Passwords \cup {Empty}, send_attempt(pw) PROVE IInv'
<1> USE ServiceAssumption DEF IInv, env, gate
<1>1. /\ typed' = Append(typed, pw) /\ typed \in Seq(Passwords \cup {Empty})
      /\ Len(typed') = Len(typed) + 1 /\ typed'[Len(typed) + 1] = pw
      /\ typed' \in Seq(Passwords \cup {Empty}) /\ Len(typed) \in Nat
      /\ \A i \in 1..Len(typed) : typed'[i] = typed[i]
  BY DEF send_attempt, AccessTypeOK
<1>2. UNCHANGED <<creds, peer_pake, old, binding, toClient, losses, phase, hpc, run, budget, granted, refused>>
  BY DEF send_attempt
<1>3. \/ (pw = Empty \/ old) /\ toHost' = toHost \cup {Auth(Len(typed) + 1, pw)} /\ pake_client' = 0 /\ waiting' = TRUE
      \/ pw # Empty /\ toHost' = toHost \cup {AuthPake(Len(typed) + 1)} /\ pake_client' = Len(typed) + 1 /\ waiting' = TRUE
      \/ UNCHANGED <<toHost, pake_client, waiting>>
  BY DEF send_attempt
<1>4. disturbed' \in BOOLEAN
  BY DEF send_attempt, AccessTypeOK
<1>5. AccessTypeOK'
  <2>1. Len(typed) < MaxAttempts
    BY DEF send_attempt
  <2>2. waiting' \in BOOLEAN
    BY <1>3, Zenon DEF AccessTypeOK
  <2>3. pake_client' \in 0..Len(typed')
    BY <1>1, <1>3 DEF AccessTypeOK
  <2>4. /\ Len(typed') <= MaxAttempts /\ run' \in 0..Len(typed') /\ granted'.n \in 0..Len(typed')
        /\ refused' \subseteq 1..Len(typed')
    BY <1>1, <1>2, <2>1 DEF AccessTypeOK
  <2> QED BY <1>1, <1>2, <1>4, <2>2, <2>3, <2>4 DEF AccessTypeOK
<1>6. MsgInv'
  BY <1>1, <1>2, <1>3 DEF MsgInv, AuthInv, OfferInv, ReplyInv, RunInv, GrantInv, Auth, AuthPake
<1>7. AcceptedIsProven'
  <2> SUFFICES ASSUME granted.by \in {"OneTime", "Fixed"} PROVE Matches(typed[granted.n], granted.by)'
    BY <1>2 DEF AcceptedIsProven
  <2>1. Matches(typed[granted.n], granted.by)
    BY DEF AcceptedIsProven
  <2>2. granted.n \in 1..Len(typed)
    BY DEF MsgInv, GrantInv, AccessTypeOK
  <2>3. typed'[granted'.n] = typed[granted.n] /\ granted' = granted /\ creds' = creds
    BY <1>1, <1>2, <2>2
  <2> QED BY <2>1, <2>3 DEF Matches, norm_otp
<1>8. NoProofAcrossChannels'
  BY <1>2, <1>3 DEF NoProofAcrossChannels, Auth, AuthPake
<1> QED BY <1>5, <1>6, <1>7, <1>8

\* The client's other steps: it confirms with a slot only on the host's channel.
LEMMA ClientInv ==
    ASSUME IInv, NEW m \in toClient, client_on_reply(m) \/ recv_host_auth(m) PROVE IInv'
<1> USE DEF IInv, env, gate
<1>1. UNCHANGED <<creds, peer_pake, old, binding, losses, typed, hpc, run, budget, granted, refused, disturbed>>
      /\ toClient' \subseteq toClient
  BY DEF client_on_reply, recv_host_auth
<1>2. \/ toHost' = toHost
      \/ m.type = "AuthPakeReply" /\ toHost' = toHost \cup {Confirm(pake_client, m.n, client_confirm(pake_client, m))}
  BY DEF client_on_reply, recv_host_auth
<1>3. AccessTypeOK'
  <2>1. CASE client_on_reply(m)
    BY <1>1, <2>1 DEF AccessTypeOK, client_on_reply
  <2>2. CASE recv_host_auth(m)
    <3>1. waiting' \in BOOLEAN /\ phase' \in {"auth", "session", "over"} /\ pake_client' = pake_client
      BY <2>2 DEF recv_host_auth, AccessTypeOK
    <3> QED BY <1>1, <3>1 DEF AccessTypeOK
  <2> QED BY <2>1, <2>2
<1>4. MsgInv'
  BY <1>1, <1>2 DEF MsgInv, AuthInv, OfferInv, ReplyInv, RunInv, GrantInv, Confirm
<1>5. AcceptedIsProven'
  BY <1>1 DEF AcceptedIsProven, Matches, norm_otp
<1>6. NoProofAcrossChannels'
  <2>1. binding.client # binding.host /\ m.type = "AuthPakeReply" => client_confirm(pake_client, m) = "None"
    BY DEF client_confirm, MsgInv, ReplyInv
  <2> QED BY <1>1, <1>2, <2>1 DEF NoProofAcrossChannels, Confirm
<1> QED BY <1>3, <1>4, <1>5, <1>6

\* A step of the host that reads messages, sends some that are no replies, and
\* admits nobody.
LEMMA QuietHostInv ==
    ASSUME IInv,
           UNCHANGED <<creds, peer_pake, old, binding, typed, pake_client, waiting, phase, granted>>,
           toHost' \subseteq toHost,
           \A m \in toClient' : m \in toClient \/ m.type # "AuthPakeReply",
           hpc' \in {"first", "race", "verify", "serving", "over"},
           run' = run, hpc' = "verify" => hpc = "verify",
           budget' \in 1..MAX_WAIT_MSGS, refused' \subseteq 1..Len(typed),
           disturbed' \in BOOLEAN, losses' \in 0..MaxLosses
    PROVE  IInv'
<1>1. AccessTypeOK'
  BY DEF IInv, AccessTypeOK
<1>2. MsgInv'
  BY DEF IInv, MsgInv, AuthInv, OfferInv, ReplyInv, RunInv, GrantInv
<1>3. AcceptedIsProven'
  BY DEF IInv, AcceptedIsProven, Matches, norm_otp
<1>4. NoProofAcrossChannels'
  BY DEF IInv, NoProofAcrossChannels
<1> QED BY <1>1, <1>2, <1>3, <1>4 DEF IInv

\* A refusal of an attempt is such a step.
LEMMA RefuseInv ==
    ASSUME IInv, NEW n \in 1..Len(typed), Refuse(n), UNCHANGED <<env, losses, client>>,
           toHost' \subseteq toHost, disturbed' \in BOOLEAN
    PROVE  IInv'
<1>1. UNCHANGED <<creds, peer_pake, old, binding, typed, pake_client, waiting, phase, granted, run, budget, losses>>
  BY DEF Refuse, env, client
<1>2. hpc' = "race" /\ refused' \subseteq 1..Len(typed)
      /\ \A m \in toClient' : m \in toClient \/ m.type # "AuthPakeReply"
  BY DEF Refuse, NeedPassword, IInv, AccessTypeOK
<1>3. budget \in 1..MAX_WAIT_MSGS /\ losses \in 0..MaxLosses
  BY DEF IInv, AccessTypeOK
<1> QED BY <1>1, <1>2, <1>3, QuietHostInv

\* Admission is sound when the credential matches the attempt and the channel
\* is shared, or the user allowed it.
LEMMA AdmitInv ==
    ASSUME IInv, NEW by, NEW n \in 0..Len(typed), Admit(by, n), UNCHANGED <<env, losses, client, disturbed>>,
           toHost' \subseteq toHost,
           \/ by = "User"
           \/ /\ n # 0 /\ by \in {"OneTime", "Fixed"} /\ Matches(typed[n], by)
              /\ old \/ binding.client = binding.host
    PROVE  IInv'
<1>1. UNCHANGED <<creds, peer_pake, old, binding, typed, pake_client, waiting, phase, run, budget, refused, losses, disturbed>>
  BY DEF Admit, env, client
<1>2. /\ hpc' = "serving" /\ granted' = [by |-> by, n |-> n]
      /\ \A m \in toClient' : m \in toClient \/ m.type # "AuthPakeReply"
  BY DEF Admit, Plain
<1>3. granted'.by = by /\ granted'.n = n
  BY <1>2
<1>4. AccessTypeOK'
  BY <1>1, <1>2, <1>3 DEF IInv, AccessTypeOK
<1>5. MsgInv'
  BY <1>1, <1>2, <1>3 DEF IInv, MsgInv, AuthInv, OfferInv, ReplyInv, RunInv, GrantInv
<1>6. AcceptedIsProven'
  BY <1>1, <1>3 DEF AcceptedIsProven, Matches, norm_otp
<1>7. NoProofAcrossChannels'
  BY <1>1, <1>3 DEF IInv, NoProofAcrossChannels
<1> QED BY <1>4, <1>5, <1>6, <1>7 DEF IInv

\* An attempt in the clear.
LEMMA OnAuthInv == ASSUME IInv, NEW n \in 1..MaxAttempts, OnAuth(n) PROVE IInv'
<1>1. PICK m \in toHost :
          /\ m.type = "Auth" /\ m.n = n /\ toHost' = toHost \ {m}
          /\ IF m.pw # Empty /\ Credential(m.pw) # "None" THEN Admit(Credential(m.pw), n) ELSE Refuse(n)
  BY DEF OnAuth
<1>2. UNCHANGED <<env, losses, client, disturbed>>
  BY DEF OnAuth
<1>3. n \in 1..Len(typed) /\ m.pw = typed[n] /\ (~old => m.pw = Empty)
  BY <1>1 DEF IInv, MsgInv, AuthInv
<1>4. Len(typed) \in Nat /\ disturbed \in BOOLEAN
  BY DEF IInv, AccessTypeOK
<1>5. CASE m.pw # Empty /\ Credential(m.pw) # "None"
  <2>1. Credential(m.pw) \in {"OneTime", "Fixed"} /\ Matches(typed[n], Credential(m.pw)) /\ old
    BY <1>3, <1>5, CredentialFits
  <2>2. n \in 0..Len(typed) /\ n # 0
    BY <1>3, <1>4
  <2> QED BY <1>1, <1>2, <1>5, <2>1, <2>2, AdmitInv
<1>6. CASE ~(m.pw # Empty /\ Credential(m.pw) # "None")
  <2>1. Refuse(n) /\ toHost' \subseteq toHost /\ disturbed' \in BOOLEAN
    BY <1>1, <1>2, <1>4, <1>6
  <2> QED BY <1>2, <1>3, <2>1, RefuseInv
<1> QED BY <1>5, <1>6

\* An offer: the run is the attempt it belongs to, the reply names the channel.
LEMMA OnAuthPakeInv == ASSUME IInv, NEW n \in 1..MaxAttempts, OnAuthPake(n) PROVE IInv'
<1>1. UNCHANGED <<creds, peer_pake, old, binding, typed, pake_client, waiting, phase, granted, refused, losses, disturbed>>
  BY DEF OnAuthPake, env, client
<1>2. toHost' \subseteq toHost /\ toClient' = toClient \cup {AuthPakeReply(n)}
      /\ hpc' = "verify" /\ run' = n /\ budget' = MAX_WAIT_MSGS
  BY DEF OnAuthPake
<1>3. n \in 1..Len(typed)
  BY DEF OnAuthPake, AuthPake, IInv, MsgInv, OfferInv
<1>4. AccessTypeOK'
  BY <1>1, <1>2, <1>3, ServiceAssumption DEF IInv, AccessTypeOK
<1>5. MsgInv'
  BY <1>1, <1>2, <1>3 DEF IInv, MsgInv, AuthInv, OfferInv, ReplyInv, RunInv, GrantInv, AuthPakeReply
<1>6. AcceptedIsProven'
  BY <1>1 DEF IInv, AcceptedIsProven, Matches, norm_otp
<1>7. NoProofAcrossChannels'
  BY <1>1, <1>2 DEF IInv, NoProofAcrossChannels
<1> QED BY <1>4, <1>5, <1>6, <1>7 DEF IInv

\* A message read while the host waits for a confirmation.
LEMMA VerifyRecvInv == ASSUME IInv, NEW m \in toHost, VerifyRecv(m) PROVE IInv'
<1>1. UNCHANGED <<env, losses, client>> /\ toHost' \subseteq toHost /\ hpc = "verify"
  BY DEF VerifyRecv
<1>2. /\ run \in 1..Len(typed) /\ run \in 0..Len(typed) /\ run # 0
      /\ budget \in 1..MAX_WAIT_MSGS /\ disturbed \in BOOLEAN
      /\ refused \subseteq 1..Len(typed) /\ losses \in 0..MaxLosses
  BY <1>1 DEF IInv, MsgInv, RunInv, AccessTypeOK
<1>3. CASE m.type = "AuthPakeConfirm" /\ host_check(m) # "None"
  <2>1. Admit(host_check(m), run) /\ UNCHANGED disturbed
    BY <1>3 DEF VerifyRecv
  <2>2. host_check(m) = m.slot /\ Matches(typed[run], m.slot) /\ m.slot # "None"
    BY <1>3 DEF host_check
  <2>3. m.slot \in {"OneTime", "Fixed"}
    BY <2>2, CredentialFits
  <2>4. old \/ binding.client = binding.host
    BY <1>3, <2>2, <2>3 DEF IInv, NoProofAcrossChannels
  <2> QED BY <1>1, <1>2, <2>1, <2>2, <2>3, <2>4, AdmitInv
<1>4. CASE m.type = "AuthPakeConfirm" /\ host_check(m) = "None"
  <2>1. Refuse(run) /\ disturbed' \in BOOLEAN
    BY <1>2, <1>4 DEF VerifyRecv
  <2> QED BY <1>1, <1>2, <2>1, RefuseInv
<1>5. CASE m.type # "AuthPakeConfirm" /\ (m.type = "Unknown" \/ budget = 1)
  <2>1. Refuse(run) /\ disturbed' \in BOOLEAN
    BY <1>5 DEF VerifyRecv
  <2> QED BY <1>1, <1>2, <2>1, RefuseInv
<1>6. CASE m.type # "AuthPakeConfirm" /\ m.type # "Unknown" /\ budget # 1
  <2>1. budget' = budget - 1 /\ UNCHANGED <<hpc, run, granted, refused, toClient, disturbed>>
    BY <1>6 DEF VerifyRecv
  <2>2. budget' \in 1..MAX_WAIT_MSGS
    BY <1>2, <1>6, <2>1, ServiceAssumption
  <2>3. UNCHANGED <<creds, peer_pake, old, binding, typed, pake_client, waiting, phase, losses>>
    BY <1>1 DEF env, client
  <2> QED BY <1>1, <1>2, <2>1, <2>2, <2>3, QuietHostInv
<1> QED BY <1>3, <1>4, <1>5, <1>6

\* Every step keeps the invariant.
LEMMA NextInv == IInv /\ [AccessNext]_accessvars => IInv'
<1> SUFFICES ASSUME IInv, [AccessNext]_accessvars PROVE IInv'
  OBVIOUS
<1>0. /\ budget \in 1..MAX_WAIT_MSGS /\ disturbed \in BOOLEAN /\ Len(typed) \in Nat
      /\ refused \subseteq 1..Len(typed) /\ losses \in 0..MaxLosses
      /\ hpc \in {"first", "race", "verify", "serving", "over"}
  BY DEF IInv, AccessTypeOK
<1>1. ASSUME NEW m \in toHost, OnOther(m) PROVE IInv'
  <2>1. UNCHANGED <<creds, peer_pake, old, binding, typed, pake_client, waiting, phase, granted, run, budget, refused, losses, disturbed>>
    BY <1>1 DEF OnOther, env, client
  <2>2. /\ toHost' \subseteq toHost /\ hpc' \in {"race", "over"}
        /\ \A c \in toClient' : c \in toClient \/ c.type # "AuthPakeReply"
    BY <1>1 DEF OnOther, Plain
  <2> QED BY <1>0, <2>1, <2>2, QuietHostInv
<1>2. CASE UserDecides
  <2>1. UNCHANGED <<env, toHost, losses, client, disturbed>>
    BY <1>2 DEF UserDecides
  <2>2. CASE Admit("User", 0)
    BY <1>0, <2>1, <2>2, AdmitInv
  <2>3. CASE /\ hpc' = "over" /\ toClient' = toClient \cup {Plain("Denied")}
             /\ UNCHANGED <<run, budget, granted, refused>>
    <3>1. UNCHANGED <<creds, peer_pake, old, binding, typed, pake_client, waiting, phase>>
      BY <2>1 DEF env, client
    <3>2. \A c \in toClient' : c \in toClient \/ c.type # "AuthPakeReply"
      BY <2>3 DEF Plain
    <3> QED BY <1>0, <2>1, <2>3, <3>1, <3>2, QuietHostInv
  <2> QED BY <1>2, <2>2, <2>3 DEF UserDecides
<1>3. CASE VerifyTimeout
  <2>1. Refuse(run) /\ disturbed' \in BOOLEAN /\ UNCHANGED <<env, losses, client>> /\ toHost' \subseteq toHost
    BY <1>3 DEF VerifyTimeout
  <2>2. run \in 1..Len(typed)
    BY <1>3 DEF VerifyTimeout, IInv, MsgInv, RunInv, AccessTypeOK
  <2> QED BY <2>1, <2>2, RefuseInv
<1>4. ASSUME NEW type \in {"Ping", "Unknown"}, ClientSends(type) PROVE IInv'
  <2>1. UNCHANGED <<creds, peer_pake, old, binding, typed, pake_client, waiting, phase, toClient, hpc, granted, run, budget, refused, losses, disturbed>>
    BY <1>4 DEF ClientSends, env, client, gate
  <2>2. toHost' = toHost \cup {Plain(type)}
    BY <1>4 DEF ClientSends
  <2>3. AccessTypeOK'
    BY <2>1 DEF IInv, AccessTypeOK
  <2>4. MsgInv'
    BY <2>1, <2>2 DEF IInv, MsgInv, AuthInv, OfferInv, ReplyInv, RunInv, GrantInv, Plain
  <2>5. AcceptedIsProven' /\ NoProofAcrossChannels'
    BY <2>1, <2>2 DEF IInv, AcceptedIsProven, NoProofAcrossChannels, Matches, norm_otp, Plain
  <2> QED BY <2>3, <2>4, <2>5 DEF IInv
<1>5. CASE Lose
  <2>1. UNCHANGED <<creds, peer_pake, old, binding, typed, pake_client, waiting, phase, hpc, granted, run, budget, refused, disturbed>>
    BY <1>5 DEF Lose, env, client, gate
  <2>2. toHost' \subseteq toHost /\ toClient' \subseteq toClient /\ losses' \in 0..MaxLosses
    BY <1>0, <1>5, ServiceAssumption DEF Lose
  <2> QED BY <1>0, <2>1, <2>2, QuietHostInv
<1>6. CASE UNCHANGED accessvars
  <2>1. UNCHANGED <<creds, peer_pake, old, binding, toHost, toClient, losses, typed, pake_client, waiting, phase, hpc, run, budget, granted, refused, disturbed>>
    BY <1>6 DEF accessvars, env, client, gate
  <2> QED BY <1>0, <2>1, QuietHostInv
<1> QED
  BY <1>1, <1>2, <1>3, <1>4, <1>5, <1>6, AttemptInv, ClientInv, OnAuthInv, OnAuthPakeInv, VerifyRecvInv DEF AccessNext

\* The variables keep their types, the wait for a confirmation its budget.
THEOREM AccessTypeCorrect == AccessSpec => []AccessTypeOK
<1>1. IInv => AccessTypeOK
  BY DEF IInv
<1> QED BY <1>1, InitInv, NextInv, PTL DEF AccessSpec

\* Only a password that matches the host's credential admits by that
\* credential, whichever messages were lost, late or of another attempt.
THEOREM OnlyProvenAccepted == AccessSpec => []AcceptedIsProven
<1>1. IInv => AcceptedIsProven
  BY DEF IInv
<1> QED BY <1>1, InitInv, NextInv, PTL DEF AccessSpec

\* With somebody between the two ends, a client of this build neither proves
\* its password nor is admitted by it.
THEOREM NothingProvenAcrossChannels == AccessSpec => []NoProofAcrossChannels
<1>1. IInv => NoProofAcrossChannels
  BY DEF IInv
<1> QED BY <1>1, InitInv, NextInv, PTL DEF AccessSpec

-----------------------------------------------------------------------------
(***************************************************************************)
(* The right password is accepted.  That a refusal is right needs to know  *)
(* which messages are under way: as long as nothing is lost and everybody  *)
(* waits, exactly one of the attempt's messages is anywhere, and the next  *)
(* one takes its place.                                                    *)
(***************************************************************************)

\* Nothing was lost and everybody waited.
Calm == losses = 0 /\ ~disturbed
\* The host still judges attempts.
Live == hpc \in {"first", "race", "verify"}

\* What carries the attempt under way: a message of it, at either end.
Tokens == {m \in toHost : m.type \in {"Auth", "AuthPake", "AuthPakeConfirm"}} \cup toClient

\* What the client claims for a password.
Claim(pw) == IF binding.client = binding.host THEN Credential(pw) ELSE "None"

\* The forms such a message has: while the host verifies, its reply or the
\* confirmation; otherwise the attempt, or the verdict on it.
ReplyOf(m) == m \in toClient /\ m.type = "AuthPakeReply" /\ m.n = run /\ pake_client = run
ConfirmOf(m) ==
    /\ m \in toHost /\ m.type = "AuthPakeConfirm" /\ m.a = run /\ m.n = run
    /\ m.ch = binding.client /\ m.slot = Claim(typed[run])
OfferOf(m) == m \in toHost /\ m.type = "AuthPake" /\ m.n = pake_client /\ ~old
ClearOf(m) == m \in toHost /\ m.type = "Auth"
AskOf(m)   == m \in toClient /\ m.type = "NeedPassword"

\* In a calm handshake there is one message of one attempt at a time, the client
\* awaits it, and it says what the honest run says.
OneToken  == \A a, b \in Tokens : a = b
Awaited   == Tokens # {} \/ hpc = "verify" => waiting
InVerify  == hpc = "verify" => ~old /\ \A m \in Tokens : ReplyOf(m) \/ ConfirmOf(m)
InRace    == hpc # "verify" => \A m \in Tokens : ClearOf(m) \/ OfferOf(m) \/ AskOf(m)
CalmInv   == Calm /\ Live => OneToken /\ Awaited /\ InVerify /\ InRace

\* Which way each message goes.
Sides ==
    /\ \A m \in toHost : m.type \in {"Auth", "AuthPake", "AuthPakeConfirm", "Ping", "Unknown"}
    /\ \A m \in toClient : m.type \in {"AuthPakeReply", "NeedPassword", "Ok", "Denied"}

\* The attempts that VerdictRight is about.
Good(n) ==
    /\ typed[n] # Empty /\ Credential(typed[n]) # "None"
    /\ old \/ binding.client = binding.host

\* The inductive invariant of VerdictRight.
VInv == IInv /\ Sides /\ CalmInv /\ VerdictRight

\* Each side sends its own messages only.
LEMMA SidesNext == Sides /\ [AccessNext]_accessvars => Sides'
<1> SUFFICES ASSUME Sides, [AccessNext]_accessvars PROVE Sides'
  OBVIOUS
<1>1. ASSUME NEW pw, send_attempt(pw) PROVE Sides'
  BY <1>1 DEF Sides, send_attempt, Auth, AuthPake
<1>2. ASSUME NEW m, client_on_reply(m) PROVE Sides'
  BY <1>2 DEF Sides, client_on_reply, Confirm
<1>3. ASSUME NEW m, recv_host_auth(m) PROVE Sides'
  BY <1>3 DEF Sides, recv_host_auth
<1>4. ASSUME NEW n, Refuse(n), toHost' \subseteq toHost PROVE Sides'
  BY <1>4 DEF Sides, Refuse, NeedPassword
<1>5. ASSUME NEW by, NEW n, Admit(by, n), toHost' \subseteq toHost PROVE Sides'
  BY <1>5 DEF Sides, Admit, Plain
<1>6. ASSUME NEW n, OnAuth(n) PROVE Sides'
  BY <1>4, <1>5, <1>6 DEF OnAuth
<1>7. ASSUME NEW n, OnAuthPake(n) PROVE Sides'
  BY <1>7 DEF Sides, OnAuthPake, AuthPakeReply
<1>8. ASSUME NEW m, OnOther(m) PROVE Sides'
  BY <1>8 DEF Sides, OnOther, Plain
<1>9. ASSUME NEW m, VerifyRecv(m) PROVE Sides'
  <2>1. toHost' \subseteq toHost
    BY <1>9 DEF VerifyRecv
  <2>2. \/ Admit(host_check(m), run) \/ Refuse(run) \/ UNCHANGED toClient
    BY <1>9 DEF VerifyRecv
  <2>3. CASE UNCHANGED toClient
    BY <2>1, <2>3 DEF Sides
  <2> QED BY <1>4, <1>5, <2>1, <2>2, <2>3
<1>10. CASE UserDecides
  BY <1>5, <1>10 DEF Sides, UserDecides, Plain
<1>11. CASE VerifyTimeout
  BY <1>4, <1>11 DEF VerifyTimeout
<1>12. ASSUME NEW type \in {"Ping", "Unknown"}, ClientSends(type) PROVE Sides'
  BY <1>12 DEF Sides, ClientSends, Plain
<1>13. CASE Lose
  BY <1>13 DEF Sides, Lose
<1>14. CASE UNCHANGED accessvars
  BY <1>14 DEF Sides, accessvars
<1> QED
  BY <1>1, <1>2, <1>3, <1>6, <1>7, <1>8, <1>9, <1>10, <1>11, <1>12, <1>13, <1>14, Zenon DEF AccessNext

\* A step that refuses no good attempt while calm keeps VerdictRight.
LEMMA VerdictKept ==
    ASSUME VInv, UNCHANGED <<creds, old, binding>>, losses' \in Nat, Calm' => Calm,
           \A n \in refused : typed'[n] = typed[n],
           \A n \in refused' : n \in refused \/ (Calm' => ~Good(n)')
    PROVE  VerdictRight'
<1> SUFFICES ASSUME NEW n \in refused', Good(n)', Calm' PROVE FALSE
  <2>1. Calm' \/ losses' > 0 \/ disturbed'
    BY DEF Calm
  <2> QED BY <2>1 DEF VerdictRight, Good
<1>1. n \in refused
  OBVIOUS
<1>2. typed'[n] = typed[n]
  BY <1>1
<1>3. Good(n)
  BY <1>2 DEF Good, Credential, Matches, norm_otp
<1> QED BY <1>1, <1>3 DEF VInv, VerdictRight, Good, Calm

\* While nothing is under way the client may try again; otherwise it disturbs.
LEMMA AttemptCalm ==
    ASSUME VInv, NEW pw \in Passwords \cup {Empty}, send_attempt(pw)
    PROVE  CalmInv' /\ VerdictRight'
<1>1. UNCHANGED <<creds, peer_pake, old, binding, toClient, losses, phase, hpc, run, budget, granted, refused>>
  BY DEF send_attempt, env, gate
<1>2. disturbed' = (disturbed \/ waiting)
  BY DEF send_attempt
<1>3. /\ losses \in Nat /\ Len(typed) \in Nat /\ refused \subseteq 1..Len(typed)
      /\ typed' = Append(typed, pw) /\ \A i \in 1..Len(typed) : typed'[i] = typed[i]
  BY ServiceAssumption DEF VInv, IInv, AccessTypeOK, send_attempt
<1>4. Calm' => Calm /\ ~waiting
  BY <1>1, <1>2 DEF Calm
<1>5. VerdictRight'
  BY <1>1, <1>3, <1>4, VerdictKept
<1>6. CalmInv'
  <2> SUFFICES ASSUME Calm', Live' PROVE (OneToken /\ Awaited /\ InVerify /\ InRace)'
    BY DEF CalmInv
  <2>1. Calm /\ Live /\ ~waiting
    BY <1>1, <1>4 DEF Live
  <2>2. Tokens = {} /\ hpc # "verify"
    BY <2>1 DEF VInv, CalmInv, Awaited
  <2> DEFINE n == Len(typed) + 1
  <2>3. \/ toHost' = toHost \cup {Auth(n, pw)} /\ waiting' = TRUE
        \/ toHost' = toHost \cup {AuthPake(n)} /\ pake_client' = n /\ waiting' = TRUE /\ ~old
        \/ UNCHANGED <<toHost, pake_client, waiting>>
    BY DEF send_attempt
  <2>4. Auth(n, pw).type = "Auth" /\ AuthPake(n).type = "AuthPake" /\ AuthPake(n).n = n
    BY DEF Auth, AuthPake
  <2> HIDE DEF n
  <2>5. CASE toHost' = toHost \cup {Auth(n, pw)} /\ waiting' = TRUE
    <3>1. Tokens' = {Auth(n, pw)}
      BY <1>1, <2>2, <2>4, <2>5 DEF Tokens
    <3> QED BY <1>1, <2>2, <2>4, <2>5, <3>1 DEF OneToken, Awaited, InVerify, InRace, ClearOf
  <2>6. CASE toHost' = toHost \cup {AuthPake(n)} /\ pake_client' = n /\ waiting' = TRUE /\ ~old
    <3>1. Tokens' = {AuthPake(n)}
      BY <1>1, <2>2, <2>4, <2>6 DEF Tokens
    <3> QED BY <1>1, <2>2, <2>4, <2>6, <3>1 DEF OneToken, Awaited, InVerify, InRace, OfferOf
  <2>7. CASE UNCHANGED <<toHost, pake_client, waiting>>
    <3>1. Tokens' = {}
      BY <1>1, <2>2, <2>7 DEF Tokens
    <3> QED BY <1>1, <2>2, <3>1 DEF OneToken, Awaited, InVerify, InRace
  <2> QED BY <2>3, <2>5, <2>6, <2>7
<1> QED BY <1>5, <1>6

\* The client's answer to the host's reply takes its place.
LEMMA ReplyCalm ==
    ASSUME VInv, NEW m \in toClient, client_on_reply(m)
    PROVE  CalmInv' /\ VerdictRight'
<1>1. UNCHANGED <<creds, peer_pake, old, binding, losses, typed, waiting, phase, hpc, run, budget, granted, refused, disturbed>>
  BY DEF client_on_reply, env, gate
<1>2. losses \in Nat
  BY ServiceAssumption DEF VInv, IInv, AccessTypeOK
<1>3. VerdictRight'
  BY <1>1, <1>2, VerdictKept DEF Calm
<1>4. CalmInv'
  <2> SUFFICES ASSUME Calm', Live' PROVE (OneToken /\ Awaited /\ InVerify /\ InRace)'
    BY DEF CalmInv
  <2>1. OneToken /\ Awaited /\ InVerify /\ InRace
    BY <1>1 DEF VInv, CalmInv, Calm, Live
  <2>2. m \in Tokens /\ m.type = "AuthPakeReply"
    BY DEF Tokens, client_on_reply
  <2>3. hpc = "verify" /\ ReplyOf(m) /\ waiting
    BY <2>1, <2>2 DEF InVerify, InRace, ClearOf, OfferOf, AskOf, ConfirmOf, Awaited
  <2> PICK c : c = Confirm(pake_client, m.n, client_confirm(pake_client, m))
    OBVIOUS
  <2>4. run # 0 /\ m.ch = binding.host
    BY <2>2, <2>3 DEF VInv, IInv, MsgInv, RunInv, ReplyInv
  <2>5. toClient' = toClient \ {m} /\ toHost' = toHost \cup {c}
    BY <2>3, <2>4 DEF client_on_reply, ReplyOf
  <2>6. client_confirm(pake_client, m) = Claim(typed[run])
    BY <2>3, <2>4 DEF ReplyOf, client_confirm, Claim
  <2>7. /\ c.type = "AuthPakeConfirm" /\ c.a = run /\ c.n = run
        /\ c.ch = binding.client /\ c.slot = Claim(typed[run])
    BY <2>3, <2>6 DEF Confirm, ReplyOf
  <2>8. Tokens = {m}
    BY <2>1, <2>2 DEF OneToken
  <2>9. Tokens' = {c}
    BY <2>2, <2>5, <2>7, <2>8 DEF Tokens, VInv, Sides
  <2>10. Claim(typed[run])' = Claim(typed[run])
    BY <1>1 DEF Claim, Credential, Matches, norm_otp
  <2>11. ConfirmOf(c)'
    BY <1>1, <2>5, <2>7, <2>10 DEF ConfirmOf
  <2> QED BY <1>1, <2>1, <2>3, <2>9, <2>11 DEF OneToken, Awaited, InVerify, InRace
<1> QED BY <1>3, <1>4

\* The verdict ends the attempt.
LEMMA VerdictCalm ==
    ASSUME VInv, NEW m \in toClient, recv_host_auth(m)
    PROVE  CalmInv' /\ VerdictRight'
<1>1. UNCHANGED <<creds, peer_pake, old, binding, losses, typed, pake_client, hpc, run, budget, granted, refused, disturbed, toHost>>
      /\ toClient' = toClient \ {m}
  BY DEF recv_host_auth, env, gate
<1>2. losses \in Nat
  BY ServiceAssumption DEF VInv, IInv, AccessTypeOK
<1>3. VerdictRight'
  BY <1>1, <1>2, VerdictKept DEF Calm
<1>4. CalmInv'
  <2> SUFFICES ASSUME Calm', Live' PROVE (OneToken /\ Awaited /\ InVerify /\ InRace)'
    BY DEF CalmInv
  <2>1. OneToken /\ Awaited /\ InVerify /\ InRace
    BY <1>1 DEF VInv, CalmInv, Calm, Live
  <2>2. m \in Tokens /\ m.type # "AuthPakeReply"
    BY DEF Tokens, recv_host_auth
  <2>3. hpc # "verify"
    BY <2>1, <2>2 DEF InVerify, ReplyOf, ConfirmOf, VInv, Sides
  <2>4. Tokens = {m}
    BY <2>1, <2>2 DEF OneToken
  <2>5. Tokens' = {}
    BY <1>1, <2>4 DEF Tokens, VInv, Sides
  <2> QED BY <1>1, <2>3, <2>5 DEF OneToken, Awaited, InVerify, InRace
<1> QED BY <1>3, <1>4

\* A refusal takes the place of the message that it answers.
LEMMA RefuseCalm ==
    ASSUME VInv, NEW m \in toHost, m.type \in {"Auth", "AuthPake", "AuthPakeConfirm"}, Live,
           toHost' = toHost \ {m}, NEW n, Refuse(n), UNCHANGED <<env, losses, client, disturbed>>,
           Calm => ~Good(n)
    PROVE  CalmInv' /\ VerdictRight'
<1>1. /\ UNCHANGED <<creds, peer_pake, old, binding, losses, typed, pake_client, waiting, phase, disturbed>>
      /\ refused' = refused \cup {n} /\ hpc' = "race" /\ toClient' = toClient \cup {NeedPassword(n)}
  BY DEF Refuse, env, client
<1>2. losses \in Nat
  BY ServiceAssumption DEF VInv, IInv, AccessTypeOK
<1>3. Calm' = Calm /\ (Good(n)' <=> Good(n))
  BY <1>1 DEF Calm, Good, Credential, Matches, norm_otp
<1>4. VerdictRight'
  BY <1>1, <1>2, <1>3, VerdictKept
<1>5. CalmInv'
  <2> SUFFICES ASSUME Calm', Live' PROVE (OneToken /\ Awaited /\ InVerify /\ InRace)'
    BY DEF CalmInv
  <2>1. OneToken /\ Awaited
    BY <1>3 DEF VInv, CalmInv
  <2>2. m \in Tokens
    BY DEF Tokens
  <2>3. Tokens = {m} /\ waiting
    BY <2>1, <2>2 DEF OneToken, Awaited
  <2>4. toClient = {}
    BY <2>3 DEF Tokens, VInv, Sides
  <2>5. NeedPassword(n).type = "NeedPassword"
    BY DEF NeedPassword
  <2>6. Tokens' = {NeedPassword(n)}
    BY <1>1, <2>3, <2>4, <2>5 DEF Tokens
  <2> QED BY <1>1, <2>3, <2>5, <2>6 DEF OneToken, Awaited, InVerify, InRace, AskOf
<1> QED BY <1>4, <1>5

\* Once the host has decided, or something disturbs, nothing is claimed any more.
LEMMA DoneCalm ==
    ASSUME VInv, ~Live' \/ ~Calm', UNCHANGED <<creds, old, binding, typed>>, losses' \in Nat,
           Calm' => Calm, \A n \in refused' : n \in refused \/ ~Calm'
    PROVE  CalmInv' /\ VerdictRight'
<1>1. CalmInv'
  BY DEF CalmInv
<1>2. VerdictRight'
  BY VerdictKept
<1> QED BY <1>1, <1>2

\* A step that leaves every token where it is.
LEMMA IdleCalm ==
    ASSUME VInv, Tokens' = Tokens, toClient' = toClient,
           \A m \in Tokens : m \in toHost' <=> m \in toHost,
           UNCHANGED <<creds, old, binding, losses, typed, pake_client, waiting, hpc, run, refused, disturbed>>
    PROVE  CalmInv' /\ VerdictRight'
<1>1. losses \in Nat
  BY ServiceAssumption DEF VInv, IInv, AccessTypeOK
<1>2. VerdictRight'
  BY <1>1, VerdictKept DEF Calm
<1>3. CalmInv'
  <2> SUFFICES ASSUME Calm', Live' PROVE (OneToken /\ Awaited /\ InVerify /\ InRace)'
    BY DEF CalmInv
  <2>1. OneToken /\ Awaited /\ InVerify /\ InRace
    BY DEF VInv, CalmInv, Calm, Live
  <2>2. Claim(typed[run])' = Claim(typed[run])
    BY DEF Claim, Credential, Matches, norm_otp
  <2>3. (OneToken /\ Awaited)'
    BY <2>1 DEF OneToken, Awaited
  <2>4. InVerify'
    BY <2>1, <2>2 DEF InVerify, ReplyOf, ConfirmOf
  <2>5. InRace'
    BY <2>1 DEF InRace, ClearOf, OfferOf, AskOf
  <2> QED BY <2>3, <2>4, <2>5
<1> QED BY <1>2, <1>3

\* An attempt in the clear is judged on what was typed.
LEMMA OnAuthCalm == ASSUME VInv, NEW n \in 1..MaxAttempts, OnAuth(n) PROVE CalmInv' /\ VerdictRight'
<1>1. PICK m \in toHost :
          /\ m.type = "Auth" /\ m.n = n /\ toHost' = toHost \ {m}
          /\ IF m.pw # Empty /\ Credential(m.pw) # "None" THEN Admit(Credential(m.pw), n) ELSE Refuse(n)
  BY DEF OnAuth
<1>2. UNCHANGED <<env, losses, client, disturbed>> /\ Live
  BY DEF OnAuth, Live
<1>3. m.pw = typed[n] /\ losses \in Nat
  BY <1>1, ServiceAssumption DEF VInv, IInv, MsgInv, AuthInv, AccessTypeOK
<1>4. CASE m.pw # Empty /\ Credential(m.pw) # "None"
  <2>1. hpc' = "serving" /\ refused' = refused
    BY <1>1, <1>4 DEF Admit
  <2> QED BY <1>2, <1>3, <2>1, DoneCalm DEF Live, Calm, env, client
<1>5. CASE ~(m.pw # Empty /\ Credential(m.pw) # "None")
  <2>1. Refuse(n) /\ ~Good(n)
    BY <1>1, <1>3, <1>5 DEF Good
  <2> QED BY <1>1, <1>2, <2>1, RefuseCalm
<1> QED BY <1>4, <1>5

\* The reply takes the place of the offer.
LEMMA OnAuthPakeCalm == ASSUME VInv, NEW n \in 1..MaxAttempts, OnAuthPake(n) PROVE CalmInv' /\ VerdictRight'
<1>1. UNCHANGED <<creds, peer_pake, old, binding, typed, pake_client, waiting, phase, granted, refused, losses, disturbed>>
  BY DEF OnAuthPake, env, client
<1>2. toHost' = toHost \ {AuthPake(n)} /\ toClient' = toClient \cup {AuthPakeReply(n)}
      /\ hpc' = "verify" /\ run' = n /\ hpc # "verify" /\ Live /\ AuthPake(n) \in toHost
  BY DEF OnAuthPake, Live
<1>3. losses \in Nat
  BY ServiceAssumption DEF VInv, IInv, AccessTypeOK
<1>4. VerdictRight'
  BY <1>1, <1>3, VerdictKept DEF Calm
<1>5. CalmInv'
  <2> SUFFICES ASSUME Calm', Live' PROVE (OneToken /\ Awaited /\ InVerify /\ InRace)'
    BY DEF CalmInv
  <2>1. OneToken /\ Awaited /\ InRace
    BY <1>1, <1>2 DEF VInv, CalmInv, Calm
  <2>2. AuthPake(n).type = "AuthPake" /\ AuthPake(n).n = n
    BY DEF AuthPake
  <2>3. AuthPake(n) \in Tokens
    BY <1>2, <2>2 DEF Tokens
  <2>4. Tokens = {AuthPake(n)} /\ waiting
    BY <2>1, <2>3 DEF OneToken, Awaited
  <2>5. pake_client = n /\ ~old
    BY <1>2, <2>1, <2>2, <2>3 DEF InRace, ClearOf, OfferOf, AskOf
  <2>6. toClient = {}
    BY <2>2, <2>4 DEF Tokens, VInv, Sides
  <2> PICK r : r = AuthPakeReply(n)
    OBVIOUS
  <2>7. r.type = "AuthPakeReply" /\ r.n = n
    BY DEF AuthPakeReply
  <2>8. Tokens' = {r}
    BY <1>2, <2>4, <2>6 DEF Tokens
  <2>9. ReplyOf(r)'
    BY <1>1, <1>2, <2>5, <2>7 DEF ReplyOf
  <2> QED BY <1>1, <1>2, <2>4, <2>5, <2>8, <2>9 DEF OneToken, Awaited, InVerify, InRace
<1> QED BY <1>4, <1>5

\* A confirmation read in a calm wait is the one for this run, and proves the
\* slot that the password matches.
LEMMA VerifyRecvCalm == ASSUME VInv, NEW m \in toHost, VerifyRecv(m) PROVE CalmInv' /\ VerdictRight'
<1>1. /\ UNCHANGED <<env, losses, client>> /\ toHost' = toHost \ {m} /\ hpc = "verify" /\ Live
      /\ losses \in Nat
  BY ServiceAssumption DEF VerifyRecv, Live, VInv, IInv, AccessTypeOK
<1>2. CASE m.type = "AuthPakeConfirm" /\ host_check(m) # "None"
  <2>1. hpc' = "serving" /\ refused' = refused /\ disturbed' = disturbed
    BY <1>2 DEF VerifyRecv, Admit
  <2> QED BY <1>1, <2>1, DoneCalm DEF Live, Calm, env, client
<1>3. CASE m.type = "AuthPakeConfirm" /\ host_check(m) = "None"
  <2>1. Refuse(run) /\ disturbed' = disturbed
    BY <1>3 DEF VerifyRecv
  <2>2. ASSUME Calm, Good(run) PROVE FALSE
    <3>1. ~old /\ ConfirmOf(m)
      BY <1>1, <1>3, <2>2 DEF VInv, CalmInv, InVerify, Tokens, ReplyOf
    <3>2. binding.client = binding.host /\ m.slot = Credential(typed[run]) /\ m.slot # "None"
      BY <2>2, <3>1 DEF Good, ConfirmOf, Claim
    <3>3. Matches(typed[run], m.slot)
      BY <3>2, CredentialFits
    <3> QED BY <1>3, <3>1, <3>2, <3>3 DEF ConfirmOf, host_check
  <2> QED BY <1>1, <1>3, <2>1, <2>2, RefuseCalm
<1>4. CASE m.type # "AuthPakeConfirm" /\ (m.type = "Unknown" \/ budget = 1)
  <2>1. disturbed' = TRUE
    BY <1>4 DEF VerifyRecv
  <2> QED BY <1>1, <2>1, DoneCalm DEF Calm, env, client
<1>5. CASE m.type # "AuthPakeConfirm" /\ m.type # "Unknown" /\ budget # 1
  <2>1. UNCHANGED <<hpc, run, granted, refused, toClient, disturbed>>
    BY <1>5 DEF VerifyRecv
  <2>2. UNCHANGED <<creds, old, binding, losses, typed, pake_client, waiting>>
    BY <1>1 DEF env, client
  <2>3. CASE m \notin Tokens
    <3>1. Tokens' = Tokens /\ \A t \in Tokens : t \in toHost' <=> t \in toHost
      BY <1>1, <2>1, <2>3 DEF Tokens
    <3> QED BY <2>1, <2>2, <3>1, IdleCalm
  <2>4. CASE m \in Tokens
    <3>1. ~Calm
      BY <1>1, <1>5, <2>4 DEF VInv, CalmInv, InVerify, ReplyOf, ConfirmOf, Sides
    <3> QED BY <1>1, <2>1, <2>2, <3>1, DoneCalm DEF Calm
  <2> QED BY <2>3, <2>4
<1> QED BY <1>2, <1>3, <1>4, <1>5

\* Every step keeps the invariant.
LEMMA VerdictNext == VInv /\ [AccessNext]_accessvars => VInv'
<1> SUFFICES ASSUME VInv, [AccessNext]_accessvars PROVE CalmInv' /\ VerdictRight'
  BY NextInv, SidesNext DEF VInv
<1>0. losses \in Nat
  BY ServiceAssumption DEF VInv, IInv, AccessTypeOK
<1>1. ASSUME NEW m \in toHost, OnOther(m) PROVE CalmInv' /\ VerdictRight'
  <2>1. UNCHANGED <<creds, old, binding, losses, typed, pake_client, waiting, run, refused, disturbed>>
        /\ toHost' = toHost \ {m} /\ m.type \notin {"Auth", "AuthPake"}
    BY <1>1 DEF OnOther, env, client
  <2>2. CASE hpc' = "over"
    BY <1>0, <2>1, <2>2, DoneCalm DEF Live, Calm
  <2>3. CASE hpc' # "over"
    <3>1. hpc = "race" /\ hpc' = hpc /\ toClient' = toClient
      BY <1>1, <2>3 DEF OnOther
    <3>2. CASE m \notin Tokens
      <4>1. Tokens' = Tokens /\ \A t \in Tokens : t \in toHost' <=> t \in toHost
        BY <2>1, <3>1, <3>2 DEF Tokens
      <4> QED BY <2>1, <3>1, <4>1, IdleCalm
    <3>3. CASE m \in Tokens
      <4>1. ~Calm
        BY <2>1, <3>1, <3>3 DEF VInv, CalmInv, Live, InRace, ClearOf, OfferOf, AskOf, Sides
      <4> QED BY <1>0, <2>1, <4>1, DoneCalm DEF Calm
    <3> QED BY <3>2, <3>3
  <2> QED BY <2>2, <2>3
<1>2. CASE UserDecides
  <2>1. UNCHANGED <<env, losses, client, disturbed, refused>> /\ hpc' \in {"serving", "over"}
    BY <1>2 DEF UserDecides, Admit
  <2> QED BY <1>0, <2>1, DoneCalm DEF Live, Calm, env, client
<1>3. CASE VerifyTimeout
  <2>1. UNCHANGED <<env, losses, client>> /\ disturbed' = TRUE
    BY <1>3 DEF VerifyTimeout
  <2> QED BY <1>0, <2>1, DoneCalm DEF Calm, env, client
<1>4. ASSUME NEW type \in {"Ping", "Unknown"}, ClientSends(type) PROVE CalmInv' /\ VerdictRight'
  <2>1. UNCHANGED <<creds, old, binding, losses, typed, pake_client, waiting, hpc, run, refused, disturbed, toClient>>
    BY <1>4 DEF ClientSends, env, client, gate
  <2>2. Tokens' = Tokens /\ \A t \in Tokens : t \in toHost' <=> t \in toHost
    <3>1. toHost' = toHost \cup {Plain(type)} /\ Plain(type).type = type
      BY <1>4 DEF ClientSends, Plain
    <3> QED BY <2>1, <3>1 DEF Tokens, VInv, Sides
  <2> QED BY <2>1, <2>2, IdleCalm
<1>5. CASE Lose
  <2>1. UNCHANGED <<creds, old, binding, typed, refused>> /\ losses' = losses + 1
    BY <1>5 DEF Lose, env, client, gate
  <2> QED BY <1>0, <2>1, DoneCalm DEF Calm
<1>6. CASE UNCHANGED accessvars
  <2>1. UNCHANGED <<creds, old, binding, losses, typed, pake_client, waiting, hpc, run, refused, disturbed, toClient, toHost>>
    BY <1>6 DEF accessvars, env, client, gate
  <2> QED BY <2>1, IdleCalm DEF Tokens
<1> QED
  BY <1>1, <1>2, <1>3, <1>4, <1>5, <1>6, AttemptCalm, ReplyCalm, VerdictCalm, OnAuthCalm,
     OnAuthPakeCalm, VerifyRecvCalm DEF AccessNext

\* The right password over a shared channel is refused only when a message was
\* lost or somebody did not wait: an attempt overtook another, or the host
\* stopped waiting for its confirmation.
THEOREM RightPasswordAccepted == AccessSpec => []VerdictRight
<1>1. AccessInit => VInv
  <2>1. AccessInit => Sides /\ CalmInv /\ VerdictRight
    BY DEF AccessInit, Sides, CalmInv, VerdictRight, OneToken, Awaited, InVerify, InRace, Tokens
  <2> QED BY <2>1, InitInv DEF VInv
<1>2. VInv => VerdictRight
  BY DEF VInv
<1> QED BY <1>1, <1>2, VerdictNext, PTL DEF AccessSpec
=============================================================================

----------------------------- MODULE PathChoice -----------------------------
(***************************************************************************)
(* How the two ends of a relay rendezvous choose between the direct path   *)
(* and the relay: the hole punch (`establish_transport` and the Punch and  *)
(* PunchAck handlers, handlers.rs), the comparison of the two paths in     *)
(* Auto mode (path.rs), and the last step of `connect_pinned` (node.rs).   *)
(*                                                                         *)
(* The model starts when the host has accepted (its SessionState exists    *)
(* and its burst of punches is on the way).  An address of the peer is     *)
(* named by its kind: "pub", the one the relay observed, "lan", the        *)
(* private candidate of the handshake, or "other", a source that is        *)
(* neither.  Datagrams may be lost, repeated and reordered.                *)
(***************************************************************************)
EXTENDS Naturals, FiniteSets, FiniteSetsExt

CONSTANTS
    Modes,      \* the network modes considered
    Networks,   \* the networks considered, see Network
    PROBES,     \* probes per path (5 in the code)
    RTT,        \* round-trip times a probe may measure, in ms
    None,       \* no session, no measurement
    MaxTasks    \* bound: spawned path choices that have not begun

End == {"requester", "host"}
Peer(e) == IF e = "host" THEN "requester" ELSE "host"

\* Which kinds of address get a datagram through; the ends whose NAT shows a
\* new port to every destination; the ends that were given a private
\* candidate of their peer; and those for which that address belongs to some
\* other device of their LAN.
Network ==
    [open : SUBSET {"pub", "lan"}, symmetric : SUBSET End,
     candidate : SUBSET End, stranger : SUBSET End]

ASSUME PathAssumption ==
    /\ Modes \subseteq {"Auto", "P2pOnly", "RelayOnly"}
    /\ Networks \subseteq Network
    /\ PROBES \in Nat /\ RTT \subseteq Nat /\ MaxTasks \in Nat

VARIABLES
    mode,       \* each end's mode
    nw,         \* the network between them
    net,        \* every datagram sent so far
    sessions,   \* each end's SessionState
    probes,     \* each end's measurement in progress
    spawned,    \* path choices the host's handlers spawned
    pc,         \* progress of connect at the requester
    transport,  \* the transport connect has settled on so far
    punched     \* the `punched` waiter: none, waiting or notified

vars == <<mode, nw, net, sessions, probes, spawned, pc, transport, punched>>

Burst  == 0                                  \* the seq of a hole punch
Probe  == 1 .. PROBES                        \* the seqs of a measurement
Seq    == {Burst} \cup Probe
Addr   == {"pub", "lan", "other"}
Datagram ==
    [type : {"Punch", "PunchAck", "RelayPunch", "RelayAck"}, to : End, seq : Seq,
     from : Addr \cup {"relay"}]
Measurement ==
    [sent : SUBSET ({"direct", "relay"} \X Probe), direct : SUBSET RTT, relay : SUBSET RTT]

Session ==
    [peer_addr : Addr, transport : {"Direct", "Relay"}, direct_ok : BOOLEAN,
     path_checked : BOOLEAN, relay_preferred : BOOLEAN]

NewSession ==
    [peer_addr |-> "pub", transport |-> "Relay", direct_ok |-> FALSE,
     path_checked |-> FALSE, relay_preferred |-> FALSE]

ASSUME NoneAssumption == None \notin Session /\ None \notin Measurement

is_private_v4(a) == a = "lan"

\* A datagram that end e sends to its peer's address a: nothing, if it does
\* not get through, or the datagram as its receiver sees it.
Sent(e, a, type, q) ==
    IF \/ a = "lan" /\ "lan" \in nw.open /\ e \notin nw.stranger
       \/ a = "pub" /\ "pub" \in nw.open /\ Peer(e) \notin nw.symmetric
       \/ a = "other"
    THEN {[type |-> type, to |-> Peer(e), seq |-> q,
           from |-> IF a = "lan" THEN "lan" ELSE IF e \in nw.symmetric THEN "other" ELSE "pub"]}
    ELSE IF a = "lan" /\ e \in nw.stranger /\ type = "Punch"
    THEN {[type |-> "PunchAck", to |-> e, seq |-> q, from |-> "lan"]}
    ELSE {}

\* A datagram tunnelled through the relay.
Relayed(e, type, q) == {[type |-> type, to |-> Peer(e), seq |-> q, from |-> "relay"]}

\* The burst of hole punches to the public address and to the candidate.
Punches(e, a) ==
    Sent(e, a, "Punch", Burst)
        \cup (IF e \in nw.candidate THEN Sent(e, "lan", "Punch", Burst) ELSE {})

-----------------------------------------------------------------------------
(***************************************************************************)
(* The Punch and PunchAck handlers                                         *)
(***************************************************************************)

Candidate(e, s, from) == from = s.peer_addr \/ (from = "lan" /\ e \in nw.candidate)

\* Once a private source is locked in, a public one does not replace it.
Preferred(s, from) == ~(s.direct_ok /\ is_private_v4(s.peer_addr)) \/ is_private_v4(from)

\* Mutant: a punch flips the session back to the direct path.
AdoptAlwaysDirect(s, from) ==
    [s EXCEPT !.peer_addr = IF Preferred(s, from) THEN from ELSE @,
              !.direct_ok = TRUE, !.transport = "Direct"]

\* Mutant: the address the relay observed is kept.
AdoptKeepsAddress(s, from) ==
    [s EXCEPT !.direct_ok = TRUE,
              !.transport = IF s.relay_preferred THEN @ ELSE "Direct"]

\* The arrival proves the direct path.
Adopt(s, from) ==
    [s EXCEPT !.peer_addr = IF Preferred(s, from) THEN from ELSE @,
              !.direct_ok = TRUE,
              !.transport = IF s.relay_preferred THEN @ ELSE "Direct"]

\* Mutant: the accepting end leaves the path choice to connect, as the
\* requester does.
SpawnNever(e, s) == UNCHANGED spawned

\* The accepting end spawns a path choice of its own.
Spawn(e, s) ==
    IF e = "host" /\ ~s.path_checked /\ mode[e] = "Auto"
    THEN spawned < MaxTasks /\ spawned' = spawned + 1
    ELSE UNCHANGED spawned

\* The part both handlers share.
Prove(e, from) ==
    LET s == sessions[e]
    IN  IF s # None /\ Candidate(e, s, from)
        THEN sessions' = [sessions EXCEPT ![e] = Adopt(s, from)] /\ Spawn(e, s)
        ELSE UNCHANGED <<sessions, spawned>>

\* Mutant: a RelayOnly end acknowledges punches like any other.
OnPunchAcksAlways(m) ==
    /\ m.type = "Punch"
    /\ net' = net \cup Sent(m.to, m.from, "PunchAck", m.seq)
    /\ IF mode[m.to] = "RelayOnly" THEN UNCHANGED <<sessions, spawned>> ELSE Prove(m.to, m.from)
    /\ UNCHANGED <<mode, nw, probes, pc, transport, punched>>

OnPunch(m) ==
    /\ m.type = "Punch" /\ mode[m.to] # "RelayOnly"
    /\ net' = net \cup Sent(m.to, m.from, "PunchAck", m.seq)
    /\ Prove(m.to, m.from)
    /\ UNCHANGED <<mode, nw, probes, pc, transport, punched>>

\* record_probe: the first answer to a probe gives its path a sample.
Recorded(e, path, q) ==
    IF probes[e] = None \/ <<path, q>> \notin probes[e].sent THEN UNCHANGED probes
    ELSE \E t \in RTT :
        probes' = [probes EXCEPT ![e] =
            [sent   |-> @.sent \ {<<path, q>>},
             direct |-> IF path = "direct" THEN @.direct \cup {t} ELSE @.direct,
             relay  |-> IF path = "relay" THEN @.relay \cup {t} ELSE @.relay]]

OnPunchAck(m) ==
    /\ m.type = "PunchAck" /\ mode[m.to] # "RelayOnly"
    /\ Recorded(m.to, "direct", m.seq)
    /\ Prove(m.to, m.from)
    /\ punched' = IF m.to = "requester" /\ punched = "waiting" /\ sessions[m.to] # None
                     /\ Candidate(m.to, sessions[m.to], m.from)
                  THEN "notified" ELSE punched
    /\ UNCHANGED <<mode, nw, net, pc, transport>>

\* Probes that came through the relay: answer_relay_probe and record_probe.
OnRelayPunch(m) ==
    /\ m.type = "RelayPunch" /\ mode[m.to] # "RelayOnly" /\ sessions[m.to] # None
    /\ net' = net \cup Relayed(m.to, "RelayAck", m.seq)
    /\ UNCHANGED <<mode, nw, sessions, probes, spawned, pc, transport, punched>>

OnRelayAck(m) ==
    /\ m.type = "RelayAck"
    /\ Recorded(m.to, "relay", m.seq)
    /\ UNCHANGED <<mode, nw, net, sessions, spawned, pc, transport, punched>>

-----------------------------------------------------------------------------
(***************************************************************************)
(* pick_faster_path                                                        *)
(***************************************************************************)

\* The relay must answer, and be faster by 20 ms and by 30%, or the direct
\* path be silent.
prefer_relay(direct, relay) ==
    /\ relay # {}
    /\ \/ direct = {}
       \/ Min(relay) + 20 < Min(direct) /\ 10 * Min(relay) < 7 * Min(direct)

\* The measurement runs once, and only after the direct path is proven.
MayMeasure(e) ==
    /\ sessions[e] # None
    /\ mode[e] = "Auto" /\ sessions[e].direct_ok /\ ~sessions[e].path_checked

\* Mark the session, and send the probes over both paths.
Measure(e) ==
    /\ MayMeasure(e)
    /\ sessions' = [sessions EXCEPT ![e].path_checked = TRUE]
    /\ probes' = [probes EXCEPT ![e] = [sent |-> {"direct", "relay"} \X Probe, direct |-> {}, relay |-> {}]]
    /\ net' = net \cup (UNION {Sent(e, sessions[e].peer_addr, "Punch", q) : q \in Probe})
                  \cup (UNION {Relayed(e, "RelayPunch", q) : q \in Probe})

\* The window is over: compare.
Compared(e) ==
    LET relay == prefer_relay(probes[e].direct, probes[e].relay)
    IN  /\ probes' = [probes EXCEPT ![e] = None]
        /\ sessions' = IF sessions[e] = None \/ ~relay THEN sessions
                       ELSE [sessions EXCEPT ![e].relay_preferred = TRUE,
                                             ![e].transport = "Relay"]

HostPicks ==
    /\ spawned > 0
    /\ spawned' = spawned - 1
    /\ Measure("host") \/ (~MayMeasure("host") /\ UNCHANGED <<sessions, probes, net>>)
    /\ UNCHANGED <<mode, nw, pc, transport, punched>>

HostCompares ==
    /\ probes["host"] # None
    /\ Compared("host")
    /\ UNCHANGED <<mode, nw, net, spawned, pc, transport, punched>>

-----------------------------------------------------------------------------
(***************************************************************************)
(* connect_pinned after the answer                                         *)
(***************************************************************************)

OnPeerFound ==
    /\ pc = "await"
    /\ sessions' = [sessions EXCEPT !["requester"] = NewSession]
    /\ pc' = "establish"
    /\ UNCHANGED <<mode, nw, net, probes, spawned, transport, punched>>

\* establish_transport: register the waiter and punch, unless RelayOnly.
EstablishStart ==
    /\ pc = "establish"
    /\ IF mode["requester"] = "RelayOnly"
       THEN pc' = "finish" /\ transport' = "Relay" /\ UNCHANGED <<net, punched>>
       ELSE /\ pc' = "punching" /\ punched' = "waiting"
            /\ net' = net \cup Punches("requester", sessions["requester"].peer_addr)
            /\ UNCHANGED transport
    /\ UNCHANGED <<mode, nw, sessions, probes, spawned>>

\* An ack, or the timeout: the relay in Auto mode, a failure in P2pOnly.
EstablishEnd ==
    /\ pc = "punching"
    /\ punched' = "none"
    /\ \/ /\ punched = "notified" \/ mode["requester"] = "Auto"
          /\ transport' = IF punched = "notified" THEN "Direct" ELSE "Relay"
          /\ pc' = IF mode["requester"] = "Auto" THEN "pick" ELSE "finish"
          /\ UNCHANGED sessions
       \/ /\ punched # "notified" /\ mode["requester"] = "P2pOnly"
          /\ pc' = "failed"
          /\ sessions' = [sessions EXCEPT !["requester"] = None]
          /\ UNCHANGED transport
    /\ UNCHANGED <<mode, nw, net, probes, spawned>>

RequesterPicks ==
    /\ pc = "pick"
    /\ \/ Measure("requester") /\ pc' = "compare" /\ UNCHANGED transport
       \/ /\ ~MayMeasure("requester")
          /\ transport' = sessions["requester"].transport
          /\ pc' = "finish"
          /\ UNCHANGED <<sessions, probes, net>>
    /\ UNCHANGED <<mode, nw, spawned, punched>>

RequesterCompares ==
    /\ pc = "compare"
    /\ Compared("requester")
    /\ transport' = sessions'["requester"].transport
    /\ pc' = "finish"
    /\ UNCHANGED <<mode, nw, net, spawned, punched>>

\* Mutant: what connect settled on replaces what the handlers found since.
ConnectFinishOverwrites ==
    /\ pc = "finish" /\ pc' = "open"
    /\ sessions' = [sessions EXCEPT !["requester"].transport = transport]
    /\ UNCHANGED <<mode, nw, net, probes, spawned, transport, punched>>

\* A path proven meanwhile is not downgraded.
ConnectFinish ==
    /\ pc = "finish" /\ pc' = "open"
    /\ sessions' = [sessions EXCEPT !["requester"].transport =
          IF sessions["requester"].direct_ok /\ ~sessions["requester"].relay_preferred
          THEN "Direct" ELSE transport]
    /\ UNCHANGED <<mode, nw, net, probes, spawned, transport, punched>>

\* An app drops its Session (session.rs).
DropSession(e) ==
    /\ sessions[e] # None
    /\ e = "requester" => pc = "open"
    /\ pc' = IF e = "requester" THEN "gone" ELSE pc
    /\ sessions' = [sessions EXCEPT ![e] = None]
    /\ UNCHANGED <<mode, nw, net, probes, spawned, transport, punched>>

-----------------------------------------------------------------------------

Init ==
    /\ mode \in [End -> Modes] /\ nw \in Networks
    /\ sessions = [e \in End |-> IF e = "host" THEN NewSession ELSE None]
    /\ net = IF mode["host"] = "RelayOnly" THEN {} ELSE Punches("host", "pub")
    /\ probes = [e \in End |-> None]
    /\ spawned = 0 /\ pc = "await" /\ transport = "Relay" /\ punched = "none"

Requester == EstablishStart \/ EstablishEnd \/ RequesterPicks \/ RequesterCompares \/ ConnectFinish

Next ==
    \/ \E m \in net : OnPunch(m) \/ OnPunchAck(m) \/ OnRelayPunch(m) \/ OnRelayAck(m)
    \/ HostPicks \/ HostCompares
    \/ OnPeerFound \/ Requester
    \/ \E e \in End : DropSession(e)

\* Tasks run and their deadlines expire; nothing is assumed of datagrams.
Spec ==
    /\ Init /\ [][Next]_vars
    /\ WF_vars(Requester) /\ WF_vars(HostPicks) /\ WF_vars(HostCompares)

-----------------------------------------------------------------------------

\* Every variable has its shape; in particular a measurement holds round-trip
\* times, and no more path choices are spawned than the bound allows.
TypeOK ==
    /\ mode \in [End -> Modes] /\ nw \in Networks
    /\ net \subseteq Datagram
    /\ sessions \in [End -> Session \cup {None}]
    /\ probes \in [End -> Measurement \cup {None}]
    /\ pc \in {"establish", "punching", "pick", "compare", "finish", "open"}
          => sessions["requester"] # None
    /\ pc = "compare" => probes["requester"] # None
    /\ spawned \in 0 .. MaxTasks
    /\ pc \in {"await", "establish", "punching", "pick", "compare", "finish", "open", "gone", "failed"}
    /\ transport \in {"Direct", "Relay"} /\ punched \in {"none", "waiting", "notified"}

\* What live_transport reports of a session.
live_transport(s) == IF s.direct_ok /\ ~s.relay_preferred THEN "Direct" ELSE s.transport

\* The transport a session reports is the one its data takes: a punch that
\* lands while connect is giving up on it, measuring, or about to write its
\* own decision is not lost.
LiveTransportTrue ==
    \A e \in End : sessions[e] # None => live_transport(sessions[e]) = sessions[e].transport

\* A mode binds the other end too: if either end is RelayOnly then neither
\* sends directly, and a P2pOnly connect never returns a relayed session.
ModeRespected ==
    /\ (\E e \in End : mode[e] = "RelayOnly") =>
          \A e \in End : sessions[e] # None => sessions[e].transport = "Relay"
    /\ pc = "open" /\ mode["requester"] = "P2pOnly" => sessions["requester"].transport = "Direct"

\* After its comparison an end keeps the path it chose, whatever punches,
\* acks and probe answers are still under way.
NoFlapping ==
    [][\A e \in End :
          /\ sessions[e] # None /\ sessions'[e] # None
          /\ sessions[e].path_checked /\ probes[e] = None
          /\ e = "requester" => pc = "open"
          => sessions'[e].transport = sessions[e].transport]_vars

\* A session goes direct only over an address at which its peer is reached:
\* two peers of one LAN whose router does not hairpin leave the public
\* address the relay observed, and so on.  (The guard of the PunchAck handler
\* is there because "a stale private candidate can resolve to a DIFFERENT
\* device on our LAN"; see the network StaleLan of MCPathChoice.)
DirectDelivers ==
    \A e \in End :
        sessions[e] # None /\ sessions[e].transport = "Direct" =>
            Sent(e, sessions[e].peer_addr, "Data", Burst) # {}

\* A host in Auto mode whose direct path is proven measures both paths, even
\* if several handlers asked for it at once, and comes to a decision.
HostMeasures ==
    (sessions["host"] # None /\ sessions["host"].direct_ok /\ mode["host"] = "Auto")
        ~> (sessions["host"] = None \/ (sessions["host"].path_checked /\ probes["host"] = None))

=============================================================================

------------------------------ MODULE ServeLoop ------------------------------
(***************************************************************************)
(* A session after the handshake: the host's serve loop (host.rs) and the  *)
(* client's requests and keepalives (client.rs).  A message is its type;   *)
(* each type is in flight at most once in each direction, in any order.    *)
(* What the handshake left in flight is read here as well.  The session's  *)
(* entry in the node lives as long as its Session, which each end owns, so *)
(* that recv does not find it closed.                                      *)
(***************************************************************************)
EXTENDS Naturals

CONSTANTS
    PEER_TIMEOUT,   \* time after which a silent client is gone
    MAX_WAIT_MSGS   \* messages a request reads (16 in the code)

ASSUME ServeAssumption == PEER_TIMEOUT \in Nat \ {0} /\ MAX_WAIT_MSGS \in Nat \ {0}

VARIABLES
    toHost, toClient,
    serving,        \* the host is in serve_with
    elapsed,        \* what the loop measures since last_inbound
    outbound,       \* the loop still has a queue to drain to the client
    quiet,          \* history: time since a frame reached the loop
    held,           \* the client holds the session
    req             \* messages its request may still read, 0 if none is open

hostVars   == <<serving, elapsed, outbound, quiet>>
clientVars == <<held, req>>
servevars  == <<toHost, toClient, hostVars, clientVars>>

\* Data stands for input, side-channel messages and, to the host, whatever the
\* loop ignores; ListGames and Games for the three queries and their replies.
ToHost   == {"Ping", "Bye", "ListGames", "Launch", "Data", "Unknown", "AuthPake"}
ToClient == {"Pong", "Bye", "Games", "Ok", "Data", "NeedPassword"}

-----------------------------------------------------------------------------
(***************************************************************************)
(* The host                                                                *)
(***************************************************************************)

\* What the loop answers; other messages reach callbacks or are ignored.
Answer(m) ==
    CASE m = "Ping" -> {"Pong"} [] m = "ListGames" -> {"Games"} [] m = "Launch" -> {"Ok"}
      [] OTHER -> {}

\* Mutant: only the keepalive restarts the clock.
ServeRecvPingOnly(m) ==
    /\ serving /\ m \in toHost
    /\ toHost' = toHost \ {m}
    /\ toClient' = toClient \cup Answer(m)
    /\ elapsed' = IF m = "Ping" THEN 0 ELSE elapsed
    /\ quiet' = 0
    /\ serving' = (m # "Bye")
    /\ UNCHANGED <<outbound, clientVars>>

\* Any inbound frame, decodable or not, restarts the clock.
ServeRecv(m) ==
    /\ serving /\ m \in toHost
    /\ toHost' = toHost \ {m}
    /\ toClient' = toClient \cup Answer(m)
    /\ elapsed' = 0 /\ quiet' = 0
    /\ serving' = (m # "Bye")
    /\ UNCHANGED <<outbound, clientVars>>

\* Mutant: an iteration that only sends restarts the clock.
ServeOutRefreshes ==
    /\ serving /\ outbound
    /\ toClient' = toClient \cup {"Data"}
    /\ elapsed' = 0
    /\ UNCHANGED <<toHost, serving, outbound, quiet, clientVars>>

\* A queued message goes out.  A restream request ends an iteration too; it runs
\* a callback and changes nothing here.
ServeOut ==
    /\ serving /\ outbound
    /\ toClient' = toClient \cup {"Data"}
    /\ UNCHANGED <<toHost, hostVars, clientVars>>

\* The queue's other end was dropped: the loop stops selecting on it.
OutboundClosed ==
    /\ serving /\ outbound
    /\ outbound' = FALSE
    /\ UNCHANGED <<toHost, toClient, serving, elapsed, quiet, clientVars>>

\* Mutant: the loop waits for an event without bounding the wait.
ServeSilentNever == serving /\ elapsed > PEER_TIMEOUT /\ UNCHANGED servevars

\* The budget since last_inbound is used up.
ServeSilent ==
    /\ serving /\ elapsed = PEER_TIMEOUT
    /\ serving' = FALSE
    /\ UNCHANGED <<toHost, toClient, elapsed, outbound, quiet, clientVars>>

\* Time passes; the loop's timer is not late by a whole unit.
TimePasses ==
    /\ serving /\ elapsed < PEER_TIMEOUT
    /\ elapsed' = elapsed + 1
    /\ quiet' = IF quiet > PEER_TIMEOUT THEN quiet ELSE quiet + 1
    /\ UNCHANGED <<toHost, toClient, serving, outbound, clientVars>>

\* send_bye_via: the application kicks the client; the loop goes on.
HostKicks ==
    /\ serving
    /\ toClient' = toClient \cup {"Bye"}
    /\ UNCHANGED <<toHost, hostVars, clientVars>>

-----------------------------------------------------------------------------
(***************************************************************************)
(* The client                                                              *)
(***************************************************************************)

\* Keepalives, launches, data and the goodbye, after which it is gone.  A
\* request borrows the session: meanwhile only a cloned sender sends.
ClientSends(m) ==
    /\ held
    /\ req = 0 \/ m = "Data"
    /\ toHost' = toHost \cup {m}
    /\ held' = (m # "Bye")
    /\ UNCHANGED <<toClient, hostVars, req>>

\* The client vanishes without a goodbye.
ClientDies ==
    /\ held
    /\ held' = FALSE /\ req' = 0
    /\ UNCHANGED <<toHost, toClient, hostVars>>

\* request_games; query_stream_caps and query_windows have the same shape.
RequestStart ==
    /\ held /\ req = 0
    /\ toHost' = toHost \cup {"ListGames"}
    /\ req' = MAX_WAIT_MSGS
    /\ UNCHANGED <<toClient, hostVars, held>>

\* Mutant: other messages do not count against the budget.
RequestRecvUncounted(m) ==
    /\ req > 0 /\ m \in toClient
    /\ toClient' = toClient \ {m}
    /\ req' = IF m = "Games" THEN 0 ELSE req
    /\ UNCHANGED <<toHost, hostVars, held>>

\* The reply ends the request; anything else, a Bye too, is dropped and counted.
RequestRecv(m) ==
    /\ req > 0 /\ m \in toClient
    /\ toClient' = toClient \ {m}
    /\ req' = IF m = "Games" THEN 0 ELSE req - 1
    /\ UNCHANGED <<toHost, hostVars, held>>

\* No message came within the deadline: the request ends with an empty result.
RequestTimeout ==
    /\ req > 0
    /\ req' = 0
    /\ UNCHANGED <<toHost, toClient, hostVars, held>>

\* The application's loop that holds the session reads a frame; is_bye ends it.
ClientHold(m) ==
    /\ held /\ req = 0 /\ m \in toClient
    /\ toClient' = toClient \ {m}
    /\ held' = (m # "Bye")
    /\ UNCHANGED <<toHost, hostVars, req>>

-----------------------------------------------------------------------------
\* The network loses a message.
Lose ==
    /\ \/ \E m \in toHost : toHost' = toHost \ {m} /\ UNCHANGED toClient
       \/ \E m \in toClient : toClient' = toClient \ {m} /\ UNCHANGED toHost
    /\ UNCHANGED <<hostVars, clientVars>>

ServeInit ==
    /\ toHost \in SUBSET {"AuthPake"} /\ toClient \in SUBSET {"NeedPassword"}
    /\ serving = TRUE /\ elapsed = 0 /\ quiet = 0 /\ outbound \in BOOLEAN
    /\ held = TRUE /\ req = 0

ServeNext ==
    \/ \E m \in ToHost : ServeRecv(m)
    \/ ServeOut \/ OutboundClosed \/ ServeSilent \/ TimePasses \/ HostKicks
    \/ \E m \in {"Ping", "Launch", "Data", "Unknown", "Bye"} : ClientSends(m)
    \/ ClientDies \/ RequestStart \/ RequestTimeout
    \/ \E m \in ToClient : RequestRecv(m) \/ ClientHold(m)
    \/ Lose

\* Time passes, the loop's timer ends it, and each wait of an open request ends
\* with a message or with its deadline: the one wait, not the whole request.
ServeFairness ==
    /\ WF_servevars(TimePasses) /\ WF_servevars(ServeSilent)
    /\ WF_servevars((\E m \in ToClient : RequestRecv(m)) \/ RequestTimeout)

ServeSpec == ServeInit /\ [][ServeNext]_servevars /\ ServeFairness

-----------------------------------------------------------------------------
(***************************************************************************)
(* Properties                                                              *)
(***************************************************************************)

\* Types; the budget of a request never leaves 0..MAX_WAIT_MSGS.
ServeTypeOK ==
    /\ toHost \subseteq ToHost /\ toClient \subseteq ToClient
    /\ serving \in BOOLEAN /\ outbound \in BOOLEAN /\ held \in BOOLEAN
    /\ elapsed \in 0..PEER_TIMEOUT /\ quiet \in 0..(PEER_TIMEOUT + 1)
    /\ req \in 0..MAX_WAIT_MSGS

\* The serve loop keeps no client that was silent for longer than PEER_TIMEOUT,
\* however much the host sends meanwhile (last_inbound in serve_with).
SilentDropped == serving => quiet <= PEER_TIMEOUT

\* And it drops only such a client, or one that said goodbye: a step that leaves
\* the loop reads a Bye or ends a silence of PEER_TIMEOUT.
OnlySilentDropped ==
    [][serving /\ ~serving' => quiet >= PEER_TIMEOUT \/ toHost \ toHost' = {"Bye"}]_servevars

\* Once the client is gone, goodbye or not, delivered or not, the host leaves
\* the loop, even if it has data to send for ever.
GoneReleasesHost == ~held ~> ~serving

\* A request ends, however many other messages arrive in place of its reply.
RequestReturns == req > 0 ~> req = 0
=============================================================================

# pulsar-core in TLA+

pulsar-core is the engine of a remote desktop and game streaming application:
two devices find each other through a relay or on a LAN, set up an encrypted
session over UDP, and run a small service protocol and media streams over it.
This directory holds TLA+ specifications of its connection layer, of the
service protocol's handshake and loops, of the media plane (FEC, the erasure
code, the rate controller) and of what a device does around its sessions (the
host's audio, the LAN list, injected input, virtual gamepads), TLC models of
them and TLAPS proofs.  Paths below are relative to `crates/pulsar-core/src/`;
the vendored crates are under `crates/`.

## 1. The system

| Part | State it keeps | Operations | Talks to |
|---|---|---|---|
| **Node** (`connection/node.rs`, `handlers.rs`, `types.rs`) | one `Inner` under a tokio mutex: id, token, recorded refusal or challenge, a map of `SessionState`, and maps of waiters per session id (`peer_found`, `pending_salt`, `expected_pubkey`, `identity_mismatch`, `pending_rate_cap`, `punched`, `hello_done`, `probes`) | `register`, `connect_pinned`, `connect_direct`, `next_incoming`; one receive loop that runs a handler per datagram; a heartbeat loop | relay and peers over one socket; waiting calls through `Notify`s |
| **Session** (`connection/session.rs`, `crypto.rs`) | sequence counter, cipher, anti-replay window, reader channel, transport | `send`, `recv`, `drop`; `deliver` in the receive loop | the peer's Session |
| **Path choice** (`connection/path.rs`, punch handlers) | `direct_ok`, `relay_preferred`, `path_checked`, `peer_addr`, the running measurement | hole punch, probe, compare | the same handlers at the peer |
| **Access control** (`service/auth.rs`, `pake.rs`) | the client's pending SPAKE2 state; the host's passwords (in the app) | attempt, reply, confirm, allow or deny | Session |
| **Service loops** (`service/host.rs`, `client.rs`) | time of the last inbound frame, optional side channels | `serve_with`, request helpers | Session, the app's callbacks |
| **FEC** (`service/media.rs`) | the open group; a ring of packets; a table of blocks | push, repair | media packets of a Session |
| **Rate controller** (`adapt/*`) | target, ceiling, cap, probe timers, ladder position | `on_window` | the client's statistics |
| **Erasure code** (`reed-solomon-erasure`) | a cache of decode matrices; the shard-by-shard encoder's cursor | encode, verify, reconstruct | FEC |
| **Discovery** (`discovery.rs`) | a table of beacons by nonce | announce, receive, list | LAN broadcast |
| **Host audio** (`audio/sink.rs`, `sink_unix.rs`, `mute.rs`, `loopback.rs`, `process_loopback.rs`) | the saved default output, a crash marker on disk, a mute flag; a capture thread with the format its reader was spawned for | redirect, restore, recover at start, capture, follow or pin | the OS's audio, the user, a crash |
| **Input** (`input/uinput.rs`, `windows.rs`, `window_win.rs`, `macos.rs`, `touchpad_linux.rs`) | the keys and buttons held, modifier flags, the touchpad reader's gate | press, release, type, flush | the OS, which refuses in silence |
| **Gamepads** (`input/vigem.rs`, `vigem-client`) | a serial and a handle per pad; a rumble reader's copy of both | plug in, wait, submit, unplug | the bus driver and other programs on it |
| Settings, pipelines, screen capture, wire format | settings and OS handles | OS calls, command lines, serialisation | the OS |

What is hard here.  Everything runs on tokio tasks that share `Inner` and give
the lock up at every await, so the interesting questions are about what happens
*between* a check and its use: a reply between a check and the wait for it, an
answer between a timeout and the cleanup after it, a punch between a decision
and its write, a sequence number between being taken and being used.  UDP loses,
repeats and reorders all of it; the relay may forget the node; several devices
may answer for one id; a caller may drop a future anywhere.  `PROJECT.json`
lists these hazards with their lines and the properties aimed at them.

What makes each part correct, in a sentence: a session delivers each message at
most once, to the other end, and never uses a nonce twice; `register` reports
what the relay said, returns, and the node finds its way back after an outage; a
connect ends, honours its pin, agrees on a key with the host, and leaves nothing
behind; a session says of its path what is true, keeps to both ends' modes and
does not change its mind; an attempt at a password is judged once and by the
password it was made with; a repaired packet is the packet that was lost; a rate
stays between floor and cap and recovers; the host's sound comes back after any
crash; the list of the LAN shows whom we heard and no others; nothing stays
pressed when a session is over; a pad has a serial of its own while its owner
lives, and gives it back.

## 2. Modules

| Module | Models | Extends |
|---|---|---|
| `ReplayWindow` | `impl ReplayWindow` of `crypto.rs`, as operators on windows | |
| `SecureChannel` | `send_payload`, `deliver`, `open_in_place`, a session's life | `ReplayWindow` |
| `DatagramService` | nothing in the code: the service a session promises | |
| `Registration` | `register`, the relay's replies, heartbeat, id watcher | |
| `Rendezvous` | `connect_pinned`, `PeerFound`, `on_incoming`, `Session::drop` | |
| `PathChoice` | `establish_transport`, punch handlers, `pick_faster_path` | |
| `DirectConnect` | `connect_direct`, `DirectGuard`, `on_hello` at both ends, `on_hello_ack` | |
| `AccessHandshake` | `auth.rs` and `pake.rs` at both ends | |
| `ServeLoop` | `serve_with` of `host.rs`, the requests of `client.rs` | |
| `Fec` | `FecEncoder`, `FecDecoder` and their Reed-Solomon counterparts of `service/media.rs` | |
| `ReedSolomon` | the vendored codec: field tables, matrices, `encode`, `verify`, `reconstruct`, `ShardByShard` | |
| `RateController` | `controller.rs`, the pick of `ladder.rs`, the states of `delay.rs` | |
| `HostAudio` | the redirect guard on three systems, its marker, the mute, the capture | |
| `Discovery` | the table of `discovery.rs`, its senders and the air between | |
| `Input` | the injectors of four back ends, the touchpad reader | |
| `Pads` | `vigem.rs` over the vendored `vigem-client` and the bus | |
| `MCSession` | one instance of `Rendezvous` and of `ServeLoop` | those two |
| `MCOpening` | one of `DirectConnect` and of `AccessHandshake` | those two |
| `MCMedia` | one of `Fec`, `ReedSolomon` and `RateController` | those three |
| `MCDevices` | one of `HostAudio`, `Discovery`, `Input` and `Pads` | those four |
| the other `MC...` | the instances for TLC | the module named |
| `StreamProofs` | the theorems on `ServeLoop`, `RateController` and `Fec` | those three, `TLAPS` |
| `DeviceProofs` | the theorems on `HostAudio`, `Discovery`, `Input` and `Pads` | those four, `TLAPS` |
| the other `...Proofs` (six) | the theorems | the module named, `TLAPS` |

Conventions.  Actions carry the names of the functions they model where one
function is one atomic step; a function that gives up the lock is split at that
point (`SendSnapshot`/`SendSealed`, `RegisterCheck`/`RegisterPark`,
`ConnectWakes`/`ConnectExpired`, `Unplug`/`Close`, ...).  A `Notify` is its stored permit, plus the
program counter of the call that may be parked on it; `notify_one` to a parked
call and to nobody are told apart where the code depends on it.  Networks are
sets of datagrams; in `Rendezvous`, `PathChoice` and `DirectConnect` a datagram
stays in the set for ever, which is loss (it need not be taken), repetition and
reordering in one.  A salt, a key or an address is a name.  Definitions marked
`Mutant:` are plausible mistakes in the definition that follows them; they are
no part of any specification.

**SecureChannel.** `phase` is the session entry's life: without a reader
(`connect` has not returned), live, handle dropped, entry removed.  `task` is
what a sending task holds between the two halves of `send_payload`, `rx` the
receive loop's snapshot in `deliver`.  The AEAD is ideal: a ciphertext is the
nonce that sealed it and opens under that nonce only; `Garbage` is anything that
does not authenticate.  A payload that opens before the reader is attached is
consumed by the window and dropped, as in the code.

**Registration.** The relay is external: it maps a key to an id, may forget
the mapping, the registration or both, may be redeployed with another version,
and accepts, challenges or refuses by its policy.  `call` is the register() in
progress; its attribute `heard` is a history variable.  The wait loop is three
steps, as in the code: the look at the outcome under the lock
(`RegisterCheck`), the test of the remaining time and the wait without it
(`RegisterPark`), the wake.  An outcome may be recorded between any two; time
runs by itself (`Expire`).  A handler records its outcome under the lock and
signals after it let go: `signals` is what it has still to give, and the receive
task takes no other datagram before.

**Rendezvous** and **DirectConnect** model one session id, since all state is
keyed by random ids.  Several devices may answer; `pin` is the key the caller
expects.  A host mints a salt per session it starts.  Where the host's app
dropped its Session and a repeated Incoming or Hello starts another one, the
two ends hold different keys; `KeyAgreement` therefore speaks of a host whose
app has kept its first Session (`held`).  In `DirectConnect` any device that has
seen the initiator's Hello may greet it back under the same session id
(`OnOwnHello`).  The guard of `handlers.rs:610-626` drops that as long as the
call has its salt or its waiter; later it is an incoming connection like any
other (`Accepted`).  Behind the guard the branch of `on_hello_ack` that evicts a
session of another key is never taken with a pin left: it is what the source
calls it, defense in depth.  It is in the model, and without the guard (the
mutant of `PinHonoured`) it is too late where the ack does not come.

**PathChoice** starts when the host has accepted.  A network says which kinds
of address are reachable, whose NAT is symmetric, who was given a private
candidate, and for whom that candidate belongs to somebody else.

**AccessHandshake.** SPAKE2 and the MACs are ideal: an attempt's number stands
for the SPAKE2 messages made for it, and a MAC verifies if and only if both ends
used the same pair, equal passwords and the same channel.  `binding` gives each
end its channel; they differ when somebody in between made the key exchange with
both.  Passwords are a set with the normal form `norm_otp` gives each.  A client
of an old build sends the password in the clear; a host of an old build is one
the client refuses to send it to.  The loop around the handshake (ask for a
password, race the user's decision) is the application's; its shape is that of
`tests/auth_race.rs`.  `hpc = "verify"` is the wait in `host_verify`, during
which the user's decision is not looked at.

**ServeLoop** goes on where the handshake admitted the client, with what it may
have left in flight.  A message is its type.  `elapsed` is what the loop
measures, `quiet` the truth it should measure.  The three queries of the client
have one shape and are one action; callbacks leave no trace.  The session's
datagrams are sets from which a read takes its message: each arrives once at
most, as `SecureChannel` shows, in any order.

**Fec.** A datagram carries an identity the code does not see, a sequence
number modulo `SEQ` and a size class.  XOR of payloads is a set of identities,
so that a rebuilt packet is right if and only if what is left of the set is the
one that was lost; a Reed-Solomon shard names its code word.  `got`, `heard` and
`out` are history: what arrived, which parity was heard, what was rebuilt and
what it should have been.  Nothing in it is recursive: a frame's chunks are
numbered directly, and the missing shards are put in order by rank.  The network delivers, loses or lets one packet
overtake another; the stream may restart and change its rate.

**ReedSolomon** computes: tables are built as `build.rs` builds them, matrices
are inverted by the code's elimination, and the reference the result is compared
with (`ValueAt`) is Lagrange interpolation of the data, which shares none of it.
What it computes by recursion is for TLC alone: the prover has no induction over
data.

**RateController.** Each method is an operator from the record it finds to the
one it leaves; the order in which the code's branches return is kept.  A window
is one of eight classes of measurement.  `pinned` and `undone` remember that the
user set the rate and that a probe-down's restore took back a later cut.  A
point of the ladder has the bits it needs, by which the ladder is ordered
(`ladder.rs:116`), and a load in pixels times frames, by which a host that
cannot keep up is stepped down; the instance has rungs on which the two orders
differ.

**HostAudio.** Each call to the OS is a step; the process may die between any
two and start again with what the markers say (`Consume` and `Restore`,
`ConsumeMute` and `Unmute` are two steps each).  `excused` records the steps
after which the code cannot promise anything (see `NeverStranded`): a refused
restore or marker, and a crash between consuming a marker and applying it.

**Discovery** counts time in announce intervals.  **Input** keeps both what
the injector thinks it holds and what the OS holds.  The touchpad reader looks
at its gate when `fetch_events` returns and not before: `PadGated` speaks of
what it does from then on, not of the time between a gate that shuts and the
pad's next event, nor of a reader that has exited.

**Pads** has two pads of any kind beside other programs' targets on a bus of two
serials.  Dropping a pad is two calls to the driver: `Unplug` frees the serial
and aborts the requests that wait there, `Close` gives the handle back.  Any
call may fail: a report that is refused leaves the target showing what it showed
(the code ignores the error), a target whose unplug failed stays on the bus
(`left`) and the driver may or may not take it away when the handle closes.

The parts of `MCSession`, of `MCOpening`, of `MCMedia` and of `MCDevices` share no
state with each other, in the code or here.  A behaviour of such a module belongs
to one part, while the others rest in a single initial state: the states are the
sum, not the product, and each part's fairness is assumed of its own behaviours.

## 3. What TLC checks

| Run | Instance | Result |
|---|---|---|
| `channel` | window of 2 words of 2 bits, 5 sequence numbers one way, 2 tasks, 1 forged header | about 1.0 M states |
| `registration` | open or password relay; no, wrong or right password; 1 call of at most 2 attempts, 1 outage, 1 fault | 272 k states |
| `session` | *Rendezvous*: 2 devices, any pin, any mode, 2 salts each; *ServeLoop*: silence of up to 3 units, requests of 2 messages, any losses | 275 k states |
| `path` | every pair of modes, 4 networks, 1 probe per path, 2 round-trip times | 332 k states |
| `opening` | *DirectConnect*: a new and an old build, any pin, 2 salts each, any greeting under the call's id; *AccessHandshake*: 3 spellings of 2 passwords, hosts with one or both, 2 attempts, waits of 2 messages, 1 loss | 717 k states |
| `media` | *Fec*: 8 sequence numbers from 6 on, ring of 4, 2 blocks, 5 packets sent, 2 faults, 1 restart or change; *ReedSolomon*: GF(8), codes (2,2) and (3,2), cache of 2, 2 rounds; *RateController*: rates 10..14, a ladder of 3 points | 1.19 M states |
| `devices` | *HostAudio*: 3 systems, 2 outputs, 2 roles, 2 formats, 1 crash, 1 refusal, 1 move by the user; *Discovery*: 2 others, table of 2, TTL of 2, 4 nonces; *Input*: 4 back ends, 2 buttons, 3 or 4 keys, 1 refusal; *Pads*: 2 pads, 2 serials, 2 handles, 1 failing call | 2.17 M states |
| `verdict_fresh`, `key_holder`, `stale_candidate`, `own_format`, `own_rumble` | see section 5 | counterexamples |

Why the bounds are enough.  *channel*: five numbers against a window of four let
the window slide by every distance from one to its full width, inside a word,
across words and past the end; two tasks are what a nonce clash takes.  The
reflected direction is covered by handing the sender its own ciphertexts.
*registration*: the missed wakeup needs one call and one reply, the rotation one
outage; one fault is a loss, a repetition or a bounced relay datagram at any
point, the moments between a lock, its release and a signal included.
*session* and *opening*: a second device is what a pin is for, a
second salt what a repeated request after a drop takes.  *path*: the verdict
depends on the smaller of each path's samples only, and the two times lie on
both sides of the margin.  *AccessHandshake*: a stale reply, confirmation or attempt needs
one earlier attempt; a budget of two is used up by a keepalive and a message of
the other attempt.  *ServeLoop*: the loop depends on time only through the one
comparison with the timeout, and a budget of two can be used up or not.
*media*: the stream starts two numbers before the wrap, so every group size
straddles it; a ring of four forgets the first of five packets; two blocks are
full at the third frame.  The codec's algebra does not depend on the field's
size, and in GF(8) with two parity shards every pattern of losses that can and
that cannot be repaired occurs, through the cache and past it.  The controller's
counters stop at the thresholds they are compared with; four steps of rate give
room for a cut, a punished ceiling, a probe above it and one below.  *devices*:
one crash, one refusal and one move of the user can fall between any two OS
calls; two other devices with four nonces fill and overflow a table of two;
keys were chosen where the back ends' tables or rules tell them apart; two pads
and two serials make them compete with each other and with somebody else.
The cfgs other than `MCDevices.cfg` turn the deadlock check off, because a
finished connection, an exhausted bound, and a session nobody uses are ends of
the behaviours modelled.  `MCMedia.cfg` has a VIEW that leaves out four fields
the controller only reports: nothing it decides, and no property, reads them.

The type invariants of the modules with proofs are proved, not run.  The
properties:

* `DecisionExact`: the bitmap's verdict is that of its definition; `NonceOnce`;
  `ServiceSpec`: `SecureChannel` implements `DatagramService` (the refinement
  mapping is the identity on `sealed`, `inbox`, `handed`).
* `NoOutcomeMissed`: register() never sleeps on an outcome nobody is about to
  signal; `TimeoutReal`: it calls the relay silent only when its time is over or
  the relay no longer knew it, so no stale permit is taken for a verdict (an
  outcome recorded after the last look and past the deadline is still reported
  as a timeout, in the code and here); `RegisterReturns`; `Recovers`: after an
  outage the node is in the relay's table again, under the id the app shows.
* `PinHonoured`, `NothingLeft`, `KeyAgreement`, `VerdictTrue`, `ConnectEnds`;
  for direct connections also `CancelledLeavesNothing`.  `NothingLeft` speaks of
  a call that returned, or was dropped and swept; that the sweep comes is
  `CancelledLeavesNothing`.
* `LiveTransportTrue`, `ModeRespected`, `DirectDelivers`, `NoFlapping`,
  `HostMeasures`.
* `AcceptedIsProven`, `NoProofAcrossChannels`; `VerdictRight`: the right password
  is refused only after a loss, an abandoned wait or overlapping attempts (each
  of which really makes it happen); `AttemptAnswered`.
* `SilentDropped` and `OnlySilentDropped`: the loop ends on a full silence or a
  Bye, and only then; `GoneReleasesHost`; `RequestReturns`.
* `RepairExact`: what FEC hands to the renderer is what was lost;
  `RepairComplete`: the arrival that makes a repair possible brings it about;
  `ShardsRight`: the codec's shards are those the data determine.
* `RateBounded`: rates between floor and cap, and no rung above the one the host
  was stepped down to; `CeilingEarned`: the controller itself never runs above a
  punished ceiling; `ClimbsBack`: every calm window lowers a measure of the
  distance to the cap, which is recovery without any assumption of fairness.
* `NeverStranded`; `PeersRight`, `LivePeersKept`; `NothingStuck`; `PadsRight`:
  whatever calls fail, a plugged pad has a serial of its own, every target of
  this program is a plugged pad's or one whose unplug failed, and as long as a
  pad is plugged nobody else's reports show at it and its reader passes on
  nobody else's rumble.

Each has a mutant of the code it speaks about under which TLC finds it violated.

Fairness.  Weak fairness of the steps of a node's own tasks: tokio runs ready
tasks, and every wait in them has a deadline, which is why a timeout is an
ordinary, weakly fair step.  In `Registration`, datagrams that are not lost
arrive, and the relay's steps are strongly fair: heartbeats repeat for ever, so
a relay that is asked again and again answers at some time, and accepts a
satisfying answer at some time although it may call any one of them stale.  The
handlers of the node are weakly fair each.  In `AccessHandshake` each end
reads the message it waits for, and the host's deadline passes.  In `ServeLoop`
time passes, and each wait of a request ends by a message or its deadline: the
deadline is that of one message, so a stream of others postpones it and only the
message budget ends the request.  `Fec`, `ReedSolomon`, `RateController` and the
modules of `MCDevices` need none.  Nothing is assumed of losses,
outages, the user, the app's drops and, in the other modules, of the network.

## 4. What is proved

`SecureChannelProofs`, for every word size and number of words, any set of tasks
and any bound on sequence numbers (`SizeAssumption`, `ChannelAssumption`):

* `Invariance`: `IInv == TypeOK /\ WindowInv /\ SendInv /\ ReceiveInv`.
  `DecisionExact` alone is not inductive: it says nothing of numbers the bitmap
  does not reach or of what a shift will bring in.  `WindowInv` says what the
  bitmap *is*: bit `o` is set exactly if `high - o` was accepted.  `SendInv`
  says a number in a task's hands is taken once and not sealed yet; `ReceiveInv`
  that what is in the receive loop or inbox comes from what was sealed.
* The core is a lemma on `shift`: bit `o` of the shifted bitmap is bit `o - n`
  of the old one, across words, from arithmetic on quotients and remainders.
* `TypeCorrect`, `WindowDecides` (`DecisionExact`), `NoncesUsedOnce`
  (`NonceOnce`), `ImplementsService` (`ServiceSpec`: step by step, with the
  invariant).

`RendezvousProofs`, for any hosts, caps, modes and number of salts
(`RendezvousAssumption`): `Invariance` of `Rendezvous!IInv`, and from it
`TypeCorrect`, `PinIsHonoured`, `LeavesNothing`, `KeysAgree`, `VerdictIsTrue`.
The strengthening ties the pin to the salt that waits (`PinInv`), says what is
in the maps at each point of the call (`ProgressInv`: in particular a permit
means that the salt is spent, so no later answer can insert a session), that
answers under way carry the salt of a session that is kept (`SaltInv`), and
where the mismatch flag comes from (`FlagInv`).

`AccessHandshakeProofs`, for any passwords and normal form, any number of
attempts and losses (`ServiceAssumption`): `AccessTypeCorrect`,
`OnlyProvenAccepted` (`AcceptedIsProven`), `NothingProvenAcrossChannels`.  The
invariant adds what a message in flight still says about the attempt and the
channel it was made for (`MsgInv`): a password in the clear is the one typed and
never that of a new client, a reply names the host's channel.
`RightPasswordAccepted` (`VerdictRight`) needs an account of the whole exchange.
As long as nothing was lost and nobody stopped waiting, exactly one message of
the attempt under way is anywhere (`OneToken`), the client awaits it
(`Awaited`), and it is the one the honest run has at that point: the host's
reply or the confirmation of the *current* run while the host verifies
(`InVerify`), an attempt or a request for another password otherwise
(`InRace`).  A refusal then judges the password it belongs to.

`StreamProofs`, on the serve loop, for any timeout and budget
(`ServeAssumption`): `ServeTypeCorrect`, `SilentAlwaysDropped`,
`OnlySilentOnesDropped`, all from `ClockTrue`: while the host serves, `elapsed`
equals `quiet`.

`StreamProofs`, on the rate controller, for any floor, cap, ladder, thresholds,
waits and measurements (`RateAssumption`, `WindowAssumption`):

* `RateSafety` (`RateBounded`) and `CeilingSafety` (`CeilingEarned`) from
  `RateInv`.  Neither property is inductive, because a probe-down is judged
  windows after it began: `ProbeOK` keeps the rate it will restore between floor
  and cap, and `Earned` says that neither of its two verdicts can put the target
  above the ceiling, the one that restores the old rate and the one that keeps
  the cut and punishes.  Only a pin, or a cut while the probe was judged, takes
  a controller out of `Earned` (`pinned`, `undone`).  There is one lemma per
  method, on any record it may find, so that the step for `Tick` follows the
  order in which the code's branches return.
* `ClimbsBackAlways` (`ClimbsBack`), an action property, from `CountInv`, which
  adds the bounds of the waits: each calm window either raises the target or the
  ceiling, or ends a probe-down, or brings a counter nearer to the wait it is
  compared with.  It shows what liveness would, that no rate is a trap, and
  needs no fairness: the measure is a natural number.
* The assumptions beyond types: the floor is at least 10, as a climb of a tenth
  must not round to nothing (it is 300, `controller.rs:46`), the wait for a
  probe has a lower bound below its upper one, and a probe-down lasts at least a
  window (lines 62 to 75).

`StreamProofs`, on forward error correction, for any ring, block table, code
rate, size of a block, frames, losses and overtaking (`FecAssumption`: the ring
is smaller than the sequence space, a block's data leaves room for parity):

* `FecExact` (`RepairExact`) and `FecCompletes` (`RepairComplete`), for streams of
  any length and any number of restarts, under the hypothesis that `OneName`
  always holds: the datagrams in the ring, in the blocks, and in the parity
  that may be heard next have different numbers.  Without it both are false: a
  number is all the decoder has to tell datagrams apart.
* `FecExactTurn` and `FecCompletesTurn` discharge the hypothesis for every
  stream of at most one turn of the numbers (`MaxSent <= SEQ`; the run's 5 of 8
  are an instance, the code's turn is 65536), restarts that jump back into
  numbers used before included: for the Reed-Solomon code always, for the XOR
  code where no datagram exceeds `FEC_MAX_PACKET` (`Covered`; section 5 says
  what goes wrong otherwise).  `Covered` is a fact about the constants; the
  run has longer datagrams and checks that case within its bounds.
* `FecInv`, the invariant of `FecExact`: the encoder's open group is a run of
  consecutive numbers that the next expected number continues, so is every
  group whose parity is under way, and every word in the block table belongs
  to a run from its block's base.  `RepairExact` alone is not inductive: it
  says nothing of what a parity under way will be matched against.  The main
  lemmas: `FlushedOk` (each chunk of a frame is a run under its own base, though
  the base wraps), `Found` (under a number of the group the ring has the group's
  datagram or nothing), `WordIs` and `RsRight` (whichever shards are used, one
  word comes out), `AscendingSeq` (a finite set of numbers in order).
* `TurnInv` adds, for the decoder and for each datagram under way, the phase of
  its stream (number minus age), constant between two restarts.  Two datagrams
  of one stream within `SEQ` of each other that have one number are the same.
  Restarts keep their order with the rest (`Arrives`), so that the decoder
  never knows two streams at once.
* `RepairComplete` needs `GroupInv` (the parity of a group has one count of
  shards, however the ratio changes, because no datagram enters two groups) and
  `HeardInv`: a table has one block per group, holds only what was heard, and,
  while no more than `BLOCKS` groups were heard of, all that was heard of every
  group that is not complete.  That no block makes room is an injection from
  the blocks into the groups (`NoEviction`); that the parity suffices is one
  from what is missing into what was lost and one from the shards heard into
  the block's (`RsCompletes`).

`DeviceProofs`, one inductive invariant per component:

* `PadsSafety` (`PadsRight`), for any pads, serials, handles and failing calls,
  with a handle for each pad (`PadsAssumption`).  `PadsInv` adds that a target of
  ours that was not left behind is a plugged pad's at that serial (`SerialsOwn`),
  and that a reader which still runs is at its pad's serial until the pad is
  unplugged (`ReaderFaithful`).  Of a reader that runs on after that it says
  nothing: there the code's comment is wrong (section 5).
* `PeersSafety` (`PeersRight`) and `LivePeersSafety` (`LivePeersKept`), for any
  devices, TTL and cap (`DiscoveryAssumption`).  `LanInv`: what left the table is
  no younger than what stayed (`OutOlder`), and left because its time was over or
  MAX_PEERS others are no older (`LeftForRoom`).  The rest is counting: dropping
  the oldest of a full table.
* `AudioSafety` (`NeverStranded`), for any outputs, roles, formats, crashes and
  refusals (`HostAudioAssumption`).
  `Sound` says for every point of the guard's thread who would bring the output
  back if the process died there: the thread's saved device while it lives, the
  marker on disk, on Linux the unload at the next launch.  It also says that
  neither marker nor saved device is ever the virtual sink itself, without which
  a restore would restore nothing.
* `InputSafety` (`NothingStuck`), for any of the back ends, buttons and keys
  (`InputAssumption`).  `OsInv` is the property's parts with one more, that a
  window that is gone has nothing down; `ReaderInv` says that within a batch the
  gate is that of its start and that a click that was sent is held, which is why
  shutting the gate lets go of it.

`RegistrationProofs`, for any policies, credentials and bounds
(`RegistrationAssumption`): `RegistrationTypeCorrect`, `NoOutcomeIsMissed`
(`NoOutcomeMissed`), `TimeoutIsReal` (`TimeoutReal`), `OnlyRealVersionErrors`
(`VersionErrorReal`, which no run repeats).  The first two need to know where a
signal is at each stage: `SignalKept` says that an outcome finds the call parked
only while its handler has still to signal, and that between the unlock and the
wait it has left a permit or is about to; `Decided` that what ended the wait is
still there when the call decides.  `RefusalReal` follows a version
refusal back to the relay that sent it.

`DirectConnectProofs`, for any devices at the address and any number of salts
(`DirectAssumption`): `DirectTypeCorrect`, `DirectPinHonoured`,
`DirectLeavesNothing`, `DirectKeysAgree`.  The invariant is the life of the
cancellation guard (`GuardLife`), that salt and pin are taken in the step that
inserts the session (`Paired`), that from the first Hello to the end of the call
there is a waiter or a session in the maps, so that a Hello under its id never
finds both gone (`Claimed`), what each stage has cleared (`Cleared`), and that
an ack names the one session its device has had (`AcksTrue`).

`PathChoiceProofs`, for any modes, networks, probes and round-trip times
(`PathAssumption`, `NoneAssumption`): `PathTypeCorrect`, `ReportedTransportTrue`
(`LiveTransportTrue`), `ChosenPathStays` (`NoFlapping`), and, for networks in
which no private candidate belongs to another device (`NoStranger`), `ModesBind`
(`ModeRespected`) and `DirectReachesPeer` (`DirectDelivers`).  Without that
assumption the last is false (section 5), and a stranger's ack takes a session
past the other end's mode in the same way.  `SessionStep` lists the five
ways a step may change a session.  The first two follow with one strengthening,
that only a proven path is measured (`CheckedProven`); the last two need
`AllTrue`: who may have sent a datagram that is under way and from where it can
be answered, what a session's fields say about modes and reachability, and on
what connect's own decision rests at each stage.

Only model-checked:

* liveness, which needs fairness or ENABLED: `RegisterReturns`, `Recovers`,
  `ConnectEnds`, `HostMeasures`, `AttemptAnswered`, `GoneReleasesHost`,
  `RequestReturns`, and `CancelledLeavesNothing`, whose guard's sweep must run at
  some time;
* the XOR code of `Fec` in streams with datagrams too long for FEC, and either
  code beyond one turn of the numbers (see above);
* `ShardsRight`, which is about recursive definitions.

## 5. Disagreements between code and comments

Each is a run whose property states the comment and whose counterexample is
what the code does; `PROJECT.json` quotes the lines.

* `verdict_fresh`: a refusal recorded by one register() is returned by the next
  one, with corrected credentials, before the relay has answered it.
* `key_holder`: the Register sent after an eviction carries no access key, so a
  device with a key and no stored password does not come back.
* `stale_candidate`: an ack from a private candidate that now belongs to another
  device moves the session to a direct path that does not reach the peer.
* `own_format`: an endpoint that refuses the auto-convert flags, as the
  redirect's sink does, is opened a second time, and its format then is not
  compared with the one ffmpeg was spawned for.
* `own_rumble`: a pad's unplug and the close of its handle are two calls; a
  reader between two notifications that asks again in between waits at whatever
  DS4 has taken the serial, and passes on its rumble.

Noticed and not run:

* Connection: the requester whose wait for a PunchAck timed out never measures a
  path that is proven later; a cancelled `connect_pinned` leaves its waiters
  behind; a connect whose datagram cannot be sent returns with its waiter still
  in the map (`node.rs:474`, against the comment below it).
* Service: `recv_client_auth` reports a frame it cannot decode as `Gone`; a late
  confirmation or reply of one password attempt uses up the next one; a request
  that reads the session when a Bye arrives drops the Bye.
* Media: the `age` of a Reed-Solomon block is written and never read, against
  the comment at `media.rs:663`; blocks leave only by eviction, so that more
  than a turn of the numbers later a stale one may meet a new group under the
  same key.  `FecEncoder::push` passes a datagram that is too long by without
  closing the open group: if the stream then restarts at exactly the number that
  group expects, its parity covers datagrams of two streams.
* Rate: a host that could not keep up is stepped down to a lighter rung and the
  cap is that rung's index; the ladder is ordered by bits, not by load
  (`ladder.rs:116`), so when the rate is starved the controller goes on to a rung
  below the cap that may be heavier in pixels times frames, against
  "the heaviest point the host proved it can keep up with" (`controller.rs:235`); a probe-down's restore undoes a cut or a pin made while it was judged,
  and may put the target above a punished ceiling; the native point is not the
  top rung of the ladder for a portrait screen (`ladder.rs:64`); neither a pin
  nor a lossy window resets the count towards `last_good`.
* Audio: only the console default is saved, and every role is restored to it
  (`sink.rs:17`); a pinned capture may re-assert the sink
  after the guard is gone; a crash between consuming the marker and applying it
  strands the host; on Linux a second guard unloads the first one's sink.
* Input: on macOS releasing one of a left and right modifier clears the flag
  while the other is held, and typing a character posts key 0 (which is A) up; a
  touchpad reader that exits on a read error leaves its click down until the
  session ends; with Shift held, uinput types an unshifted character shifted.
* Pads: a rumble reader keeps the raw handle and serial of its pad; if both are
  given out again it passes on the rumble of another pad, as in `own_rumble`; a
  target whose unplug failed keeps its serial, and the error is ignored.

## 6. Not modelled

X25519, HKDF, the AEAD and SPAKE2 as computations; parsing and serialisation
(`wire.rs`, `handshake_blob`, the bytes of the FEC framing); binding sockets and
the identity file; settings; command lines for encoders and players; screen
capture; sample conversion; the building of the ladder and the choice of FEC
strength from loss, which are arithmetic on reals; pointer motion and
scrolling, which hold nothing; the SIMD variants of the codec.  They are
sequential code on bytes or numbers, or I/O, with unit tests of their own.
Consuming a one-time password belongs to the app (`auth.rs:76`): two sessions
that prove one at once are outside these modules.

## 7. Plan

1. `ReplayWindow`, `SecureChannel`, `DatagramService`; proofs. *Done.*
2. `Registration`; proofs. *Done.*
3. `Rendezvous`; proofs. *Done.*
4. `PathChoice`; proofs. *Done.*
5. `DirectConnect`; proofs. *Done.*
6. `AccessHandshake` and `ServeLoop`; proofs. *Done.*
7. `Fec`, `ReedSolomon`, `RateController`; proofs of the first and the last.
   *Done.*
8. `HostAudio`, `Discovery`, `Input`, `Pads`; proofs. *Done.*
9. The composition of `RateController` with `Fec` through the overhead, and of
   `SecureChannel` under `ServeLoop`, are worth a run once the bounds allow it.

-------------------------------- MODULE Fec --------------------------------
(***************************************************************************)
(* Forward error correction of the video flow (service/media.rs): the      *)
(* host's encoder, which groups outgoing datagrams and sends parity behind *)
(* them, and the client's decoder, which keeps the recent datagrams and    *)
(* rebuilds the ones the network lost.  A stream uses one of two codes:    *)
(* "xor", one parity over every n datagrams, or "rs", Reed-Solomon parity  *)
(* over each video frame.                                                  *)
(*                                                                         *)
(* A datagram is [id, seq, size]: id is its identity, which the code does  *)
(* not see, seq its wrapping sequence number, size its length class.  The  *)
(* XOR of datagrams is their set; a Reed-Solomon parity shard names the    *)
(* code word it belongs to.  A rebuilt datagram is right when what is left *)
(* is exactly the missing one (ReedSolomon.tla checks the code itself).    *)
(***************************************************************************)
EXTENDS Integers, Sequences, FiniteSets, SequencesExt, FiniteSetsExt

CONSTANTS
    SEQ,          \* number of sequence numbers (2^16)
    First,        \* sequence number of the first datagram
    RING,         \* capacity of the decoder's ring (512, 1024)
    BLOCKS,       \* capacity of the block table (32)
    RS_MAX_DATA,  \* most data shards of a block (200)
    SHARDS,       \* most shards of a code word (255)
    Rates,        \* group sizes n, or parity per cent of the data; 0 is off
    Sizes,        \* length classes of datagrams
    FEC_MAX_PACKET, \* the largest of them that FEC covers
    MaxSent,      \* bound: datagrams sent
    MaxFaults,    \* bound: datagrams lost or overtaken
    MaxChanges,   \* bound: changes of rate, restarts, oversized datagrams
    MaxNet        \* bound: datagrams under way when the host sends one

ASSUME FecAssumption ==
    /\ SEQ \in Nat \ {0} /\ First \in 0 .. SEQ - 1
    /\ RING \in 1 .. SEQ - 1 /\ BLOCKS \in Nat \ {0}
    /\ RS_MAX_DATA \in Nat \ {0} /\ SHARDS \in Nat /\ RS_MAX_DATA < SHARDS
    /\ 0 \in Rates /\ Rates \subseteq Nat /\ Sizes \subseteq Nat
    /\ MaxSent \in Nat

VARIABLES
    code,     \* "xor" or "rs": what the client asked for
    enc,      \* the encoder: [rate, group, base, next, ts]
    cam,      \* the video source: [id, seq, ts] of the next datagram, changes
    net,      \* what is under way to the client, in order of sending
    faults,   \* how many were lost or overtaken
    ring,     \* the decoder's recent datagrams, oldest first
    blocks,   \* the decoder's incomplete blocks, oldest first
    out,      \* what the last step rebuilt, each beside what was lost
    got,      \* history: the datagrams the decoder holds or held
    heard     \* history: the parity <<group, idx>> that arrived

fvars == <<code, enc, cam, net, faults, ring, blocks, out, got, heard>>

NoSeq == -1
NoTs == -1
(* What a failed check of the rebuilt length lets through.                 *)
Rubbish == [id |-> 0, seq |-> NoSeq, size |-> 0]

Wrap(n) == n % SEQ
(* The code's wrapping_sub.                                                *)
seq_forward(a, b) == (b - a) % SEQ

-----------------------------------------------------------------------------
(* The encoders: what push leaves and what it sends.                       *)

Emptied(e) == [e EXCEPT !.group = <<>>]

Appended(e, p, ts) ==
    [e EXCEPT !.base = IF e.group = <<>> THEN p.seq ELSE @,
              !.next = Wrap(p.seq + 1), !.ts = ts,
              !.group = Append(@, p)]

parity_frame(base, pkts) ==
    [kind |-> "xor", base |-> base, n |-> Len(pkts), pkts |-> pkts]

(* FecEncoder::push.                                                       *)
XorPush(e, p, ts, marker) ==
    LET fits == e.rate # 0 /\ p.size <= FEC_MAX_PACKET
        open == Appended(IF e.next # p.seq THEN Emptied(e) ELSE e, p, ts)
        full == Len(open.group) >= open.rate
    IN  IF ~fits THEN [enc |-> e, sent |-> <<>>]
        ELSE IF ~full THEN [enc |-> open, sent |-> <<>>]
        ELSE [enc |-> Emptied(open),
              sent |-> <<parity_frame(open.base, open.group)>>]

(* The number of parity shards for k data shards.                          *)
ParityCount(k, rate) ==
    LET wanted == (k * rate + 99) \div 100
    IN  Min({Max({wanted, 1}), SHARDS - k})

rs_parity_frames(base, pkts, rate) ==
    LET k == Len(pkts)
        m == ParityCount(k, rate)
    IN  [j \in 1 .. m |->
            [kind |-> "rs", base |-> base, k |-> k, m |-> m, idx |-> j - 1,
             len |-> Max({p.size : p \in ToSet(pkts)}), pkts |-> pkts]]

(* The parity of the group in chunks of at most RS_MAX_DATA, of which all  *)
(* but the last are full, each chunk under a number step after the last.   *)
ChunkFrames(e, step) ==
    LET chunks == (Len(e.group) + RS_MAX_DATA - 1) \div RS_MAX_DATA
        chunk(c) == SubSeq(e.group, (c - 1) * RS_MAX_DATA + 1,
                           Min({c * RS_MAX_DATA, Len(e.group)}))
        frames(c) == rs_parity_frames(Wrap(e.base + (c - 1) * step), chunk(c),
                                      e.rate)
        each == ParityCount(RS_MAX_DATA, e.rate)
        early == (chunks - 1) * each
    IN  IF e.rate = 0 \/ e.group = <<>> THEN <<>>
        ELSE [x \in 1 .. early + Len(frames(chunks)) |->
                 IF x > early THEN frames(chunks)[x - early]
                 ELSE frames((x - 1) \div each + 1)[((x - 1) % each) + 1]]

(* Mutant: every chunk goes out under the number of the first.             *)
FlushedSameBase(e) == ChunkFrames(e, 0)

(* RsFecEncoder::flush.                                                    *)
Flushed(e) == ChunkFrames(e, RS_MAX_DATA)

(* RsFecEncoder::push.                                                     *)
RsPush(e, p, ts, marker) ==
    LET fits == e.rate # 0 /\ p.size <= FEC_MAX_PACKET
        gap == e.next # p.seq
        closes == ~gap /\ e.ts # ts
        open == Appended(IF gap \/ closes THEN Emptied(e) ELSE e, p, ts)
        before == IF closes THEN Flushed(e) ELSE <<>>
    IN  IF ~fits
        THEN [enc |-> [Emptied(e) EXCEPT !.next = Wrap(p.seq + 1)],
              sent |-> <<>>]
        ELSE IF ~marker THEN [enc |-> open, sent |-> before]
        ELSE [enc |-> Emptied(open), sent |-> before \o Flushed(open)]

push(e, p, ts, marker) ==
    IF code = "xor" THEN XorPush(e, p, ts, marker)
                    ELSE RsPush(e, p, ts, marker)

-----------------------------------------------------------------------------
(* The decoders.                                                           *)

(* on_packet, once per datagram of the list: the ring keeps the last RING. *)
Remember(r, list) ==
    LET all == r \o list
    IN  SubSeq(all, Max({1, Len(all) - RING + 1}), Len(all))

Positions(r, seq) == {i \in DOMAIN r : r[i].seq = seq}

(* recover takes the first datagram of the ring under a number, find the   *)
(* newest.                                                                 *)
Oldest(r, seq) == r[Min(Positions(r, seq))]
find(r, seq) == r[Max(Positions(r, seq))]

Missing(r, base, k) == {i \in 0 .. k - 1 : Positions(r, Wrap(base + i)) = {}}

(* recover: what the XOR of the parity and the datagrams at hand leaves.   *)
Left(r, p) ==
    SymDiff(ToSet(p.pkts),
            {Oldest(r, Wrap(p.base + i)) :
                i \in (0 .. p.n - 1) \ Missing(r, p.base, p.n)})

(* FecDecoder::on_parity: what it rebuilds, each datagram beside the one   *)
(* that was lost.  The check of the length may or may not catch rubbish.   *)
XorRebuilt(r, p) ==
    LET miss == Missing(r, p.base, p.n)
        i == CHOOSE j \in miss : TRUE
        lost == p.pkts[i + 1]
        right == {<<[is |-> q, was |-> lost]>> : q \in Left(r, p)}
    IN  IF Cardinality(miss) # 1 THEN {<<>>}
        ELSE IF Cardinality(Left(r, p)) = 1 THEN right
        ELSE {<<>>, <<[is |-> Rubbish, was |-> lost]>>}

(* The place of p's block in the table, 0 when it has none.                *)
BlockOf(bs, p) ==
    LET same == {i \in DOMAIN bs : /\ bs[i].base = p.base
                                   /\ bs[i].k = p.k /\ bs[i].m = p.m}
    IN  IF same = {} THEN 0 ELSE Min(same)

NewBlock(p) == [base |-> p.base, k |-> p.k, m |-> p.m, len |-> p.len,
                parity |-> [i \in 0 .. p.m - 1 |-> <<>>]]

(* The table with p's block in it, the oldest block making room.           *)
WithBlock(bs, p) ==
    IF BlockOf(bs, p) # 0 THEN bs
    ELSE Append(IF Len(bs) >= BLOCKS THEN Tail(bs) ELSE bs, NewBlock(p))

WithParity(bs, p) ==
    [bs EXCEPT ![BlockOf(bs, p)].parity[p.idx] = p.pkts]

ParityHeard(b) == {i \in 0 .. b.m - 1 : b.parity[i] # <<>>}

(* A datagram longer than the block's shards counts as missing.            *)
MissingShards(r, b) ==
    Missing(r, b.base, b.k) \cup
    {i \in (0 .. b.k - 1) \ Missing(r, b.base, b.k) :
        find(r, Wrap(b.base + i)).size > b.len}

(* Mutant: one parity shard more than is missing is waited for.            *)
RepairableLate(r, b) ==
    Cardinality(MissingShards(r, b)) < Cardinality(ParityHeard(b))

Repairable(r, b) ==
    Cardinality(MissingShards(r, b)) <= Cardinality(ParityHeard(b))

(* reconstruct_data: of the parity at hand it uses as many shards as are   *)
(* missing, lowest index first.  One code word that agrees with every      *)
(* shard used gives its datagrams; shards of several give rubbish.         *)
UsedParity(b, need) ==
    {i \in ParityHeard(b) :
        Cardinality({j \in ParityHeard(b) : j < i}) < need}

Word(r, b) ==
    LET miss == MissingShards(r, b)
        words == {b.parity[i] : i \in UsedParity(b, Cardinality(miss))}
        one == CHOOSE w \in words : TRUE
        agrees == \A i \in (0 .. b.k - 1) \ miss :
                      find(r, Wrap(b.base + i)) = one[i + 1]
    IN  IF Cardinality(words) = 1 /\ agrees THEN one
        ELSE [i \in 1 .. b.k |-> Rubbish]

(* The numbers of a set in ascending order.                                *)
InOrder(S) ==
    [j \in 1 .. Cardinality(S) |->
        CHOOSE x \in S : Cardinality({y \in S : y < x}) = j - 1]

RsRebuilt(r, b, p) ==
    LET miss == InOrder(MissingShards(r, b))
        word == Word(r, b)
        all == [j \in DOMAIN miss |-> [is |-> word[miss[j] + 1],
                                       was |-> p.pkts[miss[j] + 1]]]
    IN  IF miss = <<>> THEN {<<>>}
        ELSE IF Rubbish \in ToSet(word) THEN {<<>>, all} ELSE {all}

-----------------------------------------------------------------------------
(* The actions.                                                            *)

FecInit ==
    /\ code \in {"xor", "rs"}
    /\ \E rate \in Rates :
          enc = [rate |-> rate, group |-> <<>>, base |-> 0, next |-> NoSeq,
                 ts |-> NoTs]
    /\ cam = [id |-> 1, seq |-> First, ts |-> 0, changes |-> 0]
    /\ net = <<>> /\ faults = 0
    /\ ring = <<>> /\ blocks = <<>> /\ out = {}
    /\ got = {} /\ heard = {}

(* The source hands over one datagram; it is sent and pushed, and parity   *)
(* follows it.  A frame ends at a marker, or without one when the next     *)
(* datagram has another timestamp; the XOR code does not look at frames.   *)
Push(size, marker, newFrame) ==
    /\ cam.id <= MaxSent /\ Len(net) <= MaxNet
    /\ newFrame => cam.ts = enc.ts
    /\ code = "xor" => ~marker /\ ~newFrame
    /\ size > FEC_MAX_PACKET => cam.changes < MaxChanges
    /\ LET ts == IF newFrame THEN cam.ts + 1 ELSE cam.ts
           p == [id |-> cam.id, seq |-> cam.seq, size |-> size]
           done == push(enc, p, ts, marker)
       IN  /\ enc' = done.enc
           /\ net' = (net \o <<[kind |-> "data", pkt |-> p]>>) \o done.sent
           /\ cam' = [cam EXCEPT !.id = @ + 1, !.seq = Wrap(@ + 1),
                                 !.ts = IF marker THEN ts + 1 ELSE ts,
                                 !.changes = IF size > FEC_MAX_PACKET
                                             THEN @ + 1 ELSE @]
    /\ out' = {}
    /\ UNCHANGED <<code, faults, ring, blocks, got, heard>>

(* set_n clears the open group and the expected number, set_ratio only     *)
(* changes the ratio.                                                      *)
SetRate(rate) ==
    /\ cam.changes < MaxChanges /\ rate # enc.rate
    /\ cam' = [cam EXCEPT !.changes = @ + 1]
    /\ enc' = IF code = "xor"
              THEN [Emptied(enc) EXCEPT !.rate = rate, !.next = NoSeq]
              ELSE [enc EXCEPT !.rate = rate]
    /\ out' = {}
    /\ UNCHANGED <<code, net, faults, ring, blocks, got, heard>>

(* The app restarts the video source: the numbers jump, ahead or back into *)
(* what was sent before, and the client hears of it before the new         *)
(* stream's first datagram.                                                *)
Restart(jump) ==
    /\ cam.changes < MaxChanges
    /\ cam' = [cam EXCEPT !.changes = @ + 1, !.seq = Wrap(@ + jump),
                          !.ts = @ + 1]
    /\ net' = Append(net, [kind |-> "restart"])
    /\ out' = {}
    /\ UNCHANGED <<code, enc, faults, ring, blocks, got, heard>>

(* The next arrival, or one that overtakes its predecessor.                *)
Arrives(i) ==
    /\ i \in DOMAIN net
    /\ \/ i = 1 /\ faults' = faults
       \/ /\ i = 2 /\ faults < MaxFaults
          /\ "restart" \notin {net[1].kind, net[2].kind}
          /\ faults' = faults + 1
    /\ net' = RemoveAt(net, i)

LoseDatagram ==
    /\ net # <<>> /\ Head(net).kind # "restart" /\ faults < MaxFaults
    /\ net' = Tail(net) /\ faults' = faults + 1 /\ out' = {}
    /\ UNCHANGED <<code, enc, cam, ring, blocks, got, heard>>

OnPacket(i) ==
    /\ Arrives(i) /\ net[i].kind = "data"
    /\ ring' = Remember(ring, <<net[i].pkt>>)
    /\ got' = got \cup {net[i].pkt}
    /\ out' = {}
    /\ UNCHANGED <<code, enc, cam, blocks, heard>>

Rebuild(list) ==
    /\ ring' = Remember(ring, [j \in DOMAIN list |-> list[j].is])
    /\ out' = ToSet(list)
    /\ got' = got \cup {x.is : x \in ToSet(list)}

OnXorParity(i) ==
    /\ Arrives(i) /\ net[i].kind = "xor"
    /\ \E list \in XorRebuilt(ring, net[i]) : Rebuild(list)
    /\ heard' = heard \cup {<<net[i].pkts, 0>>}
    /\ UNCHANGED <<code, enc, cam, blocks>>

(* RsFecDecoder::on_parity.                                                *)
OnRsParity(i) ==
    /\ Arrives(i) /\ net[i].kind = "rs"
    /\ LET p == net[i]
           table == WithBlock(blocks, p)
           at == BlockOf(table, p)
           noted == WithParity(table, p)
           b == noted[at]
       IN  IF table[at].len # p.len
           THEN Rebuild(<<>>) /\ blocks' = table
           ELSE IF ~Repairable(ring, b)
           THEN Rebuild(<<>>) /\ blocks' = noted
           ELSE /\ blocks' = RemoveAt(noted, at)
                /\ \E list \in RsRebuilt(ring, b, p) : Rebuild(list)
    /\ heard' = heard \cup {<<net[i].pkts, net[i].idx>>}
    /\ UNCHANGED <<code, enc, cam>>

(* reset, which the app calls when the stream restarts.                    *)
OnRestart ==
    /\ Arrives(1) /\ net[1].kind = "restart"
    /\ ring' = <<>> /\ blocks' = <<>> /\ out' = {} /\ got' = {} /\ heard' = {}
    /\ UNCHANGED <<code, enc, cam>>

FecNext ==
    \/ \E size \in Sizes, marker \in BOOLEAN, newFrame \in BOOLEAN :
          Push(size, marker, newFrame)
    \/ \E rate \in Rates : SetRate(rate)
    \/ \E jump \in {SEQ \div 2, SEQ - 2} : Restart(jump)
    \/ \E i \in 1 .. 2 : OnPacket(i) \/ OnXorParity(i) \/ OnRsParity(i)
    \/ OnRestart
    \/ LoseDatagram

FecSpec == FecInit /\ [][FecNext]_fvars

-----------------------------------------------------------------------------
(* Properties.                                                             *)

(* The comment above parity_frame: the client "rebuilds the missing one    *)
(* from the parity, exactly".  Whatever on_parity hands to the renderer is *)
(* the datagram that was lost, however groups straddle the wrap of the     *)
(* sequence number, oversized datagrams and gaps break them up, and        *)
(* arrivals overtake each other.                                           *)
RepairExact == \A x \in out : x.is = x.was

(* "the client rebuilds ANY <= m lost packets of that frame": when parity  *)
(* arrives and as many parity shards of its group have been heard as its   *)
(* datagrams are missing, the step rebuilds all of them, provided the ring *)
(* still holds the ones that came and no more than BLOCKS groups had       *)
(* parity heard (beyond that the oldest block makes room).                 *)
RepairedOnArrival ==
    \A p \in {net[i] : i \in {j \in DOMAIN net : j <= 2}} :
          /\ p.kind \in {"xor", "rs"}
          /\ heard' # heard
          /\ \E j \in 0 .. SHARDS : <<p.pkts, j>> \in heard' \ heard
          /\ LET group == ToSet(p.pkts)
                 lost == group \ got
                 shards == {h \in heard' : h[1] = p.pkts}
             IN  /\ lost # {} /\ Cardinality(lost) <= Cardinality(shards)
                 /\ group \ lost \subseteq ToSet(ring)
                 /\ Cardinality({h[1] : h \in heard'}) <= BLOCKS
          => ToSet(p.pkts) \ got \subseteq {x.is : x \in out'}

RepairComplete == [][RepairedOnArrival]_fvars
=============================================================================

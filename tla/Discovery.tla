----------------------------- MODULE Discovery -----------------------------
(***************************************************************************)
(* The table of devices on the LAN (discovery.rs): one device, Me, hears   *)
(* the beacons of the others.  A device takes a new nonce whenever it goes *)
(* online, and keeps its key.  Beacons are lost, delayed, doubled (one     *)
(* copy per interface) and reordered.  Time passes in steps of the         *)
(* announce interval; an entry's last_seen is kept as its age.             *)
(***************************************************************************)
EXTENDS Integers, FiniteSets

CONSTANTS
    Me, Others,    \* the devices, named by their keys
    Foreign,       \* those that announce another version
    PEER_TTL,      \* in steps (8 s / 2 s)
    MAX_PEERS,     \* entries of the table (256)
    Ids,           \* relay ids a device may announce
    MaxNonces, MaxAir, MaxChanges   \* bounds

Keys == Others \cup {Me}
Off == 0
NoId == "none"

ASSUME DiscoveryAssumption ==
    /\ Me \notin Others /\ Foreign \subseteq Others /\ NoId \notin Ids
    /\ PEER_TTL \in Nat \ {0} /\ MAX_PEERS \in Nat \ {0}

VARIABLES
    nonce,     \* by device: the nonce of its running beacon, or Off
    id,        \* by device: the id it announces
    paused,    \* by device: gaming mode
    air,       \* beacons under way
    peers,     \* Inner::peers of Me
    heard,     \* history: by nonce, the last beacon Me took and its age
    nonces, changes

dvars == <<nonce, id, paused, air, peers, heard, nonces, changes>>

Older(table) == [n \in DOMAIN table |->
                    [table[n] EXCEPT !.age = IF @ < PEER_TTL THEN @ + 1 ELSE @]]

(* HashMap::retain with the TTL.                                           *)
Retained(table) ==
    [n \in {m \in DOMAIN table : table[m].age < PEER_TTL} |-> table[n]]

Without(table, n) == [m \in DOMAIN table \ {n} |-> table[m]]
With(table, n, row) == [m \in DOMAIN table \cup {n} |->
                           IF m = n THEN row ELSE table[m]]

DiscoveryInit ==
    /\ nonce = [d \in Keys |-> IF d = Me THEN 1 ELSE Off]
    /\ id = [d \in Keys |-> NoId] /\ paused = [d \in Keys |-> FALSE]
    /\ air = {} /\ peers = [n \in {} |-> 0] /\ heard = [n \in {} |-> 0]
    /\ nonces = 1 /\ changes = 0

-----------------------------------------------------------------------------
(* start_on: a beacon with a new nonce and an empty table.  Me going       *)
(* online again starts a new instance beside what the old one still has in *)
(* the air.                                                                *)
GoOnline(d) ==
    /\ nonces < MaxNonces /\ nonces' = nonces + 1
    /\ nonce' = [nonce EXCEPT ![d] = nonces + 1]
    /\ IF d = Me THEN peers' = [n \in {} |-> 0] /\ heard' = [n \in {} |-> 0]
       ELSE UNCHANGED <<peers, heard>>
    /\ UNCHANGED <<id, paused, air, changes>>

(* Drop of a Discovery.                                                    *)
GoOffline(d) ==
    /\ d # Me /\ nonce[d] # Off /\ nonce' = [nonce EXCEPT ![d] = Off]
    /\ UNCHANGED <<id, paused, air, peers, heard, nonces, changes>>

(* set_id and set_paused.                                                  *)
Change(d) ==
    /\ changes < MaxChanges /\ changes' = changes + 1
    /\ \/ \E i \in Ids \cup {NoId} : id' = [id EXCEPT ![d] = i]
          /\ UNCHANGED paused
       \/ paused' = [paused EXCEPT ![d] = ~@] /\ UNCHANGED id
    /\ UNCHANGED <<nonce, air, peers, heard, nonces>>

(* send_announce, at a tick of announce_loop.                              *)
SendAnnounce(d) ==
    /\ nonce[d] # Off /\ ~paused[d] /\ Cardinality(air) < MaxAir
    /\ air' = air \cup {[nonce |-> nonce[d], key |-> d, id |-> id[d]]}
    /\ UNCHANGED <<nonce, id, paused, peers, heard, nonces, changes>>

(* The beacons on_datagram takes: of this version, and not our own, which  *)
(* the nonce or, from an earlier instance, the key tells.                  *)
Taken(b) == b.key \notin Foreign /\ b.nonce # nonce[Me] /\ b.key # Me

(* Mutant: room is made although the beacon's nonce has its entry.         *)
RoomForAny(table, n) ==
    IF Cardinality(DOMAIN table) < MAX_PEERS THEN {table}
    ELSE {Without(table, m) : m \in
             {o \in DOMAIN table :
                 \A q \in DOMAIN table : table[o].age >= table[q].age}}

(* At capacity a new nonce takes the place of the oldest entry.            *)
Room(table, n) ==
    IF n \in DOMAIN table \/ Cardinality(DOMAIN table) < MAX_PEERS
    THEN {table}
    ELSE {Without(table, m) : m \in
             {o \in DOMAIN table :
                 \A q \in DOMAIN table : table[o].age >= table[q].age}}

(* on_datagram; the network may keep another copy.                         *)
OnDatagram(b, again) ==
    /\ air' = IF again THEN air ELSE air \ {b}
    /\ IF ~Taken(b) THEN UNCHANGED <<peers, heard>>
       ELSE LET row == [key |-> b.key, id |-> b.id, age |-> 0]
            IN  /\ \E table \in Room(Retained(peers), b.nonce) :
                      peers' = With(table, b.nonce, row)
                /\ heard' = With(heard, b.nonce, row)
    /\ UNCHANGED <<nonce, id, paused, nonces, changes>>

Lose(b) ==
    /\ air' = air \ {b}
    /\ UNCHANGED <<nonce, id, paused, peers, heard, nonces, changes>>

(* Mutant: only on_datagram prunes.                                        *)
ListedUnpruned(table) == table

(* The table as peers() leaves it.                                         *)
Listed(table) == Retained(table)

(* The rows peers() may return: of each key one of its freshest entries.   *)
Rows(table) ==
    {n \in DOMAIN table :
        \A m \in DOMAIN table :
            table[m].key = table[n].key => table[n].age <= table[m].age}

(* peers().                                                                *)
Look ==
    /\ peers' = Listed(peers)
    /\ UNCHANGED <<nonce, id, paused, air, heard, nonces, changes>>

Elapse ==
    /\ peers' = Older(peers) /\ heard' = Older(heard)
    /\ UNCHANGED <<nonce, id, paused, air, nonces, changes>>

DiscoveryNext ==
    \/ \E d \in Keys :
          GoOnline(d) \/ GoOffline(d) \/ Change(d) \/ SendAnnounce(d)
    \/ \E b \in air : Lose(b) \/ OnDatagram(b, TRUE) \/ OnDatagram(b, FALSE)
    \/ Look
    \/ Elapse

DiscoverySpec == DiscoveryInit /\ [][DiscoveryNext]_dvars

-----------------------------------------------------------------------------
(* Properties.                                                             *)

(* What peers() answers is never more than what was heard: every row is    *)
(* the last beacon of its nonce, taken less than PEER_TTL ago, and no      *)
(* later one of the same device was taken; Me is never among them, however *)
(* its own old beacons arrive; the table stays within MAX_PEERS.           *)
PeersRight ==
    LET table == Listed(peers)
    IN  /\ Cardinality(DOMAIN peers) <= MAX_PEERS
        /\ \A n \in Rows(table) :
              /\ table[n].key \notin Foreign \cup {Me}
              /\ table[n].age < PEER_TTL
              /\ n \in DOMAIN heard /\ heard[n] = table[n]
              /\ \A m \in DOMAIN heard :
                    heard[m].key = table[n].key => table[n].age <= heard[m].age

(* A device that was heard within PEER_TTL is on the list, unless          *)
(* MAX_PEERS other nonces were heard since: one device that restarts, or a *)
(* refreshed entry, takes nobody else's place.                             *)
LivePeersKept ==
    \A n \in DOMAIN heard :
        /\ heard[n].age < PEER_TTL
        /\ Cardinality({m \in DOMAIN heard \ {n} :
                           heard[m].age <= heard[n].age}) < MAX_PEERS
        => n \in DOMAIN Listed(peers)
=============================================================================

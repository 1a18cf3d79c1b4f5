---------------------------- MODULE MCPathChoice ----------------------------
(***************************************************************************)
(* Every pair of modes over: two peers of one LAN whose router does, or    *)
(* does not, hairpin; a pair where one NAT is symmetric; and a pair that   *)
(* can reach each other only through the relay.  In StaleLan the private   *)
(* candidate the requester was given now belongs to another device.  One   *)
(* probe per path, and round-trip times on both sides of the margin.       *)
(***************************************************************************)
EXTENDS PathChoice

AllModes == {"Auto", "P2pOnly", "RelayOnly"}

Hairpin   == [open |-> {"pub", "lan"}, symmetric |-> {}, candidate |-> End, stranger |-> {}]
NoHairpin == [Hairpin EXCEPT !.open = {"lan"}]
OneSided  == [open |-> {"pub"}, symmetric |-> {"requester"}, candidate |-> {"host"}, stranger |-> {}]
NoDirect  == [Hairpin EXCEPT !.open = {}, !.candidate = {}]
StaleLan  == [NoDirect EXCEPT !.candidate = {"requester"}, !.stranger = {"requester"}]

Usual == {Hairpin, NoHairpin, OneSided, NoDirect}
Stale == {StaleLan}
=============================================================================

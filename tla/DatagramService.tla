-------------------------- MODULE DatagramService ---------------------------
(***************************************************************************)
(* What an established session promises the two applications: an unordered *)
(* and lossy datagram service in which a message reaches the other end at  *)
(* most once and nothing arrives that the other end did not send.  A       *)
(* message is named by its direction and sequence number.                  *)
(***************************************************************************)
EXTENDS Naturals

CONSTANTS
    Role,       \* the two ends of the session
    Dir,        \* the direction in which each end sends
    Seqs        \* sequence numbers

VARIABLES
    sealed,     \* the messages sent so far
    inbox,      \* for each end, the messages its application was handed
    handed      \* for each end, how many times it was handed one

Message == [dir : {Dir[p] : p \in Role}, seq : Seqs]

Init ==
    /\ sealed = {}
    /\ inbox = [p \in Role |-> {}]
    /\ handed = [p \in Role |-> 0]

\* A message enters the service, under a name never used before.
Send ==
    /\ \E m \in Message :
          /\ m \notin sealed
          /\ sealed' = sealed \cup {m}
    /\ UNCHANGED <<inbox, handed>>

\* A message of the other end that p was not handed yet is handed to it.
Receive(p) ==
    /\ \E m \in sealed :
          /\ m.dir # Dir[p]
          /\ m \notin inbox[p]
          /\ inbox' = [inbox EXCEPT ![p] = @ \cup {m}]
    /\ handed' = [handed EXCEPT ![p] = @ + 1]
    /\ UNCHANGED sealed

Next == Send \/ \E p \in Role : Receive(p)

Spec == Init /\ [][Next]_<<sealed, inbox, handed>>
=============================================================================

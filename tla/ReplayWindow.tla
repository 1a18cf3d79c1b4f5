---------------------------- MODULE ReplayWindow ----------------------------
(***************************************************************************)
(* The anti-replay window of crypto.rs: the highest accepted sequence      *)
(* number and a bitmap of the WINDOW most recent ones, spread over WORDS   *)
(* machine words of BITS bits.  Offset o stands for sequence number        *)
(* high - o and lives in word o \div BITS, bit o % BITS.  A word is the    *)
(* set of its bits that are 1.                                             *)
(*                                                                         *)
(* A window is a record [high, bitmap]; the operators are the methods of   *)
(* `impl ReplayWindow`, as functions from a window to a window.            *)
(***************************************************************************)
EXTENDS Integers

CONSTANTS
    BITS,    \* bits per word (64 in the code)
    WORDS    \* words of the bitmap (16 in the code)

ASSUME SizeAssumption == BITS \in Nat \ {0} /\ WORDS \in Nat \ {0}

WINDOW == WORDS * BITS

Bit  == 0 .. BITS - 1
Word == 0 .. WORDS - 1

NoSeq == -1                  \* `high: None`, before the first datagram

Zeros == [i \in Word |-> {}]

Window == [high : Nat \cup {NoSeq}, bitmap : [Word -> SUBSET Bit]]

Default == [high |-> NoSeq, bitmap |-> Zeros]

get_bit(bm, o) == o % BITS \in bm[o \div BITS]

set_bit(bm, o) == [bm EXCEPT ![o \div BITS] = @ \cup {o % BITS}]

\* `w << n` and `w >> n` of one machine word: bits pushed over an end are lost.
Shl(w, n) == {b \in Bit : b - n \in w}
Shr(w, n) == {b \in Bit : b + n \in w}

\* Mutant: the bits pushed out of a word are not carried into the next.
ShiftWithoutCarry(bm, n) ==
    [i \in Word |-> IF i < n \div BITS THEN {} ELSE Shl(bm[i - n \div BITS], n % BITS)]

\* The multi-word left shift.  The loop runs from the last word down, so it
\* reads only words it has not yet written: the result is this function.
shift(bm, n) ==
    LET ws == n \div BITS
        bs == n % BITS
        Carry(i) == IF i > ws THEN Shr(bm[i - ws - 1], BITS - bs) ELSE {}
    IN  IF n >= WINDOW THEN Zeros
        ELSE [i \in Word |->
                 IF i < ws THEN {}
                 ELSE IF bs = 0 THEN bm[i - ws]
                 ELSE Shl(bm[i - ws], bs) \cup Carry(i)]

\* The verdict of `accept` on seq, and the window it leaves.
Fresh(win, seq) ==
    \/ win.high = NoSeq
    \/ seq > win.high
    \/ win.high - seq < WINDOW /\ ~get_bit(win.bitmap, win.high - seq)

\* Mutant: a late sequence number is let through and not remembered.
RecordOnlyAhead(win, seq) ==
    IF win.high = NoSeq
    THEN [high |-> seq, bitmap |-> set_bit(Zeros, 0)]
    ELSE IF seq > win.high
    THEN [high |-> seq, bitmap |-> set_bit(shift(win.bitmap, seq - win.high), 0)]
    ELSE win

Record(win, seq) ==
    IF win.high = NoSeq
    THEN [high |-> seq, bitmap |-> set_bit(Zeros, 0)]
    ELSE IF seq > win.high
    THEN [high |-> seq, bitmap |-> set_bit(shift(win.bitmap, seq - win.high), 0)]
    ELSE [win EXCEPT !.bitmap = set_bit(@, win.high - seq)]

accept(win, seq) == IF Fresh(win, seq) THEN Record(win, seq) ELSE win
=============================================================================

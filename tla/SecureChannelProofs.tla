------------------------ MODULE SecureChannelProofs -------------------------
(***************************************************************************)
(* Proofs about the data plane: the replay window decides as the set of    *)
(* accepted numbers would (FreshExact, RecordExact), IInv is inductive     *)
(* (InitInv, StepInv), and the properties of SecureChannel follow.         *)
(***************************************************************************)
EXTENDS SecureChannel, TLAPS

\* An offset is its word times the word size plus its bit.
LEMMA DivMod ==
    ASSUME NEW x \in Nat
    PROVE  /\ x \div BITS \in Nat
           /\ x % BITS \in Bit
           /\ x = BITS * (x \div BITS) + (x % BITS)
BY SizeAssumption, Z3 DEF Bit

\* A word and a bit are the quotient and remainder of their offset.
LEMMA DivModUnique ==
    ASSUME NEW q \in Nat, NEW r \in Bit
    PROVE  /\ BITS * q + r \in Nat
           /\ (BITS * q + r) \div BITS = q
           /\ (BITS * q + r) % BITS = r
BY SizeAssumption, Z3 DEF Bit

\* An offset inside the window lies in a word of the bitmap.
LEMMA OffsetWord ==
    ASSUME NEW o \in 0 .. WINDOW - 1
    PROVE  o \in Nat /\ o \div BITS \in Word /\ o % BITS \in Bit
<1>1. o \in Nat /\ WINDOW \in Nat /\ o < WORDS * BITS
  BY SizeAssumption, Z3 DEF WINDOW
<1>2. /\ o \div BITS \in Nat
      /\ o % BITS \in Bit
      /\ o = BITS * (o \div BITS) + (o % BITS)
  BY <1>1, DivMod
<1>3. ASSUME o \div BITS >= WORDS PROVE FALSE
  <2> DEFINE w == o \div BITS
  <2>1. w \in Nat /\ w >= WORDS /\ o >= BITS * w
    BY <1>1, <1>2, <1>3, SizeAssumption DEF Bit
  <2>2. BITS * w >= WORDS * BITS
    BY <2>1, SizeAssumption, Z3
  <2> QED
    BY <1>1, <2>1, <2>2, SizeAssumption, Z3 DEF WINDOW
<1> QED
  BY <1>1, <1>2, <1>3, SizeAssumption DEF Word

\* `shift` of a bitmap is a bitmap.
LEMMA ShiftType ==
    ASSUME NEW bm \in [Word -> SUBSET Bit], NEW n \in Nat
    PROVE  shift(bm, n) \in [Word -> SUBSET Bit]
<1> DEFINE ws == n \div BITS
           bs == n % BITS
<1>1. ws \in Nat /\ bs \in Bit
  BY DivMod
<1>2. \A i \in Word : i >= ws => i - ws \in Word
  BY <1>1, SizeAssumption DEF Word
<1>3. \A w, k : Shl(w, k) \subseteq Bit /\ Shr(w, k) \subseteq Bit
  BY DEF Shl, Shr
<1>4. \A i \in Word : ~(i < ws) => i >= ws
  BY <1>1, SizeAssumption DEF Word
<1> QED
  BY <1>2, <1>3, <1>4 DEF shift, Zeros

\* `shift` moves every bit up by n offsets, across words too: offset o of the
\* result is offset o - n of the bitmap, and the first n offsets are clear.
LEMMA ShiftBit ==
    ASSUME NEW bm \in [Word -> SUBSET Bit], NEW n \in Nat, n < WINDOW,
           NEW o \in 0 .. WINDOW - 1
    PROVE  get_bit(shift(bm, n), o) <=> o >= n /\ get_bit(bm, o - n)
<1> DEFINE w  == o \div BITS
           b  == o % BITS
           ws == n \div BITS
           bs == n % BITS
<1>1. /\ o \in Nat /\ w \in Word /\ w \in Nat /\ b \in Bit
      /\ o = BITS * w + b
  BY OffsetWord, DivMod
<1>2. ws \in Nat /\ bs \in Bit /\ n = BITS * ws + bs
  BY DivMod
<1> HIDE DEF w, b, ws, bs
<1>3. get_bit(shift(bm, n), o) <=> b \in shift(bm, n)[w]
  BY DEF get_bit, w, b
<1>4. CASE w < ws
  <2>1. shift(bm, n)[w] = {}
    BY <1>1, <1>2, <1>4, SizeAssumption DEF shift, ws, WINDOW
  <2>2. o < n
    BY <1>1, <1>2, <1>4, SizeAssumption, Z3 DEF Bit
  <2> QED
    BY <1>3, <2>1, <2>2, <1>1
<1>5. CASE w >= ws /\ bs = 0
  <2>1. shift(bm, n)[w] = bm[w - ws]
    BY <1>1, <1>2, <1>5, SizeAssumption DEF shift, ws, bs, WINDOW
  <2>2. o >= n /\ o - n = BITS * (w - ws) + b /\ w - ws \in Nat
    BY <1>1, <1>2, <1>5, SizeAssumption, Z3 DEF Bit
  <2>3. (o - n) \div BITS = w - ws /\ (o - n) % BITS = b
    BY <1>1, <2>2, DivModUnique
  <2> QED
    BY <1>3, <2>1, <2>2, <2>3 DEF get_bit
<1>6. CASE w >= ws /\ bs # 0
  <2>0. w - ws \in Word /\ (w > ws => w - ws - 1 \in Word)
    BY <1>1, <1>2, <1>6, SizeAssumption DEF Word
  <2>1. shift(bm, n)[w] =
           Shl(bm[w - ws], bs) \cup (IF w > ws THEN Shr(bm[w - ws - 1], BITS - bs) ELSE {})
    BY <1>1, <1>2, <1>6, SizeAssumption DEF shift, ws, bs, WINDOW
  <2>2. CASE b >= bs
    <3>1. o >= n /\ o - n = BITS * (w - ws) + (b - bs) /\ w - ws \in Nat /\ b - bs \in Bit
      BY <1>1, <1>2, <1>6, <2>2, SizeAssumption, Z3 DEF Bit
    <3>2. (o - n) \div BITS = w - ws /\ (o - n) % BITS = b - bs
      BY <3>1, DivModUnique
    <3>3. w > ws => b \notin Shr(bm[w - ws - 1], BITS - bs)
      <4>1. w > ws => bm[w - ws - 1] \subseteq Bit
        BY <2>0
      <4>2. b + (BITS - bs) \notin Bit
        BY <1>1, <1>2, <2>2, SizeAssumption DEF Bit
      <4> QED BY <4>1, <4>2 DEF Shr
    <3>4. b \in Shl(bm[w - ws], bs) <=> b - bs \in bm[w - ws]
      BY <1>1 DEF Shl
    <3> QED
      BY <1>3, <2>1, <3>1, <3>2, <3>3, <3>4 DEF get_bit
  <2>3. CASE b < bs
    <3>1. b \notin Shl(bm[w - ws], bs)
      <4>1. bm[w - ws] \subseteq Bit /\ b - bs \notin Bit
        BY <2>0, <2>3, <1>1, <1>2 DEF Bit
      <4> QED BY <4>1 DEF Shl
    <3>2. CASE w = ws
      <4>1. o < n
        BY <1>1, <1>2, <2>3, <3>2, SizeAssumption, Z3 DEF Bit
      <4> QED
        BY <1>1, <1>2, <1>3, <2>1, <3>1, <3>2, <4>1, SizeAssumption DEF Word
    <3>3. CASE w > ws
      <4>1. /\ o >= n
            /\ o - n = BITS * (w - ws - 1) + (b + BITS - bs)
            /\ w - ws - 1 \in Nat
            /\ b + BITS - bs \in Bit
        BY <1>1, <1>2, <2>3, <3>3, SizeAssumption, Z3 DEF Bit
      <4>2. (o - n) \div BITS = w - ws - 1 /\ (o - n) % BITS = b + BITS - bs
        BY <4>1, DivModUnique
      <4>3. b \in Shr(bm[w - ws - 1], BITS - bs) <=> b + BITS - bs \in bm[w - ws - 1]
        <5>1. b + (BITS - bs) = b + BITS - bs
          BY <1>1, <1>2, SizeAssumption DEF Bit
        <5> QED BY <1>1, <5>1 DEF Shr
      <4> QED
        BY <1>3, <2>1, <3>1, <3>3, <4>1, <4>2, <4>3 DEF get_bit
    <3> QED
      BY <3>2, <3>3, <1>1, <1>2, <1>6
  <2> QED
    BY <2>2, <2>3, <1>1, <1>2, SizeAssumption DEF Bit
<1> QED
  BY <1>4, <1>5, <1>6, <1>1, <1>2

\* `set_bit` sets one offset and leaves the others alone.
LEMMA SetBit ==
    ASSUME NEW bm \in [Word -> SUBSET Bit],
           NEW k \in 0 .. WINDOW - 1, NEW o \in 0 .. WINDOW - 1
    PROVE  /\ set_bit(bm, k) \in [Word -> SUBSET Bit]
           /\ get_bit(set_bit(bm, k), o) <=> o = k \/ get_bit(bm, o)
<1>1. /\ k \in Nat /\ k \div BITS \in Word /\ k % BITS \in Bit
      /\ o \in Nat /\ o \div BITS \in Word /\ o % BITS \in Bit
  BY OffsetWord
<1>2. o \div BITS = k \div BITS /\ o % BITS = k % BITS => o = k
  BY <1>1, DivMod
<1> QED
  BY <1>1, <1>2 DEF set_bit, get_bit

\* The cleared bitmap has no bit set.
LEMMA ZerosBit ==
    ASSUME NEW o \in 0 .. WINDOW - 1
    PROVE  Zeros \in [Word -> SUBSET Bit] /\ ~get_bit(Zeros, o)
BY OffsetWord DEF Zeros, get_bit

\* The window is not empty.
LEMMA WindowPositive == WINDOW \in Nat /\ 0 \in 0 .. WINDOW - 1
BY SizeAssumption, Z3 DEF WINDOW

(***************************************************************************)
(* The verdict of a window that remembers acc is the reference one.        *)
(***************************************************************************)
LEMMA FreshExact ==
    ASSUME NEW win \in Window, NEW acc \in SUBSET Nat, Remembers(win, acc),
           NEW s \in Nat
    PROVE  Fresh(win, s) <=> s \notin acc /\ \A a \in acc : a - s < WINDOW
<1>0. WINDOW \in Nat /\ 0 \in 0 .. WINDOW - 1
  BY WindowPositive
<1>1. CASE win.high = NoSeq
  BY <1>1 DEF Remembers, Fresh
<1>2. CASE win.high # NoSeq
  <2>1. /\ win.high \in Nat /\ win.high \in acc
        /\ \A a \in acc : a \in Nat /\ a <= win.high
        /\ \A o \in 0 .. WINDOW - 1 : get_bit(win.bitmap, o) <=> win.high - o \in acc
    BY <1>2 DEF Remembers, Window
  <2>2. CASE s > win.high
    BY <1>0, <2>1, <2>2 DEF Fresh
  <2>3. CASE s <= win.high /\ win.high - s < WINDOW
    <3>1. win.high - s \in 0 .. WINDOW - 1 /\ win.high - (win.high - s) = s
      BY <1>0, <2>1, <2>3
    <3>2. get_bit(win.bitmap, win.high - s) <=> s \in acc
      BY <2>1, <3>1
    <3>3. \A a \in acc : a - s < WINDOW
      BY <1>0, <2>1, <2>3
    <3>4. Fresh(win, s) <=> ~get_bit(win.bitmap, win.high - s)
      BY <1>2, <2>1, <2>3 DEF Fresh
    <3> QED BY <3>2, <3>3, <3>4
  <2>4. CASE ~(win.high - s < WINDOW)
    <3>1. ~(s > win.high)
      BY <1>0, <2>1, <2>4
    <3> QED BY <1>2, <2>1, <2>4, <3>1 DEF Fresh
  <2> QED BY <2>1, <2>2, <2>3, <2>4
<1> QED BY <1>1, <1>2

(***************************************************************************)
(* Recording a fresh number keeps the window exact: the slide, its carry   *)
(* between words and the bit set at the new offset lose and invent nothing *)
(* inside the window.                                                      *)
(***************************************************************************)
LEMMA RecordExact ==
    ASSUME NEW win \in Window, NEW acc \in SUBSET Nat, Remembers(win, acc),
           NEW s \in Nat, Fresh(win, s)
    PROVE  Record(win, s) \in Window /\ Remembers(Record(win, s), acc \cup {s})
<1> DEFINE new == Record(win, s)
<1>0. WINDOW \in Nat /\ 0 \in 0 .. WINDOW - 1 /\ NoSeq \notin Nat /\ s # NoSeq
  BY WindowPositive DEF NoSeq
<1>1. CASE win.high = NoSeq
  <2>1. new = [high |-> s, bitmap |-> set_bit(Zeros, 0)] /\ acc = {}
    BY <1>1 DEF Record, Remembers
  <2>2. \A o \in 0 .. WINDOW - 1 : get_bit(set_bit(Zeros, 0), o) <=> o = 0
    BY <1>0, SetBit, ZerosBit
  <2>3. set_bit(Zeros, 0) \in [Word -> SUBSET Bit]
    BY <1>0, SetBit, ZerosBit
  <2>4. \A o \in 0 .. WINDOW - 1 : s - o = s <=> o = 0
    BY <1>0
  <2> QED BY <1>0, <2>1, <2>2, <2>3, <2>4 DEF Remembers, Window
<1>2. CASE win.high # NoSeq /\ s > win.high
  <2>1. /\ win.high \in Nat /\ win.high \in acc /\ win.bitmap \in [Word -> SUBSET Bit]
        /\ \A a \in acc : a \in Nat /\ a <= win.high
        /\ \A o \in 0 .. WINDOW - 1 : get_bit(win.bitmap, o) <=> win.high - o \in acc
    BY <1>2 DEF Remembers, Window
  <2> DEFINE n  == s - win.high
             sh == shift(win.bitmap, n)
  <2>2. new = [high |-> s, bitmap |-> set_bit(sh, 0)]
    BY <1>2 DEF Record
  <2>3. n \in Nat /\ n >= 1 /\ s = win.high + n
    BY <1>2, <2>1
  <2>4. sh \in [Word -> SUBSET Bit]
    BY <2>1, <2>3, ShiftType
  <2>5. ASSUME NEW o \in 0 .. WINDOW - 1
        PROVE  get_bit(sh, o) <=> s - o \in acc
    <3>1. CASE n < WINDOW
      <4>1. get_bit(sh, o) <=> o >= n /\ get_bit(win.bitmap, o - n)
        BY <2>1, <2>3, <3>1, ShiftBit
      <4>2. CASE o >= n
        <5>1. o - n \in 0 .. WINDOW - 1 /\ win.high - (o - n) = s - o
          BY <1>0, <2>1, <2>3, <4>2
        <5> QED BY <2>1, <4>1, <4>2, <5>1
      <4>3. CASE o < n
        <5>1. s - o > win.high
          BY <2>1, <2>3, <4>3
        <5>2. s - o \notin acc
          BY <2>1, <5>1
        <5>3. ~(o >= n)
          BY <2>3, <4>3
        <5> QED BY <4>1, <5>2, <5>3
      <4> QED BY <2>3, <4>2, <4>3
    <3>2. CASE n >= WINDOW
      <4>1. sh = Zeros
        BY <3>2 DEF shift
      <4>2. s - o > win.high
        BY <1>0, <2>1, <2>3, <3>2
      <4>3. s - o \notin acc
        BY <2>1, <4>2
      <4> QED BY <4>1, <4>3, ZerosBit
    <3> QED BY <1>0, <2>3, <3>1, <3>2
  <2>6. set_bit(sh, 0) \in [Word -> SUBSET Bit]
    BY <1>0, <2>4, SetBit
  <2>7. ASSUME NEW o \in 0 .. WINDOW - 1
        PROVE  get_bit(set_bit(sh, 0), o) <=> s - o \in acc \cup {s}
    <3>1. get_bit(set_bit(sh, 0), o) <=> o = 0 \/ get_bit(sh, o)
      BY <1>0, <2>4, SetBit
    <3>2. s - o = s <=> o = 0
      BY <1>0
    <3> QED BY <2>5, <3>1, <3>2
  <2>8. \A a \in acc \cup {s} : a <= s
    BY <1>2, <2>1
  <2> HIDE DEF sh
  <2> QED BY <1>0, <2>2, <2>6, <2>7, <2>8 DEF Remembers, Window
<1>3. CASE win.high # NoSeq /\ ~(s > win.high)
  <2>1. /\ win.high \in Nat /\ win.high \in acc /\ win.bitmap \in [Word -> SUBSET Bit]
        /\ \A a \in acc : a \in Nat /\ a <= win.high
        /\ \A o \in 0 .. WINDOW - 1 : get_bit(win.bitmap, o) <=> win.high - o \in acc
    BY <1>3 DEF Remembers, Window
  <2> DEFINE k == win.high - s
  <2>2. k \in 0 .. WINDOW - 1
    BY <1>0, <1>3, <2>1 DEF Fresh
  <2>3. new = [high |-> win.high, bitmap |-> set_bit(win.bitmap, k)]
    BY <1>3 DEF Record, Window
  <2>4. set_bit(win.bitmap, k) \in [Word -> SUBSET Bit]
    BY <2>1, <2>2, SetBit
  <2>5. ASSUME NEW o \in 0 .. WINDOW - 1
        PROVE  get_bit(set_bit(win.bitmap, k), o) <=> win.high - o \in acc \cup {s}
    <3>1. get_bit(set_bit(win.bitmap, k), o) <=> o = k \/ get_bit(win.bitmap, o)
      BY <2>1, <2>2, SetBit
    <3>2. win.high - o = s <=> o = k
      BY <1>0, <2>1
    <3> QED BY <2>1, <3>1, <3>2
  <2>6. \A a \in acc \cup {s} : a <= win.high
    BY <1>3, <2>1
  <2> HIDE DEF k
  <2> QED BY <1>0, <2>1, <2>3, <2>4, <2>5, <2>6 DEF Remembers, Window
<1> QED BY <1>1, <1>2, <1>3

(***************************************************************************)
(* The invariant is inductive.                                             *)
(***************************************************************************)
LEMMA InitInv == Init => IInv
<1> SUFFICES ASSUME Init PROVE IInv
  OBVIOUS
<1>1. Default \in Window /\ Default.high = NoSeq
  BY DEF Default, Window, Zeros
<1>2. TypeOK
  BY <1>1 DEF Init, TypeOK
<1>3. WindowInv
  BY <1>1 DEF Init, WindowInv, Remembers
<1>4. SendInv
  BY ChannelAssumption DEF Init, SendInv
<1>5. ReceiveInv
  BY DEF Init, ReceiveInv
<1> QED BY <1>2, <1>3, <1>4, <1>5 DEF IInv

\* The steps that touch only `phase`.
LEMMA PhaseStepInv ==
    ASSUME IInv, NEW p \in Role,
           Attach(p) \/ DropHandle(p) \/ RemoveEntry(p)
    PROVE  IInv'
<1>1. /\ UNCHANGED <<send_seq, task, sealed, rx, recv_window, inbox, handed, accepted>>
      /\ phase' \in [Role -> {"pending", "live", "dropped", "removed"}]
  BY DEF Attach, DropHandle, RemoveEntry, IInv, TypeOK
<1>2. TypeOK' /\ WindowInv' /\ SendInv' /\ ReceiveInv'
  BY <1>1 DEF IInv, TypeOK, WindowInv, SendInv, ReceiveInv
<1> QED BY <1>2 DEF IInv

\* Taking a sequence number under the lock keeps every number with one task.
LEMMA SendSnapshotInv ==
    ASSUME IInv, NEW p \in Role, NEW t \in Tasks, SendSnapshot(p, t)
    PROVE  IInv'
<1> USE DEF IInv
<1>0. /\ send_seq[p] \in Nat /\ MaxSend[p] \in Nat /\ Idle \notin Nat
      /\ send_seq[p] < MaxSend[p]
  BY ChannelAssumption DEF TypeOK, SendSnapshot
<1>1. TypeOK'
  BY <1>0 DEF SendSnapshot, TypeOK
<1>2. WindowInv' /\ ReceiveInv'
  BY DEF SendSnapshot, WindowInv, ReceiveInv
<1>3. SendInv'
  <2>1. /\ send_seq' = [send_seq EXCEPT ![p] = @ + 1]
        /\ task' = [task EXCEPT ![p][t] = send_seq[p]]
        /\ sealed' = sealed
    BY DEF SendSnapshot
  <2>2. \A q \in Role : /\ send_seq[q] \in Nat /\ send_seq'[q] \in Nat
                        /\ send_seq[q] <= send_seq'[q]
                        /\ send_seq'[q] <= MaxSend[q]
    BY <1>0, <2>1, ChannelAssumption DEF TypeOK, SendInv
  <2>3. \A c \in sealed' : \E q \in Role : c.dir = send_dir(q) /\ c.seq < send_seq'[q]
    <3> SUFFICES ASSUME NEW c \in sealed
                 PROVE  \E q \in Role : c.dir = send_dir(q) /\ c.seq < send_seq'[q]
      BY <2>1
    <3>1. PICK q \in Role : c.dir = send_dir(q) /\ c.seq < send_seq[q]
      BY DEF SendInv
    <3>2. c.seq \in Nat
      BY DEF TypeOK, Ciphertext
    <3> QED BY <2>2, <3>1, <3>2
  <2>4. nonce(p, send_seq[p]) \notin sealed
    <3> SUFFICES ASSUME nonce(p, send_seq[p]) \in sealed PROVE FALSE
      OBVIOUS
    <3>1. PICK q \in Role : send_dir(p) = send_dir(q) /\ send_seq[p] < send_seq[q]
      BY DEF SendInv, nonce
    <3>2. p = q
      BY <3>1 DEF send_dir, Role
    <3> QED BY <1>0, <3>1, <3>2
  <2>5. ASSUME NEW q \in Role, NEW u \in Tasks, task'[q][u] # Idle
        PROVE  /\ task'[q][u] < send_seq'[q]
               /\ nonce(q, task'[q][u]) \notin sealed
               /\ \A v \in Tasks : task'[q][v] = task'[q][u] => v = u
    <3>1. CASE q # p
      <4>1. task'[q] = task[q] /\ send_seq'[q] = send_seq[q]
        BY <2>1, <3>1 DEF TypeOK
      <4> QED BY <2>5, <4>1 DEF SendInv
    <3>2. CASE q = p /\ u # t
      <4>1. /\ task'[q][u] = task[q][u] /\ task'[q][t] = send_seq[q]
            /\ \A v \in Tasks \ {t} : task'[q][v] = task[q][v]
        BY <2>1, <3>2 DEF TypeOK
      <4>2. task[q][u] < send_seq[q] /\ task[q][u] \in Nat
        BY <2>5, <4>1 DEF SendInv, TypeOK
      <4>3. task'[q][t] # task'[q][u] /\ task'[q][u] < send_seq'[q]
        BY <2>2, <4>1, <4>2
      <4> QED BY <2>5, <3>2, <4>1, <4>3 DEF SendInv
    <3>3. CASE q = p /\ u = t
      <4>1. /\ task'[q][u] = send_seq[q] /\ send_seq'[q] = send_seq[q] + 1
            /\ \A v \in Tasks \ {t} : task'[q][v] = task[q][v]
        BY <2>1, <3>3 DEF TypeOK
      <4>2. \A v \in Tasks \ {t} : task[q][v] # send_seq[q]
        BY <1>0, <3>3 DEF SendInv
      <4> QED BY <1>0, <2>4, <3>3, <4>1, <4>2
    <3> QED BY <3>1, <3>2, <3>3
  <2> QED BY <2>1, <2>2, <2>3, <2>5 DEF SendInv
<1> QED BY <1>1, <1>2, <1>3

\* Sealing spends the number the task took.
LEMMA SendSealedInv ==
    ASSUME IInv, NEW p \in Role, NEW t \in Tasks, SendSealed(p, t)
    PROVE  IInv' /\ nonce(p, task[p][t]) \in Ciphertext \ sealed
<1> USE DEF IInv
<1> DEFINE c == nonce(p, task[p][t])
<1>0. /\ task[p][t] \in Nat /\ task[p][t] # Idle /\ task[p][t] < send_seq[p]
      /\ c \notin sealed /\ c \in Ciphertext
      /\ sealed' = sealed \cup {c}
      /\ task' = [task EXCEPT ![p][t] = Idle]
      /\ UNCHANGED <<phase, send_seq, rx, recv_window, inbox, handed, accepted>>
  BY DEF SendSealed, TypeOK, SendInv, nonce, send_dir, Ciphertext
<1>1. TypeOK'
  BY <1>0 DEF TypeOK
<1>2. WindowInv' /\ ReceiveInv'
  BY <1>0 DEF WindowInv, ReceiveInv
<1>3. SendInv'
  <2>1. \A d \in sealed' : \E q \in Role : d.dir = send_dir(q) /\ d.seq < send_seq'[q]
    BY <1>0 DEF SendInv, nonce
  <2>2. ASSUME NEW q \in Role, NEW u \in Tasks, task'[q][u] # Idle
        PROVE  /\ task'[q][u] < send_seq'[q]
               /\ nonce(q, task'[q][u]) \notin sealed'
               /\ \A v \in Tasks : task'[q][v] = task'[q][u] => v = u
    <3>1. /\ task'[q][u] = task[q][u] /\ (q # p \/ u # t)
          /\ \A v \in Tasks : task'[q][v] \in {task[q][v], Idle}
      BY <1>0, <2>2 DEF TypeOK
    <3>2. nonce(q, task[q][u]) # c
      <4>1. CASE q # p
        BY <4>1 DEF nonce, send_dir, Role
      <4>2. CASE q = p
        <5>1. task[p][u] # task[p][t]
          BY <1>0, <3>1, <4>2 DEF SendInv
        <5> QED BY <4>2, <5>1 DEF nonce
      <4> QED BY <4>1, <4>2
    <3>3. \A v \in Tasks : task'[q][v] = task'[q][u] => v = u
      BY <2>2, <3>1 DEF SendInv
    <3> QED BY <1>0, <2>2, <3>1, <3>2, <3>3 DEF SendInv
  <2> QED BY <1>0, <2>1, <2>2 DEF SendInv
<1> QED BY <1>0, <1>1, <1>2, <1>3

\* A failed send spends its number without using it.
LEMMA SendErrorInv ==
    ASSUME IInv, NEW p \in Role, NEW t \in Tasks, SendError(p, t)
    PROVE  IInv'
<1> USE DEF IInv
<1>1. TypeOK'
  BY DEF SendError, TypeOK
<1>2. WindowInv' /\ ReceiveInv'
  BY DEF SendError, WindowInv, ReceiveInv
<1>3. SendInv'
  <2>1. \A q \in Role, u \in Tasks : task'[q][u] \in {task[q][u], Idle}
    BY DEF SendError, TypeOK
  <2> QED BY <2>1 DEF SendError, SendInv
<1> QED BY <1>1, <1>2, <1>3

\* The receive loop picks up only what was sealed, or garbage.
LEMMA DeliverSnapshotInv ==
    ASSUME IInv, NEW p \in Role, DeliverSnapshot(p)
    PROVE  IInv'
<1> USE DEF IInv
<1>1. PICK dg \in Datagrams :
         rx' = [rx EXCEPT ![p] =
                   [seq |-> dg[1], ct |-> dg[2], tx |-> phase[p] # "pending"]]
  BY DEF DeliverSnapshot
<1>2. dg[1] \in Nat /\ dg[2] \in sealed \cup {Garbage}
  <2>1. CASE dg \in {<<d.seq, d>> : d \in sealed}
    <3>1. PICK d \in sealed : dg = <<d.seq, d>>
      BY <2>1
    <3> QED BY <3>1 DEF TypeOK, Ciphertext
  <2>2. CASE dg \in Forged \X {Garbage}
    BY <2>2, ChannelAssumption
  <2> QED BY <2>1, <2>2 DEF Datagrams
<1>3. [seq |-> dg[1], ct |-> dg[2], tx |-> phase[p] # "pending"] \in Inbound
  BY <1>2 DEF Inbound, TypeOK
<1>4. TypeOK'
  BY <1>1, <1>3 DEF DeliverSnapshot, TypeOK
<1>5. WindowInv' /\ SendInv'
  BY DEF DeliverSnapshot, WindowInv, SendInv
<1>6. ReceiveInv'
  BY <1>1, <1>2 DEF DeliverSnapshot, ReceiveInv, TypeOK
<1> QED BY <1>4, <1>5, <1>6

\* Opening keeps the window in step with the numbers it let through.
LEMMA DeliverOpenInv ==
    ASSUME IInv, NEW p \in Role, DeliverOpen(p)
    PROVE  IInv'
<1> USE DEF IInv
<1> DEFINE s == rx[p].seq
           c == rx[p].ct
<1>0. /\ rx[p] \in Inbound /\ s \in Nat /\ c \in sealed \cup {Garbage}
      /\ recv_window[p] \in Window /\ accepted[p] \in SUBSET Nat
      /\ Remembers(recv_window[p], accepted[p])
  BY DEF DeliverOpen, TypeOK, ReceiveInv, WindowInv, Inbound
<1>1. /\ recv_window' = [recv_window EXCEPT ![p] = NextWindow(p, s, c)]
      /\ accepted' = [accepted EXCEPT ![p] = IF Opens(p, s, c) THEN @ \cup {s} ELSE @]
      /\ inbox' = [inbox EXCEPT ![p] = IF HandsOver(p) THEN @ \cup {c} ELSE @]
      /\ handed' = [handed EXCEPT ![p] = IF HandsOver(p) THEN @ + 1 ELSE @]
      /\ rx' = [rx EXCEPT ![p] = Idle]
      /\ UNCHANGED <<phase, send_seq, task, sealed>>
  BY DEF DeliverOpen
<1>2. /\ NextWindow(p, s, c) \in Window
      /\ Remembers(NextWindow(p, s, c), IF Opens(p, s, c) THEN accepted[p] \cup {s} ELSE accepted[p])
  <2>1. CASE Opens(p, s, c)
    BY <1>0, <2>1, RecordExact DEF Opens, NextWindow, accept
  <2>2. CASE ~Opens(p, s, c)
    BY <1>0, <2>2 DEF Opens, NextWindow, accept
  <2> QED BY <2>1, <2>2
<1>3. HandsOver(p) => /\ Opens(p, s, c) /\ c \in sealed /\ c.seq = s
                      /\ c.dir # send_dir(p)
  BY <1>0 DEF HandsOver, Opens, Authentic, recv_dir, send_dir
<1>4. TypeOK'
  <2>1. recv_window' \in [Role -> Window] /\ accepted' \in [Role -> SUBSET Nat]
    BY <1>0, <1>1, <1>2 DEF TypeOK
  <2>2. inbox' \in [Role -> SUBSET Ciphertext] /\ handed' \in [Role -> Nat]
    BY <1>0, <1>1, <1>3 DEF TypeOK
  <2>3. rx' \in [Role -> Inbound \cup {Idle}]
    BY <1>1 DEF TypeOK
  <2> QED BY <1>1, <2>1, <2>2, <2>3 DEF TypeOK
<1>5. WindowInv'
  BY <1>0, <1>1, <1>2 DEF WindowInv, TypeOK
<1>6. SendInv'
  BY <1>1 DEF SendInv
<1>7. ReceiveInv'
  <2> SUFFICES ASSUME NEW q \in Role
               PROVE  /\ rx'[q] # Idle => rx'[q].ct \in sealed' \cup {Garbage}
                      /\ \A d \in inbox'[q] : /\ d \in sealed' /\ d.dir # send_dir(q)
                                              /\ d.seq \in accepted'[q]
    BY DEF ReceiveInv
  <2>1. rx'[q] # Idle => rx'[q].ct \in sealed' \cup {Garbage}
    BY <1>1 DEF ReceiveInv, TypeOK
  <2>2. accepted[q] \subseteq accepted'[q]
    BY <1>1 DEF TypeOK
  <2>3. ASSUME NEW d \in inbox'[q], d \notin inbox[q]
        PROVE  q = p /\ HandsOver(p) /\ d = c
    BY <1>1, <2>3 DEF TypeOK
  <2>4. HandsOver(p) => s \in accepted'[p]
    BY <1>1, <1>3 DEF TypeOK
  <2> HIDE DEF s, c
  <2> QED BY <1>1, <1>3, <2>1, <2>2, <2>3, <2>4 DEF ReceiveInv
<1> QED BY <1>4, <1>5, <1>6, <1>7

\* Every step of the data plane preserves the invariant.
LEMMA StepInv == IInv /\ [Next]_vars => IInv'
<1> SUFFICES ASSUME IInv, [Next]_vars PROVE IInv'
  OBVIOUS
<1>1. CASE UNCHANGED vars
  BY <1>1 DEF vars, IInv, TypeOK, WindowInv, SendInv, ReceiveInv
<1>2. CASE Next
  <2>1. PICK p \in Role :
           \/ Attach(p) \/ DropHandle(p) \/ RemoveEntry(p)
           \/ \E t \in Tasks : SendSnapshot(p, t)
           \/ \E t \in Tasks : SendSealed(p, t)
           \/ \E t \in Tasks : SendError(p, t)
           \/ DeliverSnapshot(p)
           \/ DeliverOpen(p)
    BY <1>2 DEF Next
  <2> QED
    BY <2>1, PhaseStepInv, SendSnapshotInv, SendSealedInv, SendErrorInv,
       DeliverSnapshotInv, DeliverOpenInv
<1> QED BY <1>1, <1>2

-----------------------------------------------------------------------------

\* The inductive invariant holds in every reachable state.
THEOREM Invariance == Spec => []IInv
BY InitInv, StepInv, PTL DEF Spec

\* Type correctness of the data plane: in particular `shift` and `set_bit` of
\* crypto.rs keep every bit inside its word and every word inside the bitmap.
THEOREM TypeCorrect == Spec => []TypeOK
<1>1. IInv => TypeOK
  BY DEF IInv
<1> QED BY Invariance, <1>1, PTL

\* For every width and number of words, `ReplayWindow::accept` decides exactly
\* as the set of accepted numbers would, whatever the network delivers.
THEOREM WindowDecides == Spec => []DecisionExact
<1>1. IInv => DecisionExact
  <2> SUFFICES ASSUME IInv, NEW p \in Role, NEW s \in Seqs
               PROVE  Fresh(recv_window[p], s) <=>
                         s \notin accepted[p] /\ \A a \in accepted[p] : a - s < WINDOW
    BY DEF DecisionExact
  <2>1. s \in Nat
    BY ChannelAssumption DEF Seqs, Role
  <2>2. /\ recv_window[p] \in Window /\ accepted[p] \in SUBSET Nat
        /\ Remembers(recv_window[p], accepted[p])
    BY DEF IInv, TypeOK, WindowInv
  <2> QED BY <2>1, <2>2, FreshExact
<1> QED BY Invariance, <1>1, PTL

\* No nonce of a session key seals twice, for any number of sending tasks:
\* `send_payload` takes its sequence number and bumps the counter in one
\* critical section, although it seals outside.
THEOREM NoncesUsedOnce == Spec => NonceOnce
<1>1. IInv /\ [Next]_vars =>
         [\A p \in Role, t \in Tasks :
             SendSealed(p, t) => nonce(p, task[p][t]) \notin sealed]_vars
  BY SendSealedInv
<1> QED BY Invariance, <1>1, PTL DEF Spec, NonceOnce

\* The two ends implement the abstract datagram service: a plaintext reaches
\* the application at most once, at the other end, and only if it was sent.
THEOREM ImplementsService == Spec => ServiceSpec
<1>1. Init => Service!Init
  BY DEF Init, Service!Init
<1>2. IInv /\ [Next]_vars => [Service!Next]_<<sealed, inbox, handed>>
  <2> SUFFICES ASSUME IInv, Next PROVE Service!Next \/ UNCHANGED <<sealed, inbox, handed>>
    BY DEF vars
  <2>1. PICK p \in Role :
           \/ Attach(p) \/ DropHandle(p) \/ RemoveEntry(p)
           \/ \E t \in Tasks : SendSnapshot(p, t)
           \/ \E t \in Tasks : SendSealed(p, t)
           \/ \E t \in Tasks : SendError(p, t)
           \/ DeliverSnapshot(p)
           \/ DeliverOpen(p)
    BY DEF Next
  <2>2. ASSUME NEW t \in Tasks, SendSealed(p, t) PROVE Service!Send
    <3> DEFINE m == nonce(p, task[p][t])
    <3>1. m \notin sealed /\ sealed' = sealed \cup {m} /\ UNCHANGED <<inbox, handed>>
      BY <2>2, SendSealedInv DEF SendSealed
    <3>2. /\ task[p][t] \in Nat /\ task[p][t] < send_seq[p] /\ send_seq[p] <= MaxSend[p]
          /\ send_seq[p] \in Nat
      BY <2>2 DEF SendSealed, IInv, TypeOK, SendInv
    <3>3. task[p][t] \in Seqs
      BY <3>2, ChannelAssumption DEF Seqs, Role
    <3>4. m \in Service!Message
      BY <3>3 DEF nonce, Service!Message
    <3> QED BY <3>1, <3>4 DEF Service!Send
  <2>3. ASSUME DeliverOpen(p), HandsOver(p) PROVE Service!Receive(p)
    <3> DEFINE s == rx[p].seq
               c == rx[p].ct
    <3>1. /\ Opens(p, s, c) /\ c \in sealed /\ c.seq = s /\ c.dir # send_dir(p)
      BY <2>3 DEF DeliverOpen, HandsOver, Opens, Authentic, recv_dir, send_dir,
                  IInv, ReceiveInv
    <3>2. s \in Nat /\ s \notin accepted[p]
      <4>1. /\ s \in Nat /\ recv_window[p] \in Window /\ accepted[p] \in SUBSET Nat
            /\ Remembers(recv_window[p], accepted[p])
        BY <2>3 DEF DeliverOpen, IInv, TypeOK, WindowInv, Inbound
      <4> QED BY <3>1, <4>1, FreshExact DEF Opens
    <3>3. c \notin inbox[p]
      BY <3>1, <3>2 DEF IInv, ReceiveInv
    <3>4. /\ inbox' = [inbox EXCEPT ![p] = @ \cup {c}]
          /\ handed' = [handed EXCEPT ![p] = @ + 1]
          /\ UNCHANGED sealed
      BY <2>3 DEF DeliverOpen
    <3> QED BY <3>1, <3>3, <3>4 DEF Service!Receive
  <2>4. ASSUME DeliverOpen(p), ~HandsOver(p) PROVE UNCHANGED <<sealed, inbox, handed>>
    BY <2>4 DEF DeliverOpen, IInv, TypeOK
  <2> QED
    BY <2>1, <2>2, <2>3, <2>4 DEF Service!Next, Attach, DropHandle, RemoveEntry,
       SendSnapshot, SendError, DeliverSnapshot
<1> QED BY Invariance, <1>1, <1>2, PTL DEF Spec, ServiceSpec, Service!Spec
=============================================================================

---------------------------- MODULE ReedSolomon ----------------------------
(***************************************************************************)
(* The erasure code behind Fec's "rs" parity (reed-solomon-erasure): the   *)
(* field's tables (build.rs, galois_8.rs), the matrices (matrix.rs) and    *)
(* the codec with its cache of decode matrices and the shard-by-shard      *)
(* encoder (core.rs).  The code is generic over the field; here it is      *)
(* GF(FIELD_SIZE), small enough to enumerate.  A shard is one element: the *)
(* slices of the code are worked on element by element.  Rows and columns  *)
(* count from 0 as in the code.                                            *)
(***************************************************************************)
EXTENDS Integers, Sequences, FiniteSets, SequencesExt, Bitwise

CONSTANTS
    FIELD_SIZE,   \* order of the field (256)
    POLYNOMIAL,   \* its generating polynomial without the leading bit (29)
    Codecs,       \* pairs <<data shards, parity shards>>
    Symbols,      \* elements the data shards are made of
    CAPACITY,     \* capacity of the cache of decode matrices (254)
    MaxRounds     \* bound: words sent through one codec, and losses

VARIABLES
    codec,        \* <<data_shard_count, parity_shard_count>>
    data,         \* the data the caller means
    shards,       \* the caller's shards, data and parity; None is missing
    ready,        \* whether the parity shards are those of the data
    cur_input,    \* ShardByShard's position
    cache,        \* data_decode_matrix_cache: <<invalid rows, matrix>>,
                  \* least recently used first
    last,         \* the last call and its result
    rounds        \* words and losses so far

cvars == <<codec, data, shards, ready, cur_input, cache, last, rounds>>

None == -1
Elem == 0 .. FIELD_SIZE - 1

-----------------------------------------------------------------------------
(* The field.                                                              *)

(* gen_log_table's walk through the powers of the generator.               *)
Powers ==
    LET step(b) == IF FIELD_SIZE <= 2 * b
                   THEN (2 * b - FIELD_SIZE) ^^ POLYNOMIAL ELSE 2 * b
        pow[i \in 0 .. FIELD_SIZE - 2] == IF i = 0 THEN 1
                                          ELSE step(pow[i - 1])
    IN  pow

LOG_TABLE == [a \in Elem \ {0} |->
                CHOOSE i \in 0 .. FIELD_SIZE - 2 : Powers[i] = a]
EXP_TABLE == [i \in 0 .. 2 * FIELD_SIZE - 3 |-> Powers[i % (FIELD_SIZE - 1)]]
MUL_TABLE == [a \in Elem |-> [b \in Elem |->
                IF a = 0 \/ b = 0 THEN 0
                ELSE EXP_TABLE[LOG_TABLE[a] + LOG_TABLE[b]]]]
XorTable == [a \in Elem |-> [b \in Elem |-> a ^^ b]]

add(a, b) == XorTable[a][b]
mul(a, b) == MUL_TABLE[a][b]
div(a, b) ==
    IF a = 0 THEN 0
    ELSE LET log == LOG_TABLE[a] - LOG_TABLE[b]
         IN  EXP_TABLE[IF log < 0 THEN log + FIELD_SIZE - 1 ELSE log]
exp(a, n) == IF n = 0 THEN 1
             ELSE IF a = 0 THEN 0
             ELSE EXP_TABLE[(LOG_TABLE[a] * n) % (FIELD_SIZE - 1)]

(* The sum of f[i] for i in 0 .. n - 1.                                    *)
Total(f, n) ==
    LET sum[i \in 0 .. n] == IF i = 0 THEN 0 ELSE add(sum[i - 1], f[i - 1])
    IN  sum[n]

-----------------------------------------------------------------------------
(* Matrices: a function from rows to functions from columns.               *)

Singular == <<>>
Rows(n) == 0 .. n - 1

multiply(a, b, rows, inner, cols) ==
    [r \in Rows(rows) |-> [c \in Rows(cols) |->
        Total([i \in Rows(inner) |-> mul(a[r][i], b[i][c])], inner)]]

(* Adds a multiple of row r to each of the rows, clearing their column r.  *)
ClearColumn(mat, r, rows) ==
    [i \in DOMAIN mat |->
        IF i \notin rows THEN mat[i]
        ELSE [c \in DOMAIN mat[i] |->
                 add(mat[i][c], mul(mat[i][r], mat[r][c]))]]

SwapRows(mat, r, s) == [mat EXCEPT ![r] = mat[s], ![s] = mat[r]]

(* One round of gaussian_elim's first loop.                                *)
Eliminate(mat, r, n) ==
    LET pivots == {b \in r .. n - 1 : mat[b][r] # 0}
        pivot == CHOOSE b \in pivots : \A o \in pivots : b <= o
        up == SwapRows(mat, r, pivot)
        one == [up EXCEPT ![r] = [c \in DOMAIN @ |->
                                     mul(div(1, up[r][r]), @[c])]]
    IN  IF mat = Singular \/ pivots = {} THEN Singular
        ELSE ClearColumn(one, r, r + 1 .. n - 1)

gaussian_elim(mat, n) ==
    LET down[r \in 0 .. n] == IF r = 0 THEN mat
                              ELSE Eliminate(down[r - 1], r - 1, n)
        up[d \in 0 .. n] == IF d = 0 THEN down[n]
                            ELSE ClearColumn(up[d - 1], d - 1, 0 .. d - 2)
    IN  IF down[n] = Singular THEN Singular ELSE up[n]

(* invert: eliminate beside the identity and keep the right half.          *)
invert(mat, n) ==
    LET work == gaussian_elim(
                  [r \in Rows(n) |-> [c \in Rows(2 * n) |->
                      IF c < n THEN mat[r][c]
                      ELSE IF c - n = r THEN 1 ELSE 0]], n)
    IN  [r \in Rows(n) |-> [c \in Rows(n) |-> work[r][n + c]]]

vandermonde(rows, cols) ==
    [r \in Rows(rows) |-> [c \in Rows(cols) |-> exp(r, c)]]

build_matrix(k, total) ==
    LET v == vandermonde(total, k)
    IN  multiply(v, invert(v, k), total, k, k)

(* ReedSolomon::new: the matrix of every codec.                            *)
Matrices == [c \in Codecs |-> build_matrix(c[1], c[1] + c[2])]

-----------------------------------------------------------------------------
(* The codec.                                                              *)

K == codec[1]
N == codec[1] + codec[2]
Row(i) == Matrices[codec][i]

(* code_some_slices with one row of a matrix.                              *)
Coded(row, input) == Total([i \in Rows(K) |-> mul(row[i], input[i])], K)

Present == {i \in Rows(N) : shards[i] # None}
Ascending(S) == SetToSortSeq(S, <)

(* The first K shards at hand, and the rows that are missing.              *)
ValidRows == SubSeq(Ascending(Present), 1, K)
InvalidRows == Ascending(Rows(N) \ Present)

(* Mutant: the cache is keyed by the missing data rows only.               *)
CacheKeyDataOnly == Ascending(Rows(K) \ Present)

CacheKey == InvalidRows

Cached == {i \in DOMAIN cache : cache[i][1] = CacheKey}

(* get_data_decode_matrix: from the cache, or inverted and put there, the  *)
(* entry used last at the end and the least recently used dropped.         *)
DecodeMatrix ==
    IF Cached # {} THEN cache[CHOOSE i \in Cached : TRUE][2]
    ELSE LET rows == ValidRows
         IN  invert([r \in Rows(K) |-> Row(rows[r + 1])], K)

CacheAfter ==
    LET key == CacheKey
        others == SelectSeq(cache, LAMBDA e : e[1] # key)
        kept == IF Len(others) >= CAPACITY THEN Tail(others) ELSE others
    IN  Append(kept, <<key, DecodeMatrix>>)

(* reconstruct_internal, past its checks: the missing data shards from the *)
(* shards at hand, then, unless data_only, the parity from all the data.   *)
Reconstructed(data_only) ==
    LET rows == ValidRows
        matrix == DecodeMatrix
        sub_shards == [i \in Rows(K) |-> shards[rows[i + 1]]]
        whole == [i \in Rows(K) |-> IF i \in Present THEN shards[i]
                                    ELSE Coded(matrix[i], sub_shards)]
    IN  [i \in Rows(N) |->
            IF i < K THEN whole[i]
            ELSE IF i \in Present \/ data_only THEN shards[i]
            ELSE Coded(Row(i), whole)]

-----------------------------------------------------------------------------
CInit ==
    /\ codec \in Codecs
    /\ data \in [Rows(K) -> Symbols]
    /\ shards = [i \in Rows(N) |-> IF i < K THEN data[i] ELSE 0]
    /\ ready = FALSE /\ cur_input = 0 /\ cache = <<>>
    /\ last = <<"new", "ok">> /\ rounds = 0

(* The caller fills the shards for the next word; the parity slots keep    *)
(* what they held.                                                         *)
NewWord(w) ==
    /\ rounds < MaxRounds /\ cur_input \in {0, K}
    /\ data' = w /\ ready' = FALSE /\ rounds' = rounds + 1
    /\ shards' = [i \in Rows(N) |-> IF i < K THEN w[i]
                                    ELSE IF shards[i] = None THEN 0
                                    ELSE shards[i]]
    /\ last' = <<"word", "ok">>
    /\ UNCHANGED <<codec, cur_input, cache>>

(* encode: every parity row over all the data.                             *)
Encode ==
    /\ Present = Rows(N) /\ cur_input \in {0, K}
    /\ shards' = [i \in Rows(N) |-> IF i < K THEN shards[i]
                                    ELSE Coded(Row(i), shards)]
    /\ ready' = TRUE /\ last' = <<"encode", "ok">>
    /\ UNCHANGED <<codec, data, cur_input, cache, rounds>>

(* ShardByShard::encode: the first data shard overwrites the parity, each  *)
(* further one is added to it.                                             *)
EncodeSingle ==
    /\ Present = Rows(N)
    /\ IF cur_input = K
       THEN /\ last' = <<"single", "TooManyCalls">>
            /\ UNCHANGED <<shards, ready, cur_input>>
       ELSE /\ shards' = [i \in Rows(N) |->
                 LET part == mul(Row(i)[cur_input], shards[cur_input])
                 IN  IF i < K THEN shards[i]
                     ELSE IF cur_input = 0 THEN part
                     ELSE add(shards[i], part)]
            /\ cur_input' = cur_input + 1
            /\ ready' = (cur_input + 1 = K)
            /\ last' = <<"single", "ok">>
    /\ UNCHANGED <<codec, data, cache, rounds>>

(* ShardByShard::reset.                                                    *)
ResetSingle ==
    /\ cur_input # 0
    /\ IF cur_input < K
       THEN last' = <<"reset", "LeftoverShards">> /\ UNCHANGED cur_input
       ELSE last' = <<"reset", "ok">> /\ cur_input' = 0
    /\ UNCHANGED <<codec, data, shards, ready, cache, rounds>>

(* Any of the shards are lost on the way.                                  *)
Erase(lost) ==
    /\ rounds < MaxRounds /\ rounds' = rounds + 1
    /\ ready /\ Present = Rows(N) /\ lost # {}
    /\ shards' = [i \in Rows(N) |-> IF i \in lost THEN None ELSE shards[i]]
    /\ last' = <<"erase", "ok">>
    /\ UNCHANGED <<codec, data, ready, cur_input, cache>>

(* reconstruct and reconstruct_data.                                       *)
Reconstruct(data_only) ==
    /\ ready
    /\ IF Present = Rows(N)
       THEN last' = <<"reconstruct", "ok">> /\ UNCHANGED <<shards, cache>>
       ELSE IF Cardinality(Present) < K
       THEN /\ last' = <<"reconstruct", "TooFewShardsPresent">>
            /\ UNCHANGED <<shards, cache>>
       ELSE /\ shards' = Reconstructed(data_only)
            /\ cache' = CacheAfter
            /\ last' = <<"reconstruct", "ok">>
    /\ UNCHANGED <<codec, data, ready, cur_input, rounds>>

(* verify: does a fresh encoding give the parity at hand?                  *)
Verify ==
    /\ Present = Rows(N)
    /\ last' = <<"verify", IF \A i \in K .. N - 1 :
                                  shards[i] = Coded(Row(i), shards)
                           THEN "true" ELSE "false">>
    /\ UNCHANGED <<codec, data, shards, ready, cur_input, cache, rounds>>

CNext ==
    \/ \E w \in [Rows(K) -> Symbols] : NewWord(w)
    \/ Encode
    \/ EncodeSingle
    \/ ResetSingle
    \/ \E lost \in SUBSET Rows(N) : Erase(lost)
    \/ \E data_only \in BOOLEAN : Reconstruct(data_only)
    \/ Verify

-----------------------------------------------------------------------------
(* Properties.                                                             *)

(* The reference: the parity of row x is the value at x of the one         *)
(* polynomial of degree below K that takes the data as its values at       *)
(* 0 .. K - 1 (Lagrange's formula; no matrix is involved).                 *)
ValueAt(x) ==
    Total([i \in Rows(K) |->
        mul(data[i],
            LET over[j \in 0 .. K] ==
                    IF j = 0 THEN 1
                    ELSE IF j - 1 = i THEN over[j - 1]
                    ELSE mul(over[j - 1], div(add(x, j - 1), add(i, j - 1)))
            IN  over[K])], K)

(* Whatever the order of encodings, losses and reconstructions, and        *)
(* whichever decode matrix came from the cache, every shard at hand is the *)
(* one the data determine; reconstruct succeeds only with every data shard *)
(* there and gives up only with fewer than K at hand.                      *)
ShardsRight ==
    /\ ready \/ last = <<"verify", "true">>
          => \A i \in Present : shards[i] = ValueAt(i)
    /\ last = <<"reconstruct", "ok">> => Rows(K) \subseteq Present
    /\ last = <<"reconstruct", "TooFewShardsPresent">>
          => Cardinality(Present) < K
=============================================================================

----------------------------- MODULE GoldenMXU -----------------------------
(***************************************************************************)
(* The matrix unit of the golden executor: packed 4-bit weights, integer   *)
(* products accumulated tile by tile, and scaled per block of the          *)
(* reduction axis.  Scales are integers here, sums of scaled products      *)
(* exact.                                                                  *)
(***************************************************************************)
EXTENDS Integers, Sequences, FiniteSetsExt

CONSTANTS
    Shapes,       \* <<M, K, N>> tried
    Activations,  \* activation values
    Weights,      \* weight values, in -8..7
    Scales,       \* block scales
    Groups,       \* group sizes along K
    Height, Width,  \* the tile: H and W
    AccHalf       \* accumulators hold -AccHalf..AccHalf-1 (2^31)

MxuAssumption ==
    /\ Weights \subseteq -8..7 /\ Groups \subseteq Nat \ {0}
    /\ Height \in Nat \ {0} /\ Width \in Nat \ {0} /\ AccHalf \in Nat \ {0}

VARIABLES
    shape,    \* M, K, N
    weights,  \* the weights, row by row
    packed,   \* the bytes they are packed into
    acts,     \* the activations, row by row
    blocks,   \* group size and scales of the blocks; a group of 0: no scaling
    tiles,    \* tiles still to compute
    result    \* <<m, n>> -> value

vars == <<shape, weights, packed, acts, blocks, tiles, result>>

M == shape[1]
K == shape[2]
N == shape[3]

CeilDiv(a, b) == (a + b - 1) \div b

-----------------------------------------------------------------------------
\* two weights in a byte, the first in the low half; a missing one is 0
Nibble(w) == IF w < 0 THEN w + 16 ELSE w
At(s, i) == IF i \in DOMAIN s THEN s[i] ELSE 0
Pack(w) == [b \in 1..CeilDiv(Len(w), 2) |->
               Nibble(At(w, 2 * b - 1)) + 16 * Nibble(At(w, 2 * b))]


\* Faulty: the nibble 8 is taken for positive.
SignedAboveEight(nibble) == IF nibble > 8 THEN nibble - 16 ELSE nibble

Signed(nibble) == IF nibble > 7 THEN nibble - 16 ELSE nibble
Unpack(bytes) == [i \in 1..(2 * Len(bytes)) |->
                     LET byte == bytes[(i + 1) \div 2] IN
                     Signed(IF i % 2 = 1 THEN byte % 16 ELSE byte \div 16)]

\* an accumulator of 32 bits wraps around; what it holds is then clipped to 32 bits
Accumulate(x) == ((x + AccHalf) % (2 * AccHalf)) - AccHalf
Clip(x) == IF x > AccHalf - 1 THEN AccHalf - 1 ELSE IF x < -AccHalf THEN -AccHalf ELSE x

SumOf(S, Term(_)) == MapThenSumSet(Term, S)

\* row m of the activations times column n of the weights, over some of the axis
Dot(w, m, n, ks) ==
    Clip(Accumulate(SumOf(ks, LAMBDA k : acts[(m - 1) * K + k] * At(w, (k - 1) * N + n))))

Group == blocks.group
Block(b) == ((b - 1) * Group + 1)..(IF b * Group < K THEN b * Group ELSE K)

-----------------------------------------------------------------------------
Tiles(s, group) ==
    IF group = 0 THEN (0..(CeilDiv(s[1], Height) - 1)) \X (0..(CeilDiv(s[3], Width) - 1))
    ELSE {0} \X (0..(CeilDiv(s[3], Width) - 1))

Init ==
    /\ shape \in Shapes
    /\ weights \in [1..(K * N) -> Weights] /\ packed = Pack(weights)
    /\ acts \in [1..(M * K) -> Activations]
    /\ \E g \in Groups \cup {0} :
          \E s \in [(1..(IF g = 0 THEN 0 ELSE CeilDiv(K, g))) \X (1..N) -> Scales] :
             blocks = [group |-> g, scale |-> s]
    /\ tiles = Tiles(shape, Group)
    /\ result = [mn \in (1..M) \X (1..N) |-> 0]

Columns(t) == {n \in 1..N : (n - 1) \div Width = t[2]}
Rows(t) == {m \in 1..M : (m - 1) \div Height = t[1]}

\* One tile of matmul_int32.
IntegerTile(t) ==
    /\ t \in tiles /\ Group = 0
    /\ LET w == Unpack(packed) IN
       result' = [mn \in DOMAIN result |->
                     IF mn[1] \in Rows(t) /\ mn[2] \in Columns(t)
                     THEN Dot(w, mn[1], mn[2], 1..K) ELSE result[mn]]
    /\ tiles' = tiles \ {t}
    /\ UNCHANGED <<shape, weights, packed, acts, blocks>>

\* One column tile of matmul_int4_per_block, over all blocks.
ScaledTile(t) ==
    /\ t \in tiles /\ Group # 0
    /\ LET w == Unpack(packed) IN
       result' = [mn \in DOMAIN result |->
                     IF mn[2] \in Columns(t)
                     THEN result[mn] +
                          SumOf(1..CeilDiv(K, Group),
                                LAMBDA b : Dot(w, mn[1], mn[2], Block(b))
                                              * blocks.scale[<<b, mn[2]>>])
                     ELSE result[mn]]
    /\ tiles' = tiles \ {t}
    /\ UNCHANGED <<shape, weights, packed, acts, blocks>>

Next == \E t \in tiles : IntegerTile(t) \/ ScaledTile(t)

Spec == Init /\ [][Next]_vars

-----------------------------------------------------------------------------
Product(m, n) ==
    SumOf(1..K, LAMBDA k :
        acts[(m - 1) * K + k] * weights[(k - 1) * N + n]
            * (IF Group = 0 THEN 1 ELSE blocks.scale[<<CeilDiv(k, Group), n>>]))

\* The tiled product over packed weights is the matrix product of the original ones,
\* each scaled by its block's scale: no tile boundary, partial tile, odd number of
\* weights, negative nibble or short last block loses or repeats a term.
TiledIsProduct ==
    tiles = {} => \A mn \in DOMAIN result : result[mn] = Product(mn[1], mn[2])

=============================================================================

-------------------------------- MODULE Rice --------------------------------
(***************************************************************************)
(* RICE_1: one tile of integers to a stream of bits and back               *)
(* (src/src/infra/fits/compress/rice_encode.rs and rice.rs).  The byte     *)
(* buffers of both are bit sequences here; the decoder's reservoir is a    *)
(* position.                                                               *)
(***************************************************************************)
EXTENDS Integers, Sequences, FiniteSets, SequencesExt

\* The parameters of a coder, by BYTEPIX.
Coder(bytepix, blocksize) ==
  CASE bytepix = 1 -> [fsbits |-> 3, fsmax |-> 6, width |-> 8, signed |-> FALSE, blocksize |-> blocksize]
    [] bytepix = 2 -> [fsbits |-> 4, fsmax |-> 14, width |-> 16, signed |-> TRUE, blocksize |-> blocksize]

Bits(v, n) == [k \in 1 .. n |-> (v \div 2^(n - k)) % 2]
Number(bits) == FoldLeft(LAMBDA v, b : 2 * v + b, 0, bits)
Wrap(v, c) == v % 2^c.width
SignExtend(v, c) == IF v >= 2^(c.width - 1) THEN v - 2^c.width ELSE v

\* Small differences of either sign become small naturals.
Zigzag(d) == IF d >= 0 THEN 2 * d ELSE -2 * d - 1
Unzigzag(u) == IF u % 2 = 0 THEN u \div 2 ELSE -(u \div 2) - 1

\* The difference to the pixel before; the first has itself before it.
Delta(pixels, i, c) ==
  IF i = 1 THEN 0 ELSE Zigzag(SignExtend(Wrap(pixels[i] - pixels[i - 1], c), c))

Cost(us, fs) == FoldLeft(LAMBDA n, u : n + (u \div 2^fs) + 1 + fs, 0, us)

\* The splits the encoder tries.
Splits(c) == 0 .. c.fsmax - 1

\* One block: a mark, and each difference as a unary quotient and a remainder,
\* or as it is when that is shorter.  A mark of 0 is a block without change.
Block(us, c) ==
  LET fs == CHOOSE f \in Splits(c) : \A g \in Splits(c) :
              Cost(us, f) < Cost(us, g) \/ (Cost(us, f) = Cost(us, g) /\ f <= g)
      split(u) == [k \in 1 .. u \div 2^fs |-> 0] \o <<1>> \o Bits(u, fs)
      plain(u) == Bits(u, c.width)
  IN
  IF \A k \in DOMAIN us : us[k] = 0 THEN Bits(0, c.fsbits)
  ELSE IF Len(us) * c.width < Cost(us, fs)
  THEN Bits(c.fsmax + 1, c.fsbits) \o FlattenSeq([k \in DOMAIN us |-> plain(us[k])])
  ELSE Bits(fs + 1, c.fsbits) \o FlattenSeq([k \in DOMAIN us |-> split(us[k])])

\* rice_encode: the first pixel, the blocks, and zeros up to a byte.
Encode(pixels, c) ==
  LET n == Len(pixels)
      us == [i \in 1 .. n |-> Delta(pixels, i, c)]
      count == (n + c.blocksize - 1) \div c.blocksize
      last(k) == IF k = count THEN n ELSE k * c.blocksize
      blocks == [k \in 1 .. count |-> Block(SubSeq(us, (k - 1) * c.blocksize + 1, last(k)), c)]
      bits == Bits(Wrap(pixels[1], c), c.width) \o FlattenSeq(blocks)
  IN IF n = 0 THEN << >> ELSE bits \o [k \in 1 .. (-Len(bits)) % 8 |-> 0]

-----------------------------------------------------------------------------
(* rice_decode, pixel by pixel.  at is the number of bits used up; fs is the
   mark of the block less one. *)

\* n bits of the stream; past its end the program panics, here are zeros.
Take(s, at, n) == [k \in 1 .. n |-> IF at + k <= Len(s) THEN s[at + k] ELSE 0]
Quotient(s, at) ==
  LET ones == {k \in at + 1 .. Len(s) : s[k] = 1} IN
  IF ones = {} THEN 0 ELSE (CHOOSE k \in ones : \A j \in ones : k <= j) - at - 1

ReadMark(d, s, c) ==
  IF Len(d.out) % c.blocksize # 0 THEN d
  ELSE [d EXCEPT !.fs = Number(Take(s, d.at, c.fsbits)) - 1, !.at = @ + c.fsbits]

ReadPixel(d, s, c) ==
  LET q == Quotient(s, d.at)
      u == CASE d.fs < 0 -> 0
             [] d.fs = c.fsmax -> Number(Take(s, d.at, c.width))
             [] OTHER -> q * 2^d.fs + Number(Take(s, d.at + q + 1, d.fs))
      used == CASE d.fs < 0 -> 0
                [] d.fs = c.fsmax -> c.width
                [] OTHER -> q + 1 + d.fs
      v == Wrap(Unzigzag(u) + d.last, c)
  IN [d EXCEPT !.at = @ + used, !.last = v, !.out = Append(@, v)]

Decode(s, n, c) ==
  LET d[k \in 0 .. n] ==
        IF k = 0
        THEN [at |-> c.width, last |-> Number(Take(s, 0, c.width)), fs |-> 0, out |-> << >>]
        ELSE ReadPixel(ReadMark(d[k - 1], s, c), s, c)
  IN d[n]

Pixels(d, c) ==
  [i \in DOMAIN d.out |-> IF c.signed THEN SignExtend(d.out[i], c) ELSE d.out[i]]
=============================================================================

---------------------------- MODULE PartsProofs ----------------------------
(***************************************************************************)
(* Proofs about parts of files and of images.  RawServe, for files of any  *)
(* length, any renditions and any number of breaks and changes: a file     *)
(* that keeps still is served byte for byte.  Regions, for images and      *)
(* requests of any size: every part that is taken is the one asked for.    *)
(***************************************************************************)
EXTENDS RawServe, Regions, FiniteSetTheorems, WellFoundedInduction, TLAPS

-----------------------------------------------------------------------------
(* Division, by a divisor that is not known *)

LEMMA ProductOrder ==
  ASSUME NEW a \in Int, NEW b \in Int, NEW m \in Nat, a <= b
  PROVE  a * m <= b * m
<1>1. (b - a) * m >= 0
  OBVIOUS
<1> QED
  BY <1>1

LEMMA Division ==
  ASSUME NEW a \in Int, NEW b \in Nat \ {0}
  PROVE  /\ a \div b \in Int /\ a % b \in Int
         /\ a = b * (a \div b) + (a % b)
         /\ 0 <= a % b /\ a % b < b
OBVIOUS

LEMMA QuotientAtMost ==
  ASSUME NEW a \in Int, NEW b \in Nat \ {0}, NEW q \in Int
  PROVE  a \div b <= q <=> a < (q + 1) * b
<1> DEFINE d == a \div b  r == a % b
<1>1. d \in Int /\ r \in Int /\ a = b * d + r /\ 0 <= r /\ r < b
  BY Division
<1> HIDE DEF d, r
<1>2. ASSUME d <= q PROVE a < (q + 1) * b
  <2>1. (d + 1) * b <= (q + 1) * b
    BY <1>1, <1>2, ProductOrder
  <2>2. (d + 1) * b = b * d + b
    BY <1>1
  <2>3. (q + 1) * b \in Int
    OBVIOUS
  <2> QED
    BY <1>1, <2>1, <2>2, <2>3
<1>3. ASSUME d > q PROVE ~(a < (q + 1) * b)
  <2>1. (q + 1) * b <= d * b
    BY <1>1, <1>3, ProductOrder
  <2>2. d * b = b * d
    BY <1>1
  <2>3. (q + 1) * b \in Int
    OBVIOUS
  <2> QED
    BY <1>1, <2>1, <2>2, <2>3
<1> QED
  BY <1>1, <1>2, <1>3 DEF d

\* The quotient and the rest are known by their bounds.
LEMMA RestIs ==
  ASSUME NEW q \in Int, NEW m \in Nat \ {0}, NEW r \in 0 .. m - 1
  PROVE  (q * m + r) % m = r /\ (q * m + r) \div m = q
<1> DEFINE a == q * m + r
<1>1. a \in Int /\ a < (q + 1) * m /\ ~(a < ((q - 1) + 1) * m)
  <2>1. (q + 1) * m = q * m + m /\ ((q - 1) + 1) * m = q * m /\ q * m \in Int
    OBVIOUS
  <2> QED
    BY <2>1
<1>2. a \div m \in Int /\ a % m \in Int /\ a = m * (a \div m) + (a % m)
  BY <1>1, Division
<1>3. a \div m <= q /\ ~(a \div m <= q - 1)
  <2> HIDE DEF a
  <2>1. a \div m <= q
    BY <1>1, QuotientAtMost
  <2>2. ~(a \div m <= q - 1)
    BY <1>1, QuotientAtMost
  <2> QED
    BY <2>1, <2>2
<1>4. a \div m = q
  <2> HIDE DEF a
  <2> QED
    BY <1>2, <1>3
<1>5. m * q = q * m
  OBVIOUS
<1>6. a % m = r
  <2> DEFINE x == q * m
  <2>1. x \in Int /\ a = x + r /\ m * q = x
    BY <1>5
  <2>2. a = m * q + (a % m)
    BY <1>2, <1>4
  <2> HIDE DEF a, x
  <2> QED
    BY <1>2, <2>1, <2>2
<1> QED
  BY <1>4, <1>6

-----------------------------------------------------------------------------
(* Regions *)

\* A far edge that an i64 holds is the sum, although the cast of the side may wrap.
LEMMA FarIs ==
  ASSUME NEW x0 \in -Top .. Top - 1, NEW w \in 1 .. 2 * Top - 1, x0 + w < Top
  PROVE  Far(x0, w) = x0 + w
<1> USE TopAssumption
<1> DEFINE m == 2 * Top
<1>1. m \in Nat \ {0}
  OBVIOUS
<1>2. ASSUME NEW v \in Int, -Top <= v, v < Top PROVE Int64(v) = v
  <2>1. v + Top \in 0 .. m - 1 /\ 0 * m + (v + Top) = v + Top
    BY <1>2
  <2> HIDE DEF m
  <2>2. (v + Top) % m = v + Top
    BY <1>1, <2>1, RestIs
  <2> QED
    BY <2>2 DEF Int64, m
<1>3. ASSUME NEW v \in Int, -Top <= v, v < Top PROVE Int64(v - m) = v /\ Int64(v + m) = v
  <2>1. v + Top \in 0 .. m - 1 /\ (-1) * m + (v + Top) = v - m + Top /\ 1 * m + (v + Top) = v + m + Top
    BY <1>3
  <2> HIDE DEF m
  <2>2. (v - m + Top) % m = v + Top /\ (v + m + Top) % m = v + Top
    BY <1>1, <2>1, RestIs
  <2> QED
    BY <2>2 DEF Int64, m
<1>4. CASE w < Top
  BY <1>2, <1>4 DEF Far
<1>5. CASE w >= Top
  <2>1. w - m \in Int /\ -Top <= w - m /\ w - m < Top /\ (w - m) + m = w
    BY <1>5
  <2>2. Int64(w) = w - m
    <3> HIDE DEF m
    <3> QED
      BY <1>1, <1>3, <2>1
  <2>3. x0 + w \in Int /\ -Top <= x0 + w /\ x0 + (w - m) = (x0 + w) - m
    BY <1>5
  <2>4. Int64((x0 + w) - m) = x0 + w
    <3> HIDE DEF m
    <3> QED
      BY <1>3, <2>3
  <2> HIDE DEF m
  <2> QED
    BY <2>2, <2>3, <2>4 DEF Far
<1> QED
  BY <1>4, <1>5


\* What is cut from an axis, and what is asked of it.
AxisFacts(x0, w, n, X, I, c, k) ==
  /\ c.at \in Nat /\ c.len \in Nat
  /\ c.at .. c.at + c.len - 1 = X \cap I
  /\ c.len = 0 <=> X \cap I = {}
  /\ Inside(x0, w, n) <=> X \subseteq I
  /\ Inside(x0, w, n) => x0 .. x0 + w - 1 = X \cap I
  /\ k.at \in Nat /\ k.len \in Nat
  /\ k.at .. k.at + k.len - 1 = NearestOn(x0, w, n)
  /\ (k.at = x0 /\ k.len = w) <=> X \subseteq I
  /\ Cardinality(X \cap I) = Overlap(x0, w, n) /\ IsFiniteSet(X \cap I)
  /\ Cardinality(X) = w /\ IsFiniteSet(X)

LEMMA AxisIs ==
  ASSUME NEW x0 \in -Top .. Top - 1, NEW w \in 1 .. 2 * Top - 1, NEW n \in Sides64, x0 + w < Top
  PROVE  AxisFacts(x0, w, n, x0 .. x0 + w - 1, 0 .. n - 1, Cut(x0, w, n), Nearest(x0, w, n))
<1> USE TopAssumption
<1> SUFFICES ASSUME NEW X, X = x0 .. x0 + w - 1, NEW I, I = 0 .. n - 1,
                    NEW c, c = Cut(x0, w, n), NEW k, k = Nearest(x0, w, n)
             PROVE  AxisFacts(x0, w, n, X, I, c, k)
  OBVIOUS
<1> DEFINE a == IF x0 < 0 THEN 0 ELSE IF x0 < n THEN x0 ELSE n
           e == IF x0 + w < 0 THEN 0 ELSE IF x0 + w < n THEN x0 + w ELSE n
           l == IF e > a THEN e - a ELSE 0
<1>1. n \in Nat /\ n >= 1 /\ w \in Nat /\ w >= 1 /\ x0 \in Int
  BY DEF Sides64
<1>2. Far(x0, w) = x0 + w
  BY FarIs
<1>3. a \in Nat /\ e \in Nat /\ l \in Nat
  BY <1>1
<1>4. c = [at |-> a, len |-> l]
  BY <1>1, <1>2 DEF Cut, Clamp, Most, Lesser
<1>5. a .. a + l - 1 = X \cap I
  BY <1>1
<1>6. l = 0 <=> X \cap I = {}
  <2>1. l # 0 => a \in X \cap I
    BY <1>1
  <2>2. l = 0 => X \cap I = {}
    BY <1>1
  <2> QED
    BY <2>1, <2>2
<1>7. Inside(x0, w, n) <=> X \subseteq I
  <2>1. x0 \in X /\ x0 + w - 1 \in X
    BY <1>1
  <2>2. X \subseteq I => x0 >= 0 /\ x0 + w <= n
    BY <1>1, <2>1
  <2>3. x0 >= 0 /\ x0 + w <= n => X \subseteq I
    BY <1>1
  <2> QED
    BY <1>2, <2>2, <2>3 DEF Inside
<1>8. k = IF l > 0 THEN [at |-> a, len |-> l] ELSE [at |-> IF x0 < 0 THEN 0 ELSE n - 1, len |-> 1]
  <2>1. c.at = a /\ c.len = l
    BY <1>4
  <2>2. l = 0 => Most(Lesser(a, n - 1), 0) = IF x0 < 0 THEN 0 ELSE n - 1
    BY <1>1 DEF Most, Lesser
  <2>3. k = IF l > 0 THEN c ELSE [at |-> Most(Lesser(a, n - 1), 0), len |-> 1]
    BY <2>1 DEF Nearest
  <2> HIDE DEF a, l
  <2> QED
    BY <1>3, <1>4, <2>2, <2>3
<1>9. NearestOn(x0, w, n) = IF l > 0 THEN a .. a + l - 1 ELSE IF x0 < 0 THEN {0} ELSE {n - 1}
  <2> HIDE DEF a, e, l
  <2>1. NearestOn(x0, w, n) = IF X \cap I # {} THEN X \cap I ELSE IF x0 < 0 THEN {0} ELSE {n - 1}
    BY DEF NearestOn
  <2>2. l > 0 <=> X \cap I # {}
    BY <1>3, <1>6
  <2> QED
    BY <1>5, <2>1, <2>2, Zenon
<1>10. k.at \in Nat /\ k.len \in Nat /\ k.at .. k.at + k.len - 1 = NearestOn(x0, w, n)
  <2>1. CASE l > 0
    <3> HIDE DEF a, e, l
    <3>1. k.at = a /\ k.len = l
      BY <1>8, <2>1
    <3> QED
      BY <1>3, <1>9, <2>1, <3>1
  <2>2. CASE ~(l > 0)
    <3> DEFINE f == IF x0 < 0 THEN 0 ELSE n - 1
    <3>1. k.at = f /\ k.len = 1
      <4> HIDE DEF a, e, l
      <4>1. k = [at |-> f, len |-> 1]
        BY <1>8, <2>2
      <4> HIDE DEF f
      <4> QED
        BY <4>1
    <3>2. NearestOn(x0, w, n) = {f}
      BY <1>9, <2>2
    <3>3. f \in Nat /\ f .. f + 1 - 1 = {f}
      BY <1>1
    <3> HIDE DEF f
    <3> QED
      BY <3>1, <3>2, <3>3
  <2> QED
    BY <2>1, <2>2
<1>11. (k.at = x0 /\ k.len = w) <=> X \subseteq I
  <2>1. X \subseteq I <=> x0 >= 0 /\ x0 + w <= n
    BY <1>2, <1>7 DEF Inside
  <2>2. k.at = (IF l > 0 THEN a ELSE IF x0 < 0 THEN 0 ELSE n - 1) /\ k.len = IF l > 0 THEN l ELSE 1
    BY <1>8
  <2>3. ((IF l > 0 THEN a ELSE IF x0 < 0 THEN 0 ELSE n - 1) = x0 /\ (IF l > 0 THEN l ELSE 1) = w) <=> x0 >= 0 /\ x0 + w <= n
    BY <1>1
  <2> QED
    BY <2>1, <2>2, <2>3
<1>12. Cardinality(X \cap I) = Overlap(x0, w, n) /\ IsFiniteSet(X \cap I)
  <2>1. IsFiniteSet(a .. a + l - 1) /\ Cardinality(a .. a + l - 1) = IF a > a + l - 1 THEN 0 ELSE (a + l - 1) - a + 1
    <3> HIDE DEF a, l
    <3>1. a \in Int /\ a + l - 1 \in Int
      BY <1>3
    <3> QED
      BY <3>1, FS_Interval
  <2>2. (IF a > a + l - 1 THEN 0 ELSE (a + l - 1) - a + 1) = l
    <3> HIDE DEF a, l
    <3> QED
      BY <1>3
  <2>3. Overlap(x0, w, n) = l
    BY <1>1, <1>2 DEF Overlap, Most, Lesser
  <2> QED
    BY <1>5, <2>1, <2>2, <2>3
<1>13. Cardinality(X) = w /\ IsFiniteSet(X)
  <2>1. x0 + w - 1 \in Int
    BY <1>1
  <2> QED
    BY <1>1, <2>1, FS_Interval
<1> HIDE DEF a, e, l
<1>14. c.at = a /\ c.len = l
  BY <1>4
<1> QED
  BY <1>3, <1>5, <1>6, <1>7, <1>10, <1>11, <1>12, <1>13, <1>14 DEF AxisFacts

ProductFacts(A, B, C, D) ==
  /\ (A \X B) \cap (C \X D) = (A \cap C) \X (B \cap D)
  /\ A \X B \subseteq C \X D <=> A \subseteq C /\ B \subseteq D
  /\ (A \X B) \cap (C \X D) = {} <=> A \cap C = {} \/ B \cap D = {}

LEMMA Products ==
  ASSUME NEW A, NEW B, NEW C, NEW D, A # {}, B # {}
  PROVE  ProductFacts(A, B, C, D)
<1>1. (A \X B) \cap (C \X D) = (A \cap C) \X (B \cap D)
  OBVIOUS
<1>2. ASSUME A \X B \subseteq C \X D PROVE A \subseteq C /\ B \subseteq D
  <2>1. PICK a \in A, b \in B : TRUE
    OBVIOUS
  <2>2. ASSUME NEW x \in A PROVE x \in C
    <3>1. <<x, b>> \in C \X D
      BY <1>2, <2>1
    <3> QED
      BY <3>1
  <2>3. ASSUME NEW y \in B PROVE y \in D
    <3>1. <<a, y>> \in C \X D
      BY <1>2, <2>1
    <3> QED
      BY <3>1
  <2> QED
    BY <2>2, <2>3
<1>3. A \subseteq C /\ B \subseteq D => A \X B \subseteq C \X D
  OBVIOUS
<1>4. ASSUME NEW a \in A \cap C, NEW b \in B \cap D PROVE <<a, b>> \in (A \X B) \cap (C \X D)
  OBVIOUS
<1>5. A \cap C = {} \/ B \cap D = {} => (A \cap C) \X (B \cap D) = {}
  OBVIOUS
<1> QED
  BY <1>1, <1>2, <1>3, <1>4, <1>5 DEF ProductFacts

\* What is asked for has sides, and a corner within an i64.
LEMMA AskedIs ==
  ASSUME NEW spec \in PixelRegions \cup SkyRegions, NEW img, Objection(spec, img) = "none"
  PROVE  /\ Asked(spec).x0 \in -Top .. Top - 1 /\ Asked(spec).w \in 1 .. 2 * Top - 1
         /\ Asked(spec).y0 \in -Top .. Top - 1 /\ Asked(spec).h \in 1 .. 2 * Top - 1
         /\ spec.clip \in BOOLEAN
<1> USE TopAssumption
<1>1. CASE spec \in PixelRegions
  <2>1. /\ spec.type = "pixel" /\ spec.x \in -Top .. Top - 1 /\ spec.y \in -Top .. Top - 1
        /\ spec.width \in Usize /\ spec.height \in Usize /\ spec.clip \in BOOLEAN
    BY <1>1 DEF PixelRegions
  <2>2. Asked(spec) = [x0 |-> spec.x, y0 |-> spec.y, w |-> spec.width, h |-> spec.height]
    BY <2>1 DEF Asked
  <2>3. Asked(spec).w # 0 /\ Asked(spec).h # 0
    BY <2>1 DEF Objection
  <2> QED
    BY <2>1, <2>2, <2>3 DEF Usize
<1>2. CASE spec \in SkyRegions
  <2>1. /\ spec.type = "sky" /\ spec.cx \in -Top .. 2 * Top - 1 /\ spec.cy \in -Top .. 2 * Top - 1
        /\ spec.width \in Usize /\ spec.height \in Usize /\ spec.clip \in BOOLEAN
    BY <1>2 DEF SkyRegions
  <2>2. ASSUME NEW s \in Usize, NEW c \in -Top .. 2 * Top - 1
        PROVE  Side(s) \in 1 .. 2 * Top - 1 /\ RoundHalf(c - Side(s)) \in -Top .. Top - 1
    <3>1. Side(s) = (IF s = 0 THEN 1 ELSE (s + 1) \div 2) /\ s \in Nat /\ s <= 2 * Top - 1
      BY DEF Usize, Side, RoundHalf, Most
    <3>2. Side(s) \in 1 .. Top
      BY <3>1
    <3>3. c - Side(s) \in Int /\ -2 * Top <= c - Side(s) /\ c - Side(s) <= 2 * Top - 2
      BY <3>2
    <3> HIDE DEF Side
    <3> QED
      BY <3>2, <3>3 DEF RoundHalf
  <2>3. Asked(spec) = [x0 |-> RoundHalf(spec.cx - Side(spec.width)), w |-> Side(spec.width),
                       y0 |-> RoundHalf(spec.cy - Side(spec.height)), h |-> Side(spec.height)]
    BY <2>1 DEF Asked
  <2>4. /\ Asked(spec).x0 = RoundHalf(spec.cx - Side(spec.width)) /\ Asked(spec).w = Side(spec.width)
        /\ Asked(spec).y0 = RoundHalf(spec.cy - Side(spec.height)) /\ Asked(spec).h = Side(spec.height)
    BY <2>3
  <2> QED
    BY <2>1, <2>2, <2>4
<1> QED
  BY <1>1, <1>2

\* A selected region is the pixels asked for and on the image.
LEMMA RegionIsAsAsked ==
  ASSUME asked \in Requests, Did("region") => answer = RegionAnswer(asked)
  PROVE  RegionAsAsked
<1> USE TopAssumption
<1> SUFFICES ASSUME Did("region"), Objection(asked.spec, asked.img) = "none",
                    Asked(asked.spec).x0 + Asked(asked.spec).w < Top,
                    Asked(asked.spec).y0 + Asked(asked.spec).h < Top
             PROVE  RegionAsAsked
  BY DEF RegionAsAsked
<1> DEFINE r == Asked(asked.spec)
           X == r.x0 .. r.x0 + r.w - 1
           Y == r.y0 .. r.y0 + r.h - 1
           I == 0 .. asked.img.w - 1
           J == 0 .. asked.img.h - 1
           cx == Cut(r.x0, r.w, asked.img.w)
           cy == Cut(r.y0, r.h, asked.img.h)
           kx == Nearest(r.x0, r.w, asked.img.w)
           ky == Nearest(r.y0, r.h, asked.img.h)
<1>1. /\ asked.spec \in PixelRegions \cup SkyRegions /\ asked.img.w \in Sides64 /\ asked.img.h \in Sides64
      /\ asked.header \in RegionHeaders
  <2>1. asked.op = "region"
    BY DEF Did
  <2>2. asked \in [op : {"region"}, spec : PixelRegions \cup SkyRegions, img : RegionImages, header : RegionHeaders]
    BY <2>1 DEF Requests
  <2> QED
    BY <2>2 DEF RegionImages
<1>2. /\ r.x0 \in -Top .. Top - 1 /\ r.w \in 1 .. 2 * Top - 1
      /\ r.y0 \in -Top .. Top - 1 /\ r.h \in 1 .. 2 * Top - 1
      /\ asked.spec.clip \in BOOLEAN /\ r.x0 + r.w < Top /\ r.y0 + r.h < Top
  BY <1>1, AskedIs
<1>3. /\ answer.strict = ResolveRegion(asked.spec, asked.img)
      /\ answer.clamped = ResolveClamped(asked.spec, asked.img)
      /\ answer.cutout = Cutout(asked.spec, asked.img, asked.header)
  <2>1. answer = [strict |-> ResolveRegion(asked.spec, asked.img), clamped |-> ResolveClamped(asked.spec, asked.img),
                  cutout |-> Cutout(asked.spec, asked.img, asked.header)]
    BY DEF RegionAnswer
  <2> QED
    BY <2>1
<1>4. AxisFacts(r.x0, r.w, asked.img.w, X, I, cx, kx)
  <2> HIDE DEF r
  <2> QED
    BY <1>1, <1>2, AxisIs
<1>5. AxisFacts(r.y0, r.h, asked.img.h, Y, J, cy, ky)
  <2> HIDE DEF r
  <2> QED
    BY <1>1, <1>2, AxisIs
<1>6. ProductFacts(Y, X, J, I)
  <2>1. X # {} /\ Y # {}
    <3>1. r.x0 \in X /\ r.y0 \in Y
      BY <1>2
    <3> QED
      BY <3>1
  <2> HIDE DEF X, Y, I, J
  <2> QED
    BY <2>1, Products
<1> USE DEF AxisFacts, ProductFacts
<1> DEFINE on == (Y \X X) \cap (J \X I)
           all == Y \X X \subseteq J \X I
<1>7. /\ answer.strict.ok <=> all \/ (asked.spec.clip /\ on # {})
      /\ answer.strict.ok => Rect(answer.strict) = on /\ (answer.strict.clipped <=> ~all)
  <2> DEFINE s == answer.strict
             whole == [ok |-> TRUE, x |-> r.x0, y |-> r.y0, w |-> r.w, h |-> r.h, clipped |-> FALSE]
             part == [ok |-> TRUE, x |-> cx.at, y |-> cy.at, w |-> cx.len, h |-> cy.len, clipped |-> TRUE]
  <2> HIDE DEF X, Y, I, J, cx, cy, kx, ky, r
  <2>1. s = IF Inside(r.x0, r.w, asked.img.w) /\ Inside(r.y0, r.h, asked.img.h) THEN whole
            ELSE IF ~asked.spec.clip \/ cx.len = 0 \/ cy.len = 0 THEN Refused("region_out_of_bounds")
            ELSE part
    BY <1>3 DEF ResolveRegion, r, cx, cy
  <2>2. CASE all
    <3>1. s = whole
      BY <1>4, <1>5, <1>6, <2>1, <2>2
    <3>2. s.ok = TRUE /\ s.x = r.x0 /\ s.y = r.y0 /\ s.w = r.w /\ s.h = r.h /\ s.clipped = FALSE
      BY <3>1
    <3>3. Rect(s) = (Y \cap J) \X (X \cap I)
      BY <1>4, <1>5, <1>6, <2>2, <3>2 DEF Rect
    <3> HIDE DEF s
    <3> QED
      BY <1>6, <2>2, <3>2, <3>3 DEF s
  <2>3. CASE ~all /\ asked.spec.clip /\ on # {}
    <3>1. s = part
      BY <1>4, <1>5, <1>6, <2>1, <2>3
    <3>2. s.ok = TRUE /\ s.x = cx.at /\ s.y = cy.at /\ s.w = cx.len /\ s.h = cy.len /\ s.clipped = TRUE
      BY <3>1
    <3>3. Rect(s) = (Y \cap J) \X (X \cap I)
      BY <1>4, <1>5, <3>2 DEF Rect
    <3> HIDE DEF s
    <3> QED
      BY <1>6, <2>3, <3>2, <3>3 DEF s
  <2>4. CASE ~all /\ ~(asked.spec.clip /\ on # {})
    <3>1. s = Refused("region_out_of_bounds")
      BY <1>2, <1>4, <1>5, <1>6, <2>1, <2>4
    <3>2. s.ok = FALSE
      BY <3>1 DEF Refused
    <3> HIDE DEF s
    <3> QED
      BY <2>4, <3>2 DEF s
  <2> QED
    BY <2>2, <2>3, <2>4
<1>8. /\ Rect(answer.clamped) = NearestOn(r.y0, r.h, asked.img.h) \X NearestOn(r.x0, r.w, asked.img.w)
      /\ answer.clamped.clipped <=> ~all
  <2> DEFINE moved == <<kx.at, ky.at, kx.len, ky.len>> # <<r.x0, r.y0, r.w, r.h>>
             s == answer.clamped
  <2> HIDE DEF X, Y, I, J, cx, cy, kx, ky, r
  <2>1. s = [ok |-> TRUE, x |-> kx.at, y |-> ky.at, w |-> kx.len, h |-> ky.len, clipped |-> moved]
    BY <1>3 DEF ResolveClamped, r, kx, ky
  <2>2. moved <=> ~all
    BY <1>4, <1>5, <1>6
  <2> HIDE DEF moved
  <2>3. s.x = kx.at /\ s.y = ky.at /\ s.w = kx.len /\ s.h = ky.len /\ s.clipped = moved
    BY <2>1
  <2> HIDE DEF s
  <2>4. Rect(s) = NearestOn(r.y0, r.h, asked.img.h) \X NearestOn(r.x0, r.w, asked.img.w)
    BY <1>4, <1>5, <2>3 DEF Rect
  <2> QED
    BY <2>2, <2>3, <2>4 DEF s
<1> DEFINE seen(p) == ParentOf(r, asked.img, p[1], p[2])
           u == answer.cutout
<1>9. /\ u.fraction = Fraction(asked.spec, asked.img) /\ u.header = ShiftedHeader(asked.header, r)
      /\ u.pixels = [p \in (0 .. r.h - 1) \X (0 .. r.w - 1) |-> seen(p)]
  <2> HIDE DEF r
  <2>1. u = [ok |-> TRUE, fraction |-> Fraction(asked.spec, asked.img), header |-> ShiftedHeader(asked.header, r),
             pixels |-> [p \in (0 .. r.h - 1) \X (0 .. r.w - 1) |-> seen(p)]]
    BY <1>3 DEF Cutout, r
  <2> HIDE DEF u, seen
  <2> QED
    BY <2>1
<1>10. u.fraction = <<Cardinality(on), Cardinality(Y \X X)>>
  <2> HIDE DEF X, Y, I, J, cx, cy, kx, ky, u
  <2>1. Cardinality(on) = Cardinality(Y \cap J) * Cardinality(X \cap I)
    BY <1>4, <1>5, <1>6, FS_Product, Zenon
  <2>2. Cardinality(Y \X X) = r.h * r.w
    <3>1. Cardinality(Y \X X) = Cardinality(Y) * Cardinality(X)
      BY <1>4, <1>5, FS_Product
    <3> QED
      BY <1>4, <1>5, <3>1
  <2>3. u.fraction = <<Overlap(r.x0, r.w, asked.img.w) * Overlap(r.y0, r.h, asked.img.h), r.w * r.h>>
    BY <1>9 DEF Fraction
  <2>4. Overlap(r.x0, r.w, asked.img.w) \in Nat /\ Overlap(r.y0, r.h, asked.img.h) \in Nat
    BY <1>4, <1>5, FS_CardinalityType
  <2>5. Overlap(r.x0, r.w, asked.img.w) * Overlap(r.y0, r.h, asked.img.h) = Cardinality(on)
    <3> DEFINE f == Overlap(r.x0, r.w, asked.img.w)  g == Overlap(r.y0, r.h, asked.img.h)
    <3>1. f \in Nat /\ g \in Nat /\ Cardinality(on) = g * f
      BY <1>4, <1>5, <2>1, <2>4
    <3> HIDE DEF f, g
    <3>2. f * g = g * f
      BY <3>1
    <3> QED
      BY <3>1, <3>2 DEF f, g
  <2>6. r.w * r.h = r.h * r.w
    BY <1>2
  <2> QED
    BY <2>2, <2>3, <2>5, <2>6
<1>11. ASSUME NEW p \in DOMAIN u.pixels
       PROVE  LET at == <<r.y0 + p[1], r.x0 + p[2]>>  q == u.pixels[p]  h == u.header IN
              /\ q = IF at \in J \X I THEN at ELSE <<>>
              /\ q # <<>> /\ h.crpix1 # <<>> => p[2] - h.crpix1[1] = q[2] - asked.header.crpix1[1]
  <2> DEFINE at == <<r.y0 + p[1], r.x0 + p[2]>>  q == u.pixels[p]  h == u.header
  <2>1. p \in (0 .. r.h - 1) \X (0 .. r.w - 1) /\ q = seen(p)
    BY <1>9
  <2>2. p[1] \in Nat /\ p[2] \in Nat
    <3> HIDE DEF r
    <3> QED
      BY <1>2, <2>1
  <2>3. q = IF at \in J \X I THEN at ELSE <<>>
    <3> HIDE DEF r, q
    <3> QED
      BY <2>1 DEF ParentOf, q
  <2>4. q # <<>> /\ h.crpix1 # <<>> => p[2] - h.crpix1[1] = q[2] - asked.header.crpix1[1]
    <3> SUFFICES ASSUME q # <<>>, h.crpix1 # <<>>
                 PROVE  p[2] - h.crpix1[1] = q[2] - asked.header.crpix1[1]
      OBVIOUS
    <3> DEFINE c == asked.header.crpix1
    <3>1. c \in Maybe(Int)
      BY <1>1 DEF RegionHeaders
    <3>2. h.crpix1 = [i \in DOMAIN c |-> c[i] - r.x0]
      <4> HIDE DEF r, u
      <4> QED
        BY <1>1, <1>9 DEF ShiftedHeader, RegionHeaders
    <3>3. c # <<>>
      <4> HIDE DEF u, r, h
      <4>1. c = <<>> => [i \in DOMAIN c |-> c[i] - r.x0] = <<>>
        OBVIOUS
      <4> QED
        BY <3>2, <4>1
    <3>4. DOMAIN c = 1 .. 1 /\ c[1] \in Int
      <4> HIDE DEF c
      <4> QED
        BY <3>1, <3>3 DEF Maybe
    <3>5. h.crpix1[1] = c[1] - r.x0
      <4> HIDE DEF c, h, r
      <4> QED
        BY <3>2, <3>4
    <3>6. q[2] = r.x0 + p[2]
      <4> HIDE DEF q, r
      <4> QED
        BY <2>3
    <3> HIDE DEF q, h, r, c
    <3> QED
      BY <1>2, <2>2, <3>4, <3>5, <3>6 DEF c, r
  <2> QED
    BY <2>3, <2>4
<1> HIDE DEF r, cx, cy, kx, ky, seen, u
<1> QED
  BY <1>7, <1>8, <1>10, <1>11 DEF RegionAsAsked, Grid, r, u

-----------------------------------------------------------------------------
(* Bins, pictures and boxes *)

LEMMA UpAtMost ==
  ASSUME NEW a \in Int, NEW b \in Nat \ {0}, NEW q \in Int
  PROVE  Up(a, b) \in Int /\ (Up(a, b) <= q <=> a <= q * b)
<1> DEFINE s == a + b - 1  p == q * b
<1>1. s \in Int /\ p \in Int /\ (q + 1) * b = p + b
  OBVIOUS
<1>2. Up(a, b) = s \div b
  BY DEF Up
<1>3. s <= p + b - 1 <=> a <= p
  BY <1>1
<1> HIDE DEF s
<1>4. s \div b \in Int /\ (s \div b <= q <=> s < (q + 1) * b)
  BY <1>1, Division, QuotientAtMost
<1> HIDE DEF p
<1> QED
  BY <1>1, <1>2, <1>3, <1>4 DEF p

\* A position among s scaled up to n pixels is one of them, with its bounds.
LEMMA ScaledUp ==
  ASSUME NEW o \in Nat, NEW n \in Nat \ {0}, NEW s \in Nat \ {0}, o < s
  PROVE  (o * n) \div s \in 0 .. n - 1
<1> DEFINE a == o * n
<1>1. a \in Int /\ a >= 0
  OBVIOUS
<1>2. (o + 1) * n <= s * n
  BY ProductOrder
<1>3. a < ((n - 1) + 1) * s /\ ~(a < (-1 + 1) * s)
  <2>1. (o + 1) * n = a + n /\ s * n = ((n - 1) + 1) * s /\ (-1 + 1) * s = 0
    OBVIOUS
  <2>2. s * n \in Int
    OBVIOUS
  <2> HIDE DEF a
  <2> QED
    BY <1>1, <1>2, <2>1, <2>2
<1> HIDE DEF a
<1>4. a \div s \in Int /\ a \div s <= n - 1 /\ ~(a \div s <= -1)
  <2>1. a \div s \in Int
    BY <1>1, Division
  <2>2. a \div s <= n - 1
    BY <1>1, <1>3, QuotientAtMost
  <2>3. ~(a \div s <= -1)
    BY <1>1, <1>3, QuotientAtMost
  <2> QED
    BY <2>1, <2>2, <2>3
<1> QED
  BY <1>4 DEF a

\* The block of a pixel is what its share of an axis touches.
LEMMA BlockIs ==
  ASSUME NEW o \in Nat, NEW n \in Nat \ {0}, NEW out \in Nat \ {0}, o < out
  PROVE  Block(o, n, out) = {q \in 0 .. n - 1 : Touches(q, o, n, out)}
<1> DEFINE d == (o * n) \div out  u == Up((o + 1) * n, out)
<1>1. d \in 0 .. n - 1
  BY ScaledUp
<1>2. o * n \in Int /\ (o + 1) * n \in Int
  OBVIOUS
<1>3. u \in Int
  BY <1>2, UpAtMost
<1>4. ASSUME NEW q \in 0 .. n - 1
      PROVE  Touches(q, o, n, out) <=> d <= q /\ q < u
  <2> DEFINE a == o * n  b == (o + 1) * n
  <2> HIDE DEF a, b
  <2>1. a \in Int /\ b \in Int /\ d = a \div out /\ u = Up(b, out)
    BY <1>2 DEF a, b
  <2>2. a \div out <= q <=> a < (q + 1) * out
    BY <2>1, QuotientAtMost
  <2>3. Up(b, out) <= q <=> b <= q * out
    BY <2>1, UpAtMost
  <2>4. Touches(q, o, n, out) <=> q * out < b /\ (q + 1) * out > a
    BY DEF Touches, a, b
  <2>5. q * out \in Int /\ (q + 1) * out \in Int
    OBVIOUS
  <2> DEFINE x == q * out  y == (q + 1) * out
  <2> HIDE DEF d, u, x, y
  <2> QED
    BY <1>1, <1>3, <2>1, <2>2, <2>3, <2>4, <2>5 DEF x, y
<1>5. Block(o, n, out) = Clamp(d, 0, n - 1) .. Lesser(u, n) - 1
  BY DEF Block
<1> HIDE DEF d, u
<1>6. Clamp(d, 0, n - 1) = d
  BY <1>1 DEF Clamp, Most, Lesser
<1>7. d .. Lesser(u, n) - 1 = {q \in 0 .. n - 1 : d <= q /\ q < u}
  BY <1>1, <1>3 DEF Lesser
<1> QED
  BY <1>4, <1>5, <1>6, <1>7

LEMMA BlocksAreExact ==
  ASSUME asked \in Requests, Did("bin") => answer = Bin("mean", asked.factor, asked.img)
  PROVE  BlocksExact
<1> SUFFICES ASSUME Did("bin"), answer.ok, NEW p \in DOMAIN answer.blocks
             PROVE  answer.blocks[p] = {q \in Grid(asked.img.h, asked.img.w) :
                                          /\ Touches(q[1], p[1], asked.img.h, answer.h)
                                          /\ Touches(q[2], p[2], asked.img.w, answer.w)}
  BY DEF BlocksExact
<1> DEFINE n == asked.img.h  m == asked.img.w  f == asked.factor  h == n \div f  w == m \div f
<1>1. n \in Nat \ {0} /\ m \in Nat \ {0} /\ f \in Nat
  BY DEF Requests, Did, Dims, Positive
<1>2. f # 0 /\ h # 0 /\ w # 0
  BY DEF Bin, Refused
<1>3. answer = [ok |-> TRUE, w |-> w, h |-> h, blocks |-> Downsample(asked.img, h, w)]
  BY <1>2 DEF Bin
<1>4. h \in Nat \ {0} /\ w \in Nat \ {0}
  <2>1. ASSUME NEW a \in Nat PROVE a \div f \in Nat
    <3>1. a \div f \in Int /\ ~(a \div f <= -1)
      <4>1. f \in Nat \ {0} /\ ~(a < (-1 + 1) * f)
        BY <1>1, <1>2
      <4> HIDE DEF f
      <4> QED
        BY <4>1, Division, QuotientAtMost
    <3> HIDE DEF f
    <3> QED
      BY <3>1
  <2> HIDE DEF f
  <2> QED
    BY <1>1, <1>2, <2>1
<1> HIDE DEF n, m, h, w
<1>5. answer.h = h /\ answer.w = w /\ answer.blocks = Downsample(asked.img, h, w)
  BY <1>3
<1>6. answer.blocks = [q \in (0 .. h - 1) \X (0 .. w - 1) |-> Block(q[1], n, h) \X Block(q[2], m, w)]
  BY <1>5 DEF Downsample, n, m
<1>7. p \in (0 .. h - 1) \X (0 .. w - 1)
  BY <1>6
<1>8. answer.blocks[p] = Block(p[1], n, h) \X Block(p[2], m, w)
  BY <1>6, <1>7
<1>9. p[1] \in Nat /\ p[1] < h /\ p[2] \in Nat /\ p[2] < w
  BY <1>4, <1>7
<1>10. /\ Block(p[1], n, h) = {q \in 0 .. n - 1 : Touches(q, p[1], n, h)}
       /\ Block(p[2], m, w) = {q \in 0 .. m - 1 : Touches(q, p[2], m, w)}
  BY <1>1, <1>4, <1>9, BlockIs
<1>11. answer.blocks[p] = {q \in (0 .. n - 1) \X (0 .. m - 1) : Touches(q[1], p[1], n, h) /\ Touches(q[2], p[2], m, w)}
  BY <1>8, <1>10
<1> QED
  BY <1>5, <1>11 DEF Grid, n, m

\* A side of a preview is no longer than the image's, nor than the bound.
LEMMA NnSideIs ==
  ASSUME NEW n \in Nat \ {0}, NEW long \in Nat \ {0}, NEW max \in Nat, n <= long
  PROVE  /\ NnSide(n, long, max) \in 1 .. n
         /\ max > 0 => NnSide(n, long, max) <= max
<1>1. CASE long <= max
  BY <1>1 DEF NnSide
<1>2. CASE long > max
  <2> DEFINE a == 2 * n * max + long  b == 2 * long  d == a \div b  x == n * max  y == n * long  z == max * long
  <2>1. x \in Int /\ y \in Int /\ z \in Int /\ a = 2 * x + long /\ b \in Nat \ {0}
    OBVIOUS
  <2>2. x <= y /\ x <= z
    <3>1. max * n <= long * n /\ n * max <= long * max
      BY <1>2, ProductOrder
    <3> QED
      BY <3>1
  <2>3. (n + 1) * b = 2 * y + 2 * long /\ (max + 1) * b = 2 * z + 2 * long
    OBVIOUS
  <2> HIDE DEF a, b, x, y, z
  <2>4. a < (n + 1) * b /\ a < (max + 1) * b
    BY <2>1, <2>2, <2>3
  <2>5. a \in Int
    BY <2>1
  <2>6. d \in Int /\ d <= n /\ d <= max
    <3>1. d \in Int
      BY <2>1, <2>5, Division
    <3>2. d <= n
      BY <2>1, <2>4, <2>5, QuotientAtMost
    <3>3. d <= max
      BY <2>1, <2>4, <2>5, QuotientAtMost
    <3> QED
      BY <3>1, <3>2, <3>3
  <2>7. NnSide(n, long, max) = Most(d, 1)
    BY <1>2 DEF NnSide, a, b
  <2> HIDE DEF d
  <2> QED
    BY <2>6, <2>7 DEF Most
<1> QED
  BY <1>1, <1>2

\* The next position of a preview shows a later one of the image.
LEMMA ScaledUpRises ==
  ASSUME NEW o \in Nat, NEW n \in Nat \ {0}, NEW s \in 1 .. n, o + 1 < s
  PROVE  ((o + 1) * n) \div s > (o * n) \div s
<1> DEFINE a == o * n  b == (o + 1) * n  d == a \div s  x == d * s
<1>1. a \in Int /\ b \in Int /\ b = a + n /\ s \in Nat \ {0}
  OBVIOUS
<1>2. d \in Int /\ b \div s \in Int
  <2> HIDE DEF a, b
  <2> QED
    BY <1>1, Division
<1>3. ~(a < x)
  <2>1. ~(d <= d - 1)
    <3> HIDE DEF d
    <3> QED
      BY <1>2
  <2>2. (d - 1) + 1 = d
    <3> HIDE DEF d
    <3> QED
      BY <1>2
  <2>3. d <= d - 1 <=> a < ((d - 1) + 1) * s
    <3> HIDE DEF a
    <3>1. \A q \in Int : a \div s <= q <=> a < (q + 1) * s
      BY <1>1, QuotientAtMost
    <3>2. d - 1 \in Int
      <4> HIDE DEF d
      <4> QED
        BY <1>2
    <3> QED
      BY <3>1, <3>2
  <2> HIDE DEF a, d
  <2> QED
    BY <2>1, <2>2, <2>3
<1>4. x \in Int /\ (d + 1) * s = x + s
  <2> HIDE DEF d
  <2> QED
    BY <1>1, <1>2
<1>5. ~(b < (d + 1) * s)
  <2> HIDE DEF a, b, d, x
  <2> QED
    BY <1>1, <1>3, <1>4
<1>6. ~(b \div s <= d)
  <2> HIDE DEF b, d
  <2> QED
    BY <1>1, <1>2, <1>5, QuotientAtMost
<1> HIDE DEF d
<1>7. b \div s > d
  <2> HIDE DEF b
  <2> QED
    BY <1>2, <1>6
<1> QED
  BY <1>7 DEF d

\* A picture of factor f fits the bound exactly if the side does f times the bound.
LEMMA ShownIs ==
  ASSUME NEW n \in Nat \ {0}, NEW f \in Nat \ {0}, NEW max \in Nat \ {0}
  PROVE  Shown(n, f) \in Nat /\ (Shown(n, f) <= max <=> n <= max * f)
<1>1. CASE f = 1
  BY <1>1 DEF Shown
<1>2. CASE f > 1
  <2>1. Up(n, f) \in Int /\ (Up(n, f) <= max <=> n <= max * f)
    BY UpAtMost
  <2>2. Shown(n, f) = IF Up(n, f) >= 1 THEN Up(n, f) ELSE 1
    BY <1>2 DEF Shown, Most
  <2> QED
    BY <2>1, <2>2
<1> QED
  BY <1>1, <1>2

LEMMA PicturesFit ==
  ASSUME asked \in Requests, Did("fit") => answer = FitAnswer(asked)
  PROVE  PictureFits
<1> SUFFICES ASSUME Did("fit") PROVE PictureFits
  BY DEF PictureFits
<1> DEFINE w == asked.img.w  h == asked.img.h  max == asked.max  long == Most(w, h)  f == Factor(asked.img, max)
           ow == NnSide(w, long, max)  oh == NnSide(h, long, max)
           at(p) == <<Lesser((p[1] * h) \div oh, h - 1), Lesser((p[2] * w) \div ow, w - 1)>>
<1>1. w \in Nat \ {0} /\ h \in Nat \ {0} /\ max \in Nat
  BY DEF Requests, Did, Dims, Positive
<1>2. answer = [factor |-> f, w |-> Shown(w, f), h |-> Shown(h, f), preview |-> DownsampleNn(w, h, max)]
  BY DEF FitAnswer
<1>3. answer.factor = f /\ answer.w = Shown(w, f) /\ answer.h = Shown(h, f) /\ answer.preview = DownsampleNn(w, h, max)
  <2> HIDE DEF f, w, h, max
  <2> QED
    BY <1>2
<1>4. long \in Nat \ {0} /\ w <= long /\ h <= long /\ (long = w \/ long = h)
  <2> HIDE DEF w, h
  <2> QED
    BY <1>1 DEF Most
<1>5. f = IF max >= 1 /\ long > max THEN Most(Up(long, max), 1) ELSE 1
  BY DEF Factor
<1> HIDE DEF w, h, max, long, f
<1>6. ASSUME max >= 1 /\ long > max
      PROVE  /\ max > 0 => Most(answer.w, answer.h) <= max
             /\ \A g \in 1 .. answer.factor - 1 : Most(Shown(w, g), Shown(h, g)) > max
  <2>1. max \in Nat \ {0}
    BY <1>1, <1>6
  <2>2. Up(long, max) \in Int /\ \A q \in Int : Up(long, max) <= q <=> long <= q * max
    BY <1>4, <2>1, UpAtMost
  <2>3. f = Most(Up(long, max), 1)
    BY <1>5, <1>6
  <2>4. ~(long <= 1 * max)
    BY <1>1, <1>4, <1>6
  <2>5. f = Up(long, max) /\ f \in Nat \ {0}
    BY <2>2, <2>3, <2>4 DEF Most
  <2>6. Most(answer.w, answer.h) <= max
    <3>1. long <= f * max
      BY <2>2, <2>5
    <3>2. f * max = max * f /\ max * f \in Int
      BY <1>1, <2>5
    <3>3. w <= max * f /\ h <= max * f
      <4> DEFINE x == max * f
      <4>1. x \in Int /\ long <= x
        BY <3>1, <3>2
      <4> HIDE DEF x
      <4>2. w <= x /\ h <= x
        BY <1>1, <1>4, <4>1
      <4> QED
        BY <4>2 DEF x
    <3>4. Shown(w, f) <= max /\ Shown(h, f) <= max
      BY <1>1, <2>1, <2>5, <3>3, ShownIs
    <3> QED
      BY <1>3, <3>4 DEF Most
  <2>7. ASSUME NEW g \in 1 .. f - 1
        PROVE  Most(Shown(w, g), Shown(h, g)) > max
    <3>1. g \in Nat \ {0} /\ g < f
      BY <2>5
    <3>2. ~(long <= g * max)
      BY <2>2, <2>5, <3>1
    <3>3. g * max = max * g
      BY <1>1, <3>1
    <3>4. /\ Shown(w, g) \in Nat /\ (Shown(w, g) <= max <=> w <= max * g)
          /\ Shown(h, g) \in Nat /\ (Shown(h, g) <= max <=> h <= max * g)
      BY <1>1, <2>1, <3>1, ShownIs
    <3>5. ~(Shown(w, g) <= max) \/ ~(Shown(h, g) <= max)
      BY <1>4, <3>2, <3>3, <3>4
    <3> QED
      BY <2>1, <3>4, <3>5 DEF Most
  <2> QED
    BY <1>3, <2>6, <2>7
<1>7. ASSUME ~(max >= 1 /\ long > max)
      PROVE  /\ max > 0 => Most(answer.w, answer.h) <= max
             /\ \A g \in 1 .. answer.factor - 1 : Most(Shown(w, g), Shown(h, g)) > max
  <2>1. f = 1
    BY <1>5, <1>7
  <2>2. answer.w = w /\ answer.h = h
    BY <1>3, <2>1 DEF Shown
  <2> QED
    BY <1>1, <1>3, <1>4, <1>7, <2>1, <2>2 DEF Most
<1>8. /\ max > 0 => Most(answer.w, answer.h) <= max
      /\ \A g \in 1 .. answer.factor - 1 : Most(Shown(w, g), Shown(h, g)) > max
  BY <1>6, <1>7
<1>9. /\ oh \in 1 .. h /\ ow \in 1 .. w
      /\ max > 0 => oh <= max /\ ow <= max
  BY <1>1, <1>4, NnSideIs
<1>10. answer.preview = [p \in (0 .. oh - 1) \X (0 .. ow - 1) |-> at(p)]
  BY <1>3 DEF DownsampleNn, long
<1> HIDE DEF oh, ow
<1>11. ASSUME NEW p \in DOMAIN answer.preview
       PROVE  /\ p[1] \in Nat /\ p[1] < oh /\ p[2] \in Nat /\ p[2] < ow
              /\ answer.preview[p] = <<(p[1] * h) \div oh, (p[2] * w) \div ow>>
              /\ (p[1] * h) \div oh \in 0 .. h - 1 /\ (p[2] * w) \div ow \in 0 .. w - 1
  <2> DEFINE d == (p[1] * h) \div oh  e == (p[2] * w) \div ow
  <2>1. p \in (0 .. oh - 1) \X (0 .. ow - 1)
    BY <1>10
  <2>2. p[1] \in Nat /\ p[1] < oh /\ p[2] \in Nat /\ p[2] < ow
    BY <1>1, <1>9, <2>1
  <2>3. answer.preview[p] = <<Lesser(d, h - 1), Lesser(e, w - 1)>>
    BY <1>10, <2>1
  <2>4. oh \in Nat \ {0} /\ ow \in Nat \ {0}
    BY <1>1, <1>9
  <2>5. d \in 0 .. h - 1 /\ e \in 0 .. w - 1
    BY <1>1, <2>2, <2>4, ScaledUp
  <2> HIDE DEF d, e
  <2>6. Lesser(d, h - 1) = d /\ Lesser(e, w - 1) = e
    BY <1>1, <2>5 DEF Lesser
  <2>7. answer.preview[p] = <<d, e>>
    BY <2>3, <2>6
  <2> QED
    BY <2>2, <2>5, <2>7 DEF d, e
<1>12. ASSUME NEW p \in DOMAIN answer.preview
       PROVE  answer.preview[p] \in Grid(h, w)
  <2> DEFINE d == (p[1] * h) \div oh  e == (p[2] * w) \div ow
  <2>1. answer.preview[p] = <<d, e>> /\ d \in 0 .. h - 1 /\ e \in 0 .. w - 1
    BY <1>11
  <2> HIDE DEF d, e
  <2> QED
    BY <2>1 DEF Grid
<1>13. ASSUME NEW p \in DOMAIN answer.preview, NEW q \in DOMAIN answer.preview
       PROVE  /\ max > 0 => Most(p[1], p[2]) < max
              /\ p[1] = q[1] + 1 => answer.preview[p][1] > answer.preview[q][1]
  <2>1. max > 0 => Most(p[1], p[2]) < max
    BY <1>1, <1>9, <1>11 DEF Most
  <2>2. ASSUME p[1] = q[1] + 1 PROVE answer.preview[p][1] > answer.preview[q][1]
    <3>1. q[1] \in Nat /\ q[1] + 1 < oh
      BY <1>11, <2>2
    <3>2. ((q[1] + 1) * h) \div oh > (q[1] * h) \div oh
      BY <1>1, <1>9, <3>1, ScaledUpRises
    <3>3. answer.preview[p][1] = (p[1] * h) \div oh /\ answer.preview[q][1] = (q[1] * h) \div oh
      BY <1>11
    <3> QED
      BY <2>2, <3>2, <3>3
  <2> QED
    BY <2>1, <2>2
<1> QED
  BY <1>8, <1>12, <1>13 DEF PictureFits, w, h, max

LEMMA BoxesAreCentred ==
  ASSUME asked \in Requests, Did("box") => answer = PixelBox(asked.point, asked.size, asked.img)
  PROVE  BoxCentred
<1> SUFFICES ASSUME Did("box") PROVE BoxCentred
  BY DEF BoxCentred
<1> DEFINE w == asked.img.w  h == asked.img.h  px == asked.point[1]  py == asked.point[2]  s == asked.size
           x == px \div 2  y == py \div 2  k == s \div 2
           on == 0 <= x /\ x < w /\ 0 <= y /\ y < h
           box == Box(y, s, h) \X Box(x, s, w)
<1>1. w \in Nat \ {0} /\ h \in Nat \ {0} /\ px \in Int /\ py \in Int /\ s \in Nat
  BY DEF Requests, Did, Dims, Positive
<1>2. answer = IF x < 0 \/ y < 0 \/ x >= w \/ y >= h THEN Refused("pixel_out_of_bounds")
               ELSE [ok |-> TRUE, at |-> <<y, x>>, pixels |-> box]
  BY DEF PixelBox
<1> HIDE DEF w, h, px, py, s
<1>3. on <=> OnImage(asked.point, asked.img)
  BY <1>1 DEF OnImage, w, h, px, py
<1>4. ASSUME NEW c \in Int, NEW n \in Nat \ {0}
      PROVE  Box(c \div 2, s, n) = {p \in 0 .. n - 1 : 2 * p - c \in -(2 * k) - 1 .. 2 * k}
  <2>1. k \in Nat
    BY <1>1
  <2> DEFINE d == c \div 2
  <2>2. d \in Int /\ (c = 2 * d \/ c = 2 * d + 1)
    OBVIOUS
  <2>3. Box(d, s, n) = Most(d - k, 0) .. Lesser(d + k, n - 1)
    BY DEF Box
  <2> HIDE DEF k, d
  <2>4. Most(d - k, 0) .. Lesser(d + k, n - 1) = {p \in 0 .. n - 1 : d - k <= p /\ p <= d + k}
    BY <2>1, <2>2 DEF Most, Lesser
  <2>5. ASSUME NEW p \in 0 .. n - 1 PROVE (d - k <= p /\ p <= d + k) <=> 2 * p - c \in -(2 * k) - 1 .. 2 * k
    BY <2>1, <2>2
  <2> QED
    BY <2>3, <2>4, <2>5 DEF d
<1>5. x \in Int /\ y \in Int
  BY <1>1
<1>6. answer.ok <=> on
  <2> HIDE DEF x, y, box
  <2>1. CASE on
    <3>1. answer.ok = TRUE
      BY <1>1, <1>2, <1>5, <2>1
    <3> QED
      BY <2>1, <3>1
  <2>2. CASE ~on
    <3>1. answer.ok = FALSE
      BY <1>1, <1>2, <1>5, <2>2 DEF Refused
    <3> QED
      BY <2>2, <3>1
  <2> QED
    BY <2>1, <2>2
<1>7. ASSUME on PROVE answer.pixels = box
  <2> HIDE DEF x, y, box
  <2> QED
    BY <1>1, <1>2, <1>5, <1>7
<1>8. box = {p \in (0 .. h - 1) \X (0 .. w - 1) :
               2 * p[1] - py \in -(2 * k) - 1 .. 2 * k /\ 2 * p[2] - px \in -(2 * k) - 1 .. 2 * k}
  <2>1. /\ Box(y, s, h) = {p \in 0 .. h - 1 : 2 * p - py \in -(2 * k) - 1 .. 2 * k}
        /\ Box(x, s, w) = {p \in 0 .. w - 1 : 2 * p - px \in -(2 * k) - 1 .. 2 * k}
    BY <1>1, <1>4
  <2> HIDE DEF x, y, k
  <2> QED
    BY <2>1
<1> HIDE DEF on, box
<1> QED
  BY <1>3, <1>6, <1>7, <1>8 DEF BoxCentred, Grid, w, h, px, py, k, s

-----------------------------------------------------------------------------
(* Margins and indices *)

LEMMA MarginsAreLeft ==
  ASSUME asked \in Requests, Did("margins") => answer = MarginsAnswer(asked)
  PROVE  MarginsLeft
<1> SUFFICES ASSUME Did("margins") PROVE MarginsLeft
  BY DEF MarginsLeft
<1> DEFINE a == asked.sides[1]  b == asked.sides[2]  near == asked.near  far == asked.far
           to == Most(a - far, 0)
           m == [from |-> near, to |-> to]
           parts == [i \in {Square(a), Square(b)} |-> [y |-> Cropped(m, i.h), x |-> Cropped(m, i.w)]]
<1>1. a \in Nat \ {0} /\ b \in Nat \ {0} /\ near \in Nat /\ far \in Nat
  BY DEF Requests, Did, Positive
<1>2. answer = IF m.to <= m.from \/ m.to <= m.from THEN Refused("empty") ELSE [ok |-> TRUE, parts |-> parts]
  BY DEF MarginsAnswer, Margins, Crop
<1> HIDE DEF a, b, near, far
<1>3. m.from = near /\ m.to = to
  BY Zenon
<1>4. to \in Nat /\ (to <= near <=> ~(near + far < a))
  BY <1>1 DEF Most
<1> HIDE DEF m, to
<1>5. answer.ok <=> near + far < a
  <2>1. CASE to <= near
    <3>1. answer.ok = FALSE
      BY <1>2, <1>3, <2>1 DEF Refused
    <3> QED
      BY <1>4, <2>1, <3>1
  <2>2. CASE ~(to <= near)
    <3> HIDE DEF parts
    <3>1. answer.ok = TRUE
      BY <1>2, <1>3, <2>2
    <3> QED
      BY <1>4, <2>2, <3>1
  <2> QED
    BY <2>1, <2>2
<1>6. ASSUME near + far < a, NEW n \in {a, b}
      PROVE  LET y == answer.parts[Square(n)].y IN
             y.at .. y.at + y.len - 1 = (near .. to - 1) \cap (0 .. n - 1)
  <2>1. answer.parts = parts
    <3> HIDE DEF parts
    <3> QED
      BY <1>2, <1>3, <1>4, <1>6
  <2>2. Square(n) \in {Square(a), Square(b)} /\ Square(n).h = n
    BY DEF Square
  <2>3. answer.parts[Square(n)].y = Cropped(m, n)
    <3>1. parts[Square(n)] = [y |-> Cropped(m, Square(n).h), x |-> Cropped(m, Square(n).w)]
      BY <2>2, Zenon
    <3> QED
      BY <2>1, <2>2, <3>1
  <2> DEFINE c == IF near <= n THEN near ELSE n
             e == IF to <= n THEN to ELSE n
             l == IF e >= c THEN e - c ELSE 0
  <2>4. n \in Nat
    BY <1>1
  <2>5. Cropped(m, n) = [at |-> c, len |-> l]
    BY <1>1, <1>3, <1>4, <2>4 DEF Cropped, Most, Lesser
  <2>6. c .. c + l - 1 = (near .. to - 1) \cap (0 .. n - 1)
    BY <1>1, <1>4, <2>4
  <2> HIDE DEF c, l
  <2>7. answer.parts[Square(n)].y.at = c /\ answer.parts[Square(n)].y.len = l
    BY <2>3, <2>5
  <2> QED
    BY <2>6, <2>7
<1> QED
  BY <1>5, <1>6 DEF MarginsLeft, a, b, near, far, to

\* An image is reflected about its edge pixels.
LEMMA ReflectionIs ==
  ASSUME NEW i \in Int, NEW n \in Nat \ {0}
  PROVE  /\ ReflectIndex(i, n) \in 0 .. n - 1
         /\ i \in 0 .. n - 1 => ReflectIndex(i, n) = i
         /\ ReflectIndex(-i, n) = ReflectIndex(i, n)
         /\ ReflectIndex(2 * (n - 1) - i, n) = ReflectIndex(i, n)
<1>1. CASE n <= 1
  BY <1>1 DEF ReflectIndex
<1>2. CASE n > 1
  <2> DEFINE P == 2 * (n - 1)  q == i \div P  r == i % P
             back(k) == IF k < n THEN k ELSE P - k
  <2>1. P \in Nat \ {0} /\ P = 2 * n - 2 /\ n >= 2
    BY <1>2
  <2>2. /\ ReflectIndex(i, n) = back(r)
        /\ ReflectIndex(-i, n) = back((-i) % P)
        /\ ReflectIndex(2 * (n - 1) - i, n) = back((P - i) % P)
    BY <1>2 DEF ReflectIndex
  <2> HIDE DEF P
  <2>3. q \in Int /\ r \in Int /\ i = P * q + r /\ 0 <= r /\ r < P
    BY <2>1, Division
  <2> HIDE DEF q, r
  <2>4. back(r) \in 0 .. n - 1
    BY <2>1, <2>3
  <2>5. i \in 0 .. n - 1 => r = i
    <3> SUFFICES ASSUME i \in 0 .. n - 1 PROVE r = i
      OBVIOUS
    <3>1. i \in 0 .. P - 1 /\ 0 * P + i = i
      BY <2>1
    <3>2. i % P = i
      BY <2>1, <3>1, RestIs
    <3> QED
      BY <3>2 DEF r
  <2>6. CASE r = 0
    <3>1. (-q) * P + 0 = -i /\ (1 - q) * P + 0 = P - i /\ -q \in Int /\ 1 - q \in Int
      BY <2>1, <2>3, <2>6
    <3>2. 0 \in 0 .. P - 1
      BY <2>1
    <3>3. (-i) % P = 0 /\ (P - i) % P = 0
      BY <2>1, <3>1, <3>2, RestIs
    <3> HIDE DEF back
    <3>4. i \in 0 .. n - 1 => back(r) = i
      BY <2>1, <2>3, <2>5, <2>6 DEF back
    <3> QED
      BY <2>2, <2>4, <2>6, <3>3, <3>4
  <2>7. CASE r # 0
    <3> DEFINE s == P - r
    <3>1. s \in 0 .. P - 1
      BY <2>1, <2>3, <2>7
    <3>2. (-q - 1) * P + s = -i /\ (-q) * P + s = P - i /\ -q \in Int /\ -q - 1 \in Int
      BY <2>1, <2>3
    <3>3. (-i) % P = s /\ (P - i) % P = s
      <4> HIDE DEF s
      <4>1. ((-q - 1) * P + s) % P = s
        <5> DEFINE t == -q - 1
        <5>1. t \in Int
          BY <3>2
        <5> HIDE DEF t
        <5>2. (t * P + s) % P = s
          BY <2>1, <3>1, <5>1, RestIs
        <5> QED
          BY <5>2 DEF t
      <4>2. ((-q) * P + s) % P = s
        BY <2>1, <3>1, <3>2, RestIs
      <4> QED
        BY <3>2, <4>1, <4>2
    <3>4. back(s) = back(r)
      BY <2>1, <2>3, <2>7
    <3>5. i \in 0 .. n - 1 => back(r) = i
      BY <2>5
    <3> HIDE DEF s, back
    <3> QED
      BY <2>2, <2>4, <3>3, <3>4, <3>5
  <2> QED
    BY <2>6, <2>7
<1> QED
  BY <1>1, <1>2

LEMMA IndicesAreBounded ==
  ASSUME asked \in Requests, Did("index") => answer = IndexAnswer(asked)
  PROVE  IndicesBounded
<1> SUFFICES ASSUME Did("index"), asked.n > 0 PROVE IndicesBounded
  BY DEF IndicesBounded
<1> DEFINE i == asked.at  n == asked.n
<1>1. i \in Int /\ n \in Nat \ {0}
  BY DEF Requests, Did
<1>2. /\ answer.clamp = ClampIndex(i, n) /\ answer.reflect = ReflectIndex(i, n) /\ answer.wrap = WrapIndex(i, n)
      /\ answer.nearest = NearestTap(i, n) /\ answer.bilinear = BilinearTaps(i, n) /\ answer.bicubic = BicubicTaps(i, n)
  BY DEF IndexAnswer
<1> HIDE DEF i, n
<1>3. ASSUME NEW j \in Int
      PROVE  ClampIndex(j, n) \in 0 .. n - 1 /\ (j \in 0 .. n - 1 => ClampIndex(j, n) = j)
  BY <1>1 DEF ClampIndex, Clamp, Most, Lesser
<1>4. WrapIndex(i, n) \in 0 .. n - 1 /\ (i \in 0 .. n - 1 => WrapIndex(i, n) = i)
  <2>1. WrapIndex(i, n) = i % n
    BY <1>1 DEF WrapIndex
  <2>2. i % n \in 0 .. n - 1
    BY <1>1, Division
  <2>3. i \in 0 .. n - 1 => i % n = i
    <3>1. 0 * n + i = i
      BY <1>1
    <3> QED
      BY <1>1, <3>1, RestIs
  <2> QED
    BY <2>1, <2>2, <2>3
<1>5. /\ ReflectIndex(i, n) \in 0 .. n - 1
      /\ i \in 0 .. n - 1 => ReflectIndex(i, n) = i
      /\ ReflectIndex(-i, n) = ReflectIndex(i, n)
      /\ ReflectIndex(2 * (n - 1) - i, n) = ReflectIndex(i, n)
  BY <1>1, ReflectionIs
<1> DEFINE d == i \div 2  e == RoundHalf(i)
<1>6. d \in Int /\ e \in Int /\ (i >= 0 => e = (i + 1) \div 2)
  BY <1>1 DEF RoundHalf
<1>7. i \in 0 .. 2 * (n - 1) => e \in 0 .. n - 1 /\ d \in 0 .. n - 1 /\ 2 * e - i \in {0, 1} /\ 2 * d - i \in {-1, 0}
  BY <1>1, <1>6
<1> HIDE DEF d, e
<1>8. answer.nearest = ClampIndex(e, n)
  BY <1>2 DEF NearestTap, e
<1>9. answer.bilinear[1] = ClampIndex(d, n) /\ answer.bilinear[2] = ClampIndex(d + 1, n)
  BY <1>2 DEF BilinearTaps, d
<1>10. \A k \in 1 .. 4 : answer.bicubic[k] = ClampIndex(d + k - 2, n)
  BY <1>2 DEF BicubicTaps, d
<1>11. answer.bicubic[2] = answer.bilinear[1] /\ answer.bicubic[3] = answer.bilinear[2]
  <2>1. d + 2 - 2 = d /\ d + 3 - 2 = d + 1 /\ 2 \in 1 .. 4 /\ 3 \in 1 .. 4
    BY <1>6
  <2>2. answer.bicubic[2] = ClampIndex(d + 2 - 2, n) /\ answer.bicubic[3] = ClampIndex(d + 3 - 2, n)
    BY <1>10, <2>1
  <2> QED
    BY <1>9, <2>1, <2>2
<1>12. /\ answer.nearest \in 0 .. n - 1
       /\ \A k \in 1 .. 2 : answer.bilinear[k] \in 0 .. n - 1
       /\ \A k \in 1 .. 4 : answer.bicubic[k] \in 0 .. n - 1
  <2>1. answer.nearest \in 0 .. n - 1
    BY <1>3, <1>6, <1>8
  <2>2. answer.bilinear[1] \in 0 .. n - 1 /\ answer.bilinear[2] \in 0 .. n - 1
    <3>1. d + 1 \in Int
      BY <1>6
    <3> QED
      BY <1>3, <1>6, <1>9, <3>1
  <2>3. ASSUME NEW k \in 1 .. 4 PROVE answer.bicubic[k] \in 0 .. n - 1
    <3>1. d + k - 2 \in Int
      BY <1>6
    <3> QED
      BY <1>3, <1>10, <3>1
  <2>4. \A k \in 1 .. 2 : k = 1 \/ k = 2
    OBVIOUS
  <2> QED
    BY <2>1, <2>2, <2>3, <2>4
<1>13. i \in 0 .. 2 * (n - 1) => 2 * answer.nearest - i \in {0, 1} /\ 2 * answer.bilinear[1] - i \in {-1, 0}
  BY <1>3, <1>6, <1>7, <1>8, <1>9
<1>14. /\ {answer.clamp, answer.reflect, answer.wrap, answer.nearest} \subseteq 0 .. n - 1
       /\ i \in 0 .. n - 1 => answer.clamp = i /\ answer.reflect = i /\ answer.wrap = i
       /\ answer.reflect = ReflectIndex(-i, n) /\ answer.reflect = ReflectIndex(2 * (n - 1) - i, n)
  BY <1>1, <1>2, <1>3, <1>4, <1>5, <1>12
<1> QED
  BY <1>11, <1>12, <1>13, <1>14 DEF IndicesBounded, i, n

-----------------------------------------------------------------------------
(* Cropping what several images have in common *)

LEMMA SmallestNumber ==
  ASSUME NEW T \in SUBSET Nat, T # {}
  PROVE  \E x \in T : \A y \in T : x <= y
<1> DEFINE R == {ss \in Nat \X Nat : ss[1] < ss[2]}
<1>1. IsWellFoundedOn(R, Nat)
  BY NatLessThanWellFounded DEF OpToRel
<1>2. \A x, y \in Nat : <<y, x>> \in R <=> y < x
  OBVIOUS
<1> HIDE DEF R
<1>3. PICK x \in T : \A y \in T : ~ (<<y, x>> \in R)
  BY <1>1, WFMin
<1>4. ASSUME NEW y \in T
      PROVE  x <= y
  <2>1. x \in Nat /\ y \in Nat
    OBVIOUS
  <2>2. ~ (y < x)
    BY <1>2, <1>3, <2>1
  <2> QED
    BY <2>1, <2>2
<1> QED
  BY <1>4

\* Of the sets of what is above a member of F, the smallest is empty.
LEMMA GreatestNumber ==
  ASSUME NEW F \in SUBSET Nat, IsFiniteSet(F), F # {}
  PROVE  \E x \in F : \A y \in F : y <= x
<1> DEFINE above(x) == {y \in F : y > x}
           B == {above(x) : x \in F}
<1>1. B \subseteq FiniteSubsetsOf(F) /\ B # {}
  <2>1. ASSUME NEW x \in F PROVE above(x) \in FiniteSubsetsOf(F)
    <3>1. above(x) \in SUBSET F
      OBVIOUS
    <3> HIDE DEF above
    <3> QED
      BY <3>1, FS_Subset DEF FiniteSubsetsOf
  <2> HIDE DEF above
  <2> QED
    BY <2>1
<1> HIDE DEF B
<1>2. PICK T \in B : \A U \in B : ~ (<<U, T>> \in StrictSubsetOrdering(F))
  BY <1>1, FS_StrictSubsetOrderingWellFounded, WFMin
<1>3. PICK x \in F : T = above(x)
  BY <1>2 DEF B
<1>4. ASSUME NEW y \in F, ~(y <= x)
      PROVE  FALSE
  <2>1. x \in Nat /\ y \in Nat /\ y > x
    BY <1>4
  <2>2. y \in T /\ above(y) \subseteq T /\ y \notin above(y)
    <3>1. y \in T
      BY <1>3, <2>1
    <3>2. ASSUME NEW z \in above(y) PROVE z \in T
      <4>1. z \in Nat /\ z \in F /\ z > y
        OBVIOUS
      <4>2. z > x
        BY <2>1, <4>1
      <4> QED
        BY <1>3, <4>1, <4>2
    <3>3. y \notin above(y)
      BY <2>1
    <3> QED
      BY <3>1, <3>2, <3>3
  <2>3. above(y) \in B
    BY DEF B
  <2> HIDE DEF above
  <2>4. <<above(y), T>> \in StrictSubsetOrdering(F)
    BY <1>1, <1>2, <2>2, <2>3 DEF StrictSubsetOrdering, FiniteSubsetsOf
  <2> QED
    BY <1>2, <2>3, <2>4
<1> QED
  BY <1>4

SideOf(i, axis) == IF axis = 1 THEN i.h ELSE i.w
SpanOf(i, axis) == Valid(i.lit, axis, SideOf(i, axis))
Between(i, axis, k) == \E a, b \in {p[axis] : p \in i.lit} : a <= k /\ k <= b
Common(images, axis) ==
  {k \in UNION {0 .. SideOf(i, axis) - 1 : i \in images} : \A i \in images : Between(i, axis, k)}

\* The region of an image that is valid is what lies between lit pixels.
LEMMA SpanIs ==
  ASSUME NEW i \in LitInside, NEW axis \in {1, 2}
  PROVE  /\ SpanOf(i, axis).from \in Nat /\ SpanOf(i, axis).to \in Nat
         /\ SpanOf(i, axis).to <= SideOf(i, axis) /\ SideOf(i, axis) \in Nat \ {0}
         /\ \A k \in Nat : Between(i, axis, k) <=> SpanOf(i, axis).from <= k /\ k < SpanOf(i, axis).to
<1> DEFINE n == SideOf(i, axis)  on == {p[axis] : p \in i.lit}  s == SpanOf(i, axis)
<1>1. n \in Nat \ {0}
  BY DEF LitInside, SideOf, Positive
<1>2. on \subseteq 0 .. n - 1
  <2>1. i.lit \subseteq (0 .. i.h - 1) \X (0 .. i.w - 1)
    BY DEF LitInside, Grid
  <2>2. CASE axis = 1
    BY <2>1, <2>2 DEF SideOf
  <2>3. CASE axis = 2
    BY <2>1, <2>3 DEF SideOf
  <2> QED
    BY <2>2, <2>3
<1>3. s = IF on = {} THEN [from |-> n, to |-> 0]
          ELSE [from |-> CHOOSE a \in on : \A b \in on : a <= b, to |-> (CHOOSE a \in on : \A b \in on : a >= b) + 1]
  BY DEF SpanOf, Valid
<1>4. \A k \in Nat : Between(i, axis, k) <=> \E a, b \in on : a <= k /\ k <= b
  BY DEF Between
<1> HIDE DEF n, on, s
<1>5. CASE on = {}
  <2>1. s.from = n /\ s.to = 0
    BY <1>3, <1>5
  <2> QED
    BY <1>1, <1>4, <1>5, <2>1 DEF n, s
<1>6. CASE on # {}
  <2> DEFINE lo == CHOOSE a \in on : \A b \in on : a <= b
             hi == CHOOSE a \in on : \A b \in on : a >= b
  <2>1. on \subseteq Nat /\ IsFiniteSet(on)
    <3>1. on \subseteq Nat
      BY <1>1, <1>2
    <3>2. n - 1 \in Nat /\ \A a \in on : a <= n - 1
      BY <1>1, <1>2
    <3>3. on \in SUBSET Nat
      BY <3>1
    <3> QED
      BY <3>1, <3>2, <3>3, FS_BoundedSetOfNaturals
  <2>2. lo \in on /\ \A b \in on : lo <= b
    <3>1. \E a \in on : \A b \in on : a <= b
      BY <1>6, <2>1, SmallestNumber
    <3> QED
      BY <3>1
  <2>3. hi \in on /\ \A b \in on : hi >= b
    <3>1. \E a \in on : \A b \in on : b <= a
      BY <1>6, <2>1, GreatestNumber
    <3>2. \E a \in on : \A b \in on : a >= b
      BY <2>1, <3>1
    <3> QED
      BY <3>2
  <2>4. s.from = lo /\ s.to = hi + 1
    BY <1>3, <1>6
  <2> HIDE DEF lo, hi
  <2>5. lo \in Nat /\ hi \in Nat /\ hi < n
    BY <1>1, <1>2, <2>1, <2>2, <2>3
  <2>6. ASSUME NEW k \in Nat
        PROVE  Between(i, axis, k) <=> s.from <= k /\ k < s.to
    <3>1. (\E a, b \in on : a <= k /\ k <= b) => lo <= k /\ k <= hi
      BY <2>1, <2>2, <2>3, <2>5
    <3>2. lo <= k /\ k <= hi => \E a, b \in on : a <= k /\ k <= b
      BY <2>2, <2>3
    <3> QED
      BY <1>4, <2>4, <2>5, <3>1, <3>2
  <2> QED
    BY <1>1, <2>4, <2>5, <2>6 DEF n, s
<1> QED
  BY <1>5, <1>6

LEMMA OverlappingIs ==
  ASSUME NEW images \in SUBSET LitInside, images # {}, IsFiniteSet(images), NEW axis \in {1, 2}
  PROVE  /\ Overlapping(images, axis).from \in Nat /\ Overlapping(images, axis).to \in Nat
         /\ Common(images, axis) = Overlapping(images, axis).from .. Overlapping(images, axis).to - 1
         /\ \A i \in images : Overlapping(images, axis).to <= SideOf(i, axis)
<1> DEFINE c == Overlapping(images, axis)
           F == {SpanOf(i, axis).from : i \in images}
           T == {SpanOf(i, axis).to : i \in images}
           v == {Valid(i.lit, axis, IF axis = 1 THEN i.h ELSE i.w) : i \in images}
           lo == CHOOSE a \in {x.from : x \in v} : \A x \in v : x.from <= a
           hi == CHOOSE a \in {x.to : x \in v} : \A x \in v : x.to >= a
<1>1. \A i \in images : /\ SpanOf(i, axis).from \in Nat /\ SpanOf(i, axis).to \in Nat
                        /\ SpanOf(i, axis).to <= SideOf(i, axis) /\ SideOf(i, axis) \in Nat \ {0}
                        /\ \A k \in Nat : Between(i, axis, k) <=> SpanOf(i, axis).from <= k /\ k < SpanOf(i, axis).to
  BY SpanIs
<1>2. c = [from |-> lo, to |-> hi]
  BY DEF Overlapping
<1>3. v = {SpanOf(i, axis) : i \in images}
  BY DEF SpanOf, SideOf
<1>4. c.from = lo /\ c.to = hi
  <2> HIDE DEF lo, hi, c
  <2> QED
    BY <1>2
<1> HIDE DEF c, v
<1>5. F = {x.from : x \in v} /\ T = {x.to : x \in v}
  BY <1>3
<1>6. F \in SUBSET Nat /\ F # {} /\ IsFiniteSet(F) /\ T \in SUBSET Nat /\ T # {}
  <2>1. F \in SUBSET Nat /\ F # {} /\ T \in SUBSET Nat /\ T # {}
    BY <1>1
  <2>2. IsFiniteSet(F)
    <3> DEFINE f == [i \in images |-> SpanOf(i, axis).from]
    <3>1. f \in Surjection(images, F)
      BY DEF Surjection
    <3> HIDE DEF f, F
    <3> QED
      BY <3>1, FS_Surjection
  <2> QED
    BY <2>1, <2>2
<1>7. c.from \in F /\ \A i \in images : SpanOf(i, axis).from <= c.from
  <2>1. PICK g \in F : \A y \in F : y <= g
    <3> HIDE DEF F
    <3> QED
      BY <1>6, GreatestNumber
  <2>2. \E a \in {x.from : x \in v} : \A x \in v : x.from <= a
    <3>1. g \in {x.from : x \in v}
      BY <1>5
    <3>2. \A x \in v : x.from <= g
      BY <1>5, <2>1
    <3> QED
      BY <3>1, <3>2
  <2>3. lo \in {x.from : x \in v} /\ \A x \in v : x.from <= lo
    BY <2>2
  <2> HIDE DEF lo
  <2> QED
    BY <1>3, <1>4, <1>5, <2>3
<1>8. c.to \in T /\ \A i \in images : c.to <= SpanOf(i, axis).to
  <2>1. PICK g \in T : \A y \in T : g <= y
    <3> HIDE DEF T
    <3> QED
      BY <1>6, SmallestNumber
  <2>2. \E a \in {x.to : x \in v} : \A x \in v : x.to >= a
    <3>1. g \in {x.to : x \in v}
      BY <1>5
    <3>2. \A x \in v : x.to \in Nat /\ g <= x.to
      <4>1. \A x \in v : x.to \in T
        BY <1>5
      <4> QED
        BY <1>6, <2>1, <4>1
    <3>3. g \in Nat
      BY <1>6
    <3>4. \A x \in v : x.to >= g
      BY <3>2, <3>3
    <3> QED
      BY <3>1, <3>4
  <2>3. hi \in {x.to : x \in v} /\ \A x \in v : x.to >= hi
    BY <2>2
  <2> HIDE DEF hi
  <2>4. c.to \in T /\ \A i \in images : SpanOf(i, axis).to >= c.to
    BY <1>3, <1>4, <1>5, <2>3
  <2> QED
    BY <1>1, <1>6, <2>4
<1>9. c.from \in Nat /\ c.to \in Nat
  BY <1>6, <1>7, <1>8
<1>10. PICK f \in images : c.from = SpanOf(f, axis).from
  BY <1>7
<1>11. PICK t \in images : c.to = SpanOf(t, axis).to
  BY <1>8
<1> HIDE DEF F, T, lo, hi
<1>12. ASSUME NEW k \in Nat
       PROVE  (\A i \in images : Between(i, axis, k)) <=> c.from <= k /\ k < c.to
  <2>1. (\A i \in images : Between(i, axis, k)) => c.from <= k /\ k < c.to
    BY <1>1, <1>10, <1>11
  <2>2. ASSUME c.from <= k, k < c.to, NEW i \in images PROVE Between(i, axis, k)
    <3>1. SpanOf(i, axis).from <= k /\ k < SpanOf(i, axis).to
      BY <1>1, <1>7, <1>8, <1>9, <2>2
    <3> QED
      BY <1>1, <3>1
  <2> QED
    BY <2>1, <2>2
<1>13. Common(images, axis) = c.from .. c.to - 1
  <2>1. ASSUME NEW k \in Common(images, axis) PROVE k \in c.from .. c.to - 1
    <3>1. k \in UNION {0 .. SideOf(i, axis) - 1 : i \in images} /\ \A i \in images : Between(i, axis, k)
      BY DEF Common
    <3>2. PICK i \in images : k \in 0 .. SideOf(i, axis) - 1
      BY <3>1
    <3>3. k \in Nat
      BY <1>1, <3>2
    <3> QED
      BY <1>9, <1>12, <3>1, <3>3
  <2>2. ASSUME NEW k \in c.from .. c.to - 1 PROVE k \in Common(images, axis)
    <3>1. k \in Nat /\ c.from <= k /\ k < c.to
      BY <1>9
    <3>2. k \in 0 .. SideOf(t, axis) - 1
      BY <1>1, <1>11, <3>1
    <3> QED
      BY <1>12, <3>1, <3>2 DEF Common
  <2> QED
    BY <2>1, <2>2
<1>14. \A i \in images : c.to <= SideOf(i, axis)
  BY <1>1, <1>8, <1>9
<1> QED
  BY <1>9, <1>13, <1>14 DEF c

LEMMA CommonIsCropped ==
  ASSUME asked \in Requests, Did("crop") => answer = AutoCrop(asked.images)
  PROVE  CropCommon
<1> SUFFICES ASSUME Did("crop") PROVE CropCommon
  BY DEF CropCommon
<1> DEFINE images == asked.images
           rows == Overlapping(images, 1)  cols == Overlapping(images, 2)
           parts == [i \in images |-> [y |-> Cropped(rows, i.h), x |-> Cropped(cols, i.w)]]
<1>1. images \in SUBSET LitInside /\ images # {} /\ IsFiniteSet(images)
  BY DEF Requests, Did
<1> HIDE DEF images
<1>2. /\ rows.from \in Nat /\ rows.to \in Nat /\ Common(images, 1) = rows.from .. rows.to - 1
      /\ \A i \in images : rows.to <= SideOf(i, 1)
  BY <1>1, OverlappingIs
<1>3. /\ cols.from \in Nat /\ cols.to \in Nat /\ Common(images, 2) = cols.from .. cols.to - 1
      /\ \A i \in images : cols.to <= SideOf(i, 2)
  BY <1>1, OverlappingIs
<1>4. answer = IF rows.to <= rows.from \/ cols.to <= cols.from THEN Refused("empty") ELSE [ok |-> TRUE, parts |-> parts]
  BY DEF AutoCrop, Crop, images
<1> HIDE DEF rows, cols
<1>5. /\ rows.to <= rows.from <=> Common(images, 1) = {}
      /\ cols.to <= cols.from <=> Common(images, 2) = {}
  <2>1. ASSUME NEW a \in Nat, NEW b \in Nat PROVE b <= a <=> a .. b - 1 = {}
    <3>1. ~(b <= a) => a \in a .. b - 1
      OBVIOUS
    <3> QED
      BY <3>1
  <2> QED
    BY <1>2, <1>3, <2>1
<1>6. answer.ok <=> Common(images, 1) # {} /\ Common(images, 2) # {}
  <2> HIDE DEF parts
  <2>1. CASE rows.to <= rows.from \/ cols.to <= cols.from
    <3>1. answer.ok = FALSE
      BY <1>4, <2>1 DEF Refused
    <3> QED
      BY <1>5, <2>1, <3>1
  <2>2. CASE ~(rows.to <= rows.from \/ cols.to <= cols.from)
    <3>1. answer.ok = TRUE
      BY <1>4, <2>2
    <3> QED
      BY <1>5, <2>2, <3>1
  <2> QED
    BY <2>1, <2>2
<1>7. ASSUME answer.ok, NEW i \in images
      PROVE  LET c == answer.parts[i] IN
             /\ c.y.at .. c.y.at + c.y.len - 1 = Common(images, 1)
             /\ c.x.at .. c.x.at + c.x.len - 1 = Common(images, 2)
  <2>1. ~(rows.to <= rows.from) /\ ~(cols.to <= cols.from)
    BY <1>5, <1>6, <1>7
  <2>2. answer.parts = parts
    <3> HIDE DEF parts
    <3> QED
      BY <1>4, <2>1
  <2>3. answer.parts[i] = [y |-> Cropped(rows, i.h), x |-> Cropped(cols, i.w)]
    BY <2>2
  <2>4. i.h \in Nat /\ i.w \in Nat /\ rows.to <= i.h /\ cols.to <= i.w
    BY <1>1, <1>2, <1>3 DEF SideOf, LitInside, Positive
  <2>5. /\ Cropped(rows, i.h) = [at |-> rows.from, len |-> rows.to - rows.from]
        /\ Cropped(cols, i.w) = [at |-> cols.from, len |-> cols.to - cols.from]
    BY <1>2, <1>3, <2>1, <2>4 DEF Cropped, Lesser, Most
  <2>6. /\ answer.parts[i].y.at = rows.from /\ answer.parts[i].y.len = rows.to - rows.from
        /\ answer.parts[i].x.at = cols.from /\ answer.parts[i].x.len = cols.to - cols.from
    BY <2>3, <2>5
  <2>7. /\ rows.from + (rows.to - rows.from) - 1 = rows.to - 1
        /\ cols.from + (cols.to - cols.from) - 1 = cols.to - 1
    BY <1>2, <1>3
  <2> QED
    BY <1>2, <1>3, <2>6, <2>7
<1> QED
  BY <1>6, <1>7 DEF CropCommon, Common, Between, SideOf, images

-----------------------------------------------------------------------------
(* Calls *)

\* What has been answered is what the operation yields.
Answered ==
  /\ Did("region") => answer = RegionAnswer(asked)
  /\ Did("bin") => answer = Bin("mean", asked.factor, asked.img)
  /\ Did("fit") => answer = FitAnswer(asked)
  /\ Did("box") => answer = PixelBox(asked.point, asked.size, asked.img)
  /\ Did("crop") => answer = AutoCrop(asked.images)
  /\ Did("margins") => answer = MarginsAnswer(asked)
  /\ Did("index") => answer = IndexAnswer(asked)
RegionInv == asked \in Requests /\ done \in BOOLEAN /\ Answered

LEMMA CallsAnswer ==
  ASSUME RegionInv, [RegionNext]_callVars
  PROVE  RegionInv'
<1>1. asked' = asked /\ done' \in BOOLEAN
  BY DEF RegionInv, RegionNext, SelectRegion, BinImage, FitPicture, BoxAround, CropImages, CropMargins, BoundIndex, Call, callVars
<1>2. asked' \in Requests
  BY <1>1 DEF RegionInv
<1>3. CASE UNCHANGED callVars
  BY <1>1, <1>2, <1>3 DEF callVars, RegionInv, Answered, Did
<1>4. CASE SelectRegion
  <2>1. asked.op = "region" /\ answer' = RegionAnswer(asked)
    BY <1>4 DEF SelectRegion, Call
  <2> QED
    BY <1>1, <1>2, <2>1 DEF RegionInv, Answered, Did
<1>5. CASE BinImage
  <2>1. asked.op = "bin" /\ answer' = Bin("mean", asked.factor, asked.img)
    BY <1>5 DEF BinImage, Call
  <2> QED
    BY <1>1, <1>2, <2>1 DEF RegionInv, Answered, Did
<1>6. CASE FitPicture
  <2>1. asked.op = "fit" /\ answer' = FitAnswer(asked)
    BY <1>6 DEF FitPicture, Call
  <2> QED
    BY <1>1, <1>2, <2>1 DEF RegionInv, Answered, Did
<1>7. CASE BoxAround
  <2>1. asked.op = "box" /\ answer' = PixelBox(asked.point, asked.size, asked.img)
    BY <1>7 DEF BoxAround, Call
  <2> QED
    BY <1>1, <1>2, <2>1 DEF RegionInv, Answered, Did
<1>8. CASE CropImages
  <2>1. asked.op = "crop" /\ answer' = AutoCrop(asked.images)
    BY <1>8 DEF CropImages, Call
  <2> QED
    BY <1>1, <1>2, <2>1 DEF RegionInv, Answered, Did
<1>9. CASE CropMargins
  <2>1. asked.op = "margins" /\ answer' = MarginsAnswer(asked)
    BY <1>9 DEF CropMargins, Call
  <2> QED
    BY <1>1, <1>2, <2>1 DEF RegionInv, Answered, Did
<1>10. CASE BoundIndex
  <2>1. asked.op = "index" /\ answer' = IndexAnswer(asked)
    BY <1>10 DEF BoundIndex, Call
  <2> QED
    BY <1>1, <1>2, <2>1 DEF RegionInv, Answered, Did
<1> QED
  BY <1>3, <1>4, <1>5, <1>6, <1>7, <1>8, <1>9, <1>10 DEF RegionNext

LEMMA AnswersAreExact == RegionInv => RegionsExact
<1> SUFFICES ASSUME RegionInv PROVE RegionsExact
  OBVIOUS
<1>1. RegionAsAsked
  BY RegionIsAsAsked DEF RegionInv, Answered
<1>2. BlocksExact
  BY BlocksAreExact DEF RegionInv, Answered
<1>3. PictureFits
  BY PicturesFit DEF RegionInv, Answered
<1>4. BoxCentred
  BY BoxesAreCentred DEF RegionInv, Answered
<1>5. CropCommon
  BY CommonIsCropped DEF RegionInv, Answered
<1>6. MarginsLeft
  BY MarginsAreLeft DEF RegionInv, Answered
<1>7. IndicesBounded
  BY IndicesAreBounded DEF RegionInv, Answered
<1> QED
  BY <1>1, <1>2, <1>3, <1>4, <1>5, <1>6, <1>7 DEF RegionsExact, RegionInv

\* Of images and requests of any size, a region is exactly the pixels asked for and on the
\* image, a cutout shows each where its header says, a binned pixel is the mean of what it
\* touches, a picture fits its bound by the least factor, a box is centred, a crop keeps
\* what all images have, and no sampler leaves the image (region.rs, cutout.rs, pixel.rs,
\* downsample.rs, render, crop.rs, boundary.rs, sampling.rs).
THEOREM RegionsAreExact == RegionSpec => []RegionsExact
<1>1. RegionInit => RegionInv
  BY DEF RegionInit, RegionInv, Answered, Did
<1>2. RegionInv /\ [RegionNext]_callVars => RegionInv'
  BY CallsAnswer
<1>3. RegionInv => RegionsExact
  BY AnswersAreExact
<1> QED
  BY <1>1, <1>2, <1>3, PTL DEF RegionSpec

-----------------------------------------------------------------------------
(* The raw file endpoint *)

USE BoundAssumption, PackedAssumption, NoneAssumption

-----------------------------------------------------------------------------
(* Ranges *)

\* What is resolved is the whole file for a range that is not one, and else
\* exactly the positions selected, or 416 if there are none.
LEMMA ResolvedIsSelected ==
  ASSUME NEW r \in Ranges, NEW n \in Nat
  PROVE  LET a == Resolve(r, n) IN
         /\ a \in [status : {200, 206, 416}, first : Nat, len : Nat]
         /\ ~WellFormed(r) => a.status = 200 /\ a.first = 0 /\ a.len = n
         /\ WellFormed(r) => a.status # 200
         /\ WellFormed(r) /\ a.status = 416 => Selected(r, n) = {}
         /\ WellFormed(r) /\ a.status = 206 =>
              a.len > 0 /\ a.first + a.len <= n /\ Selected(r, n) = a.first .. a.first + a.len - 1
<1> SUFFICES ASSUME NEW a, a = Resolve(r, n)
             PROVE
               /\ a \in [status : {200, 206, 416}, first : Nat, len : Nat]
               /\ ~WellFormed(r) => a.status = 200 /\ a.first = 0 /\ a.len = n
               /\ WellFormed(r) => a.status # 200
               /\ WellFormed(r) /\ a.status = 416 => Selected(r, n) = {}
               /\ WellFormed(r) /\ a.status = 206 =>
                    a.len > 0 /\ a.first + a.len <= n /\ Selected(r, n) = a.first .. a.first + a.len - 1
  OBVIOUS
<1> USE DEF Ignore, Unsatisfiable, Satisfiable, Least
<1>1. CASE r.kind \in {"none", "garbage"}
  <2>1. a = [status |-> 200, first |-> 0, len |-> n]
    BY <1>1 DEF Resolve, ParseRange
  <2> QED
    BY <1>1, <2>1 DEF WellFormed
<1>2. CASE r.kind = "from"
  <2>1. r.first \in Nat
    BY <1>2 DEF Ranges
  <2>2. a = IF r.first >= n THEN [status |-> 416, first |-> 0, len |-> 0]
            ELSE [status |-> 206, first |-> r.first, len |-> n - r.first]
    BY <1>2, <2>1 DEF Resolve, ParseRange
  <2>3. Selected(r, n) = {i \in 0 .. n - 1 : i >= r.first}
    BY <1>2 DEF Selected
  <2> QED
    BY <1>2, <2>1, <2>2, <2>3 DEF WellFormed
<1>3. CASE r.kind = "suffix"
  <2>1. r.first \in Nat
    BY <1>3 DEF Ranges
  <2>2. a = LET m == Least(r.first, n) IN
            IF m = 0 THEN [status |-> 416, first |-> 0, len |-> 0]
            ELSE [status |-> 206, first |-> n - m, len |-> m]
    BY <1>3, <2>1 DEF Resolve, ParseRange
  <2>3. Selected(r, n) = {i \in 0 .. n - 1 : i >= n - r.first}
    BY <1>3 DEF Selected
  <2> QED
    BY <1>3, <2>1, <2>2, <2>3 DEF WellFormed
<1>4. CASE r.kind = "span"
  <2>1. r.first \in Nat /\ r.last \in Nat
    BY <1>4 DEF Ranges
  <2>2. a = IF r.last < r.first THEN [status |-> 200, first |-> 0, len |-> n]
            ELSE IF r.first >= n THEN [status |-> 416, first |-> 0, len |-> 0]
            ELSE [status |-> 206, first |-> r.first, len |-> Least(r.last, n - 1) - r.first + 1]
    BY <1>4, <2>1 DEF Resolve, ParseRange
  <2>3. Selected(r, n) = {i \in 0 .. n - 1 : r.first <= i /\ i <= r.last}
    BY <1>4 DEF Selected
  <2>4. WellFormed(r) <=> ~(r.last < r.first)
    BY <1>4, <2>1 DEF WellFormed
  <2>5. CASE r.last < r.first
    <3>1. a = [status |-> 200, first |-> 0, len |-> n]
      BY <2>2, <2>5
    <3> QED
      BY <3>1, <2>4, <2>5, <1>4
  <2>6. CASE ~(r.last < r.first) /\ r.first >= n
    <3>1. a = [status |-> 416, first |-> 0, len |-> 0]
      BY <2>2, <2>6
    <3>2. Selected(r, n) = {}
      BY <2>1, <2>3, <2>6
    <3> QED
      BY <3>1, <3>2, <2>4, <2>6, <1>4
  <2>7. CASE ~(r.last < r.first) /\ ~(r.first >= n)
    <3> DEFINE e == Least(r.last, n - 1)
    <3>1. a = [status |-> 206, first |-> r.first, len |-> e - r.first + 1]
      BY <2>2, <2>7
    <3>2. e \in Nat /\ r.first <= e /\ e <= n - 1 /\ e <= r.last /\ (e = r.last \/ e = n - 1)
      BY <2>1, <2>7
    <3>3. Selected(r, n) = r.first .. e
      BY <2>1, <2>3, <3>2
    <3>4. e = a.first + a.len - 1 /\ a.first = r.first
      BY <2>1, <3>1, <3>2
    <3> HIDE DEF e
    <3>5. a \in [status : {200, 206, 416}, first : Nat, len : Nat]
      BY <2>1, <3>1, <3>2
    <3>6. a.status = 206 /\ a.len > 0 /\ a.first + a.len <= n
      BY <2>1, <3>1, <3>2
    <3> QED
      BY <3>3, <3>4, <3>5, <3>6, <2>4, <2>7, <1>4
  <2> QED
    BY <2>5, <2>6, <2>7
<1>5. r.kind \in {"none", "garbage", "from", "suffix", "span"}
  BY DEF Ranges
<1> QED
  BY <1>1, <1>2, <1>3, <1>4, <1>5

\* What is resolved of an open range goes from there to the end.
LEMMA OpenRange ==
  ASSUME NEW r, r.kind = "from", r.first \in Nat, NEW n \in Nat, Resolve(r, n).status = 206
  PROVE  Resolve(r, n).first = r.first /\ Resolve(r, n).first + Resolve(r, n).len = n
<1>1. Resolve(r, n) = IF r.first >= n THEN [status |-> 416, first |-> 0, len |-> 0]
                      ELSE [status |-> 206, first |-> r.first, len |-> n - r.first]
  BY DEF Resolve, ParseRange, Unsatisfiable, Satisfiable
<1> QED
  BY <1>1

-----------------------------------------------------------------------------
(* The invariant *)

Working == {"asked", "statted", "opened"}
Answering == {"streaming", "answered"}

\* What the path stands for, and its length.
Served == IF client.mode = "verbatim" THEN Raw(disk) ELSE Rendition(disk, length[disk])
Size == IF client.mode = "verbatim" THEN length[disk] ELSE Packed[length[disk]]
Part(at, n) == [i \in 1 .. n |-> Byte(Served, at + i - 1)]

\* The disk has kept still, and a request is under way.
Still == fresh /\ disk # None /\ client.mode # "unknown"
Asking == Still /\ client.phase \in {"probing", "copying"}

Types ==
  /\ disk \in Files \cup {None}
  /\ length \in [Files -> Lengths]
  /\ pc \in {"idle", "broken"} \cup Working \cup Answering
  /\ req.sent \in Nat
  /\ req = [range |-> req.range, total |-> req.total, file |-> req.file, status |-> req.status,
            first |-> req.first, len |-> req.len, sent |-> req.sent]
  /\ client = [phase |-> client.phase, mode |-> client.mode, got |-> client.got]
  /\ client.phase \in {"start", "probing", "copying", "done", "failed"}
  /\ client.mode \in Modes
  /\ client.phase = "start" => client.mode = "verbatim" /\ client.got = << >>
  /\ client.phase \in {"copying", "done"} => client.mode # "unknown"
  /\ pc = "idle" <=> client.phase \in {"start", "done", "failed"}

\* What the handler knows is true of what is served, from the stat on.
KnowsFile ==
  /\ pc = "statted" => req.total = length[disk]
  /\ pc \in {"opened"} \cup Answering => req.total = Size /\ req.file = Served

\* The answer is the one of the range, and what is sent does not exceed it.
AnswersRange ==
  LET a == Resolve(req.range, Size) IN
  /\ req.range \in Ranges
  /\ pc \in Working => req.sent = 0
  /\ pc \in Answering => req.status = a.status
  /\ pc \in Answering /\ a.status # 416 => req.first = a.first /\ req.len = a.len /\ req.sent <= a.len
  /\ pc = "streaming" => a.status # 416
  /\ pc = "answered" /\ a.status # 416 => req.sent = a.len

\* A probe has what was sent; a copy has the beginning of the file, goes on
\* from there, and has what was sent and what lies before it.
ProbeHas ==
  /\ pc \in Working => client.got = << >>
  /\ pc \in Answering => client.got = IF req.status = 416 THEN << >> ELSE Part(req.first, req.sent)
CopyHas ==
  LET n == Len(client.got) IN
  /\ n \in 0 .. Size /\ client.got = Part(0, n)
  /\ req.range.kind \in {"none", "from"}
  /\ pc \in Working => (req.range.kind = "none" \/ req.range.first = n)
  /\ pc \in Answering /\ req.status # 416 => n = req.first + req.sent

IInv ==
  /\ Types
  /\ Asking => KnowsFile /\ AnswersRange
  /\ Asking /\ client.phase = "probing" => ProbeHas
  /\ Asking /\ client.phase = "copying" => CopyHas
  /\ Still /\ client.phase = "done" => client.got = Part(0, Size)

-----------------------------------------------------------------------------
(* What the invariant rests on *)

\* What is served has a length.
LEMMA SizeIsNat ==
  ASSUME Types, Still
  PROVE  Size \in Nat /\ length[disk] \in Lengths /\ Served.packed \in Nat \cup {None}
BY DEF Types, Still, Size, Lengths, Served, Raw, Rendition, Modes

\* A part one byte longer is the part and the byte.
LEMMA PartGrows ==
  ASSUME NEW at \in Nat, NEW n \in Nat
  PROVE  /\ Part(at, n) \in Seq({Byte(Served, i) : i \in Nat}) /\ Len(Part(at, n)) = n
         /\ Part(at, 0) = << >>
         /\ Append(Part(at, n), Byte(Served, at + n)) = Part(at, n + 1)
<1> DEFINE B == {Byte(Served, i) : i \in Nat}
<1>1. ASSUME NEW m \in Nat  PROVE  Part(at, m) \in Seq(B) /\ Len(Part(at, m)) = m
  <2>1. \A i \in 1 .. m : Byte(Served, at + i - 1) \in B
    <3> SUFFICES ASSUME NEW i \in 1 .. m  PROVE  Byte(Served, at + i - 1) \in B
      OBVIOUS
    <3>1. at + i - 1 \in Nat
      OBVIOUS
    <3> QED
      BY <3>1
  <2> HIDE DEF B
  <2>2. Part(at, m) \in [1 .. m -> B]
    BY <2>1 DEF Part
  <2> QED
    BY <2>2
<1>2. Part(at, 0) = << >>
  BY DEF Part
<1>3. Append(Part(at, n), Byte(Served, at + n)) = Part(at, n + 1)
  <2> HIDE DEF B
  <2>1. Byte(Served, at + n) \in B
    BY DEF B
  <2>2. DOMAIN Append(Part(at, n), Byte(Served, at + n)) = 1 .. n + 1
    BY <1>1, <2>1
  <2>3. ASSUME NEW i \in 1 .. n + 1
        PROVE  Append(Part(at, n), Byte(Served, at + n))[i] = Byte(Served, at + i - 1)
    <3>1. CASE i = n + 1
      <4>1. Append(Part(at, n), Byte(Served, at + n))[i] = Byte(Served, at + n)
        BY <1>1, <2>1, <3>1
      <4>2. at + i - 1 = at + n
        BY <3>1
      <4> QED
        BY <4>1, <4>2
    <3>2. CASE i \in 1 .. n
      <4>1. Append(Part(at, n), Byte(Served, at + n))[i] = Part(at, n)[i]
        BY <1>1, <2>1, <3>2
      <4> QED
        BY <4>1, <3>2 DEF Part
    <3>3. i = n + 1 \/ i \in 1 .. n
      OBVIOUS
    <3> QED
      BY <3>1, <3>2, <3>3
  <2>4. Append(Part(at, n), Byte(Served, at + n)) = [i \in 1 .. n + 1 |-> Byte(Served, at + i - 1)]
    <3>1. Append(Part(at, n), Byte(Served, at + n)) \in Seq(B)
      BY <1>1, <2>1
    <3> QED
      BY <3>1, <2>2, <2>3
  <2> QED
    BY <2>4 DEF Part
<1> QED
  BY <1>1, <1>2, <1>3

\* What is served is a matter of the disk and the mode alone.
LEMMA SameServed ==
  ASSUME UNCHANGED <<disk, length, fresh>>, client.mode' = client.mode
  PROVE  /\ Served' = Served /\ Size' = Size /\ (Still <=> Still')
         /\ \A at, n : Part(at, n)' = Part(at, n)
<1>1. Served' = Served /\ Size' = Size
  BY DEF Served, Size
<1>2. Still <=> Still'
  BY DEF Still
<1>3. \A at, n : Part(at, n)' = Part(at, n)
  BY <1>1 DEF Part
<1> QED
  BY <1>1, <1>2, <1>3

-----------------------------------------------------------------------------
(* The invariant is inductive *)

LEMMA Starts == Init => IInv
<1> SUFFICES ASSUME Init  PROVE  IInv
  OBVIOUS
<1>1. Types
  BY DEF Init, Types, NoRequest, Ranges, Modes, Working, Answering
<1> QED
  BY <1>1 DEF Init, IInv, Asking

LEMMA StatKeeps == IInv /\ Stat => IInv'
<1> SUFFICES ASSUME IInv, Stat  PROVE  IInv'
  OBVIOUS
<1> USE DEF IInv, Stat, Answer
<1>1. Types'
  <2>1. CASE pc' = "statted" /\ req' = [req EXCEPT !.total = length[disk]]
    BY <2>1 DEF Types, Working, Answering
  <2>2. CASE pc' = "answered" /\ \E status : req' = [req EXCEPT !.status = status]
    BY <2>2 DEF Types, Working, Answering
  <2> QED
    BY <2>1, <2>2
<1>2. Served' = Served /\ Size' = Size /\ (Still <=> Still') /\ (Asking <=> Asking')
  BY SameServed DEF Asking
<1>3. \A n : Part(0, n)' = Part(0, n)
  BY SameServed
<1>4. ASSUME Asking
      PROVE  /\ pc' = "statted" /\ req'.total = length[disk]
             /\ req' = [req EXCEPT !.total = length[disk]]
  BY <1>4 DEF Asking, Still, Types
<1>5. Asking' => KnowsFile' /\ AnswersRange'
  BY <1>2, <1>4 DEF Types, KnowsFile, AnswersRange, Working, Answering
<1>6. Asking' /\ client'.phase = "probing" => ProbeHas'
  BY <1>2, <1>4 DEF Types, ProbeHas, Working, Answering
<1>7. Asking' /\ client'.phase = "copying" => CopyHas'
  BY <1>2, <1>3, <1>4 DEF Types, CopyHas, Working, Answering
<1> QED
  BY <1>1, <1>2, <1>3, <1>5, <1>6, <1>7 DEF Types

LEMMA OpenKeeps == IInv /\ Open => IInv'
<1> SUFFICES ASSUME IInv, Open  PROVE  IInv'
  OBVIOUS
<1> USE DEF IInv, Open, Answer
<1>1. Types'
  <2>1. CASE pc' = "opened" /\ req' = [req EXCEPT !.file = Raw(disk)]
    BY <2>1 DEF Types, Working, Answering
  <2>2. CASE pc' = "answered" /\ req' = [req EXCEPT !.status = 404]
    BY <2>2 DEF Types, Working, Answering
  <2> QED
    BY <2>1, <2>2
<1>2. Served' = Served /\ Size' = Size /\ (Still <=> Still') /\ (Asking <=> Asking')
  BY SameServed DEF Asking
<1>3. \A n : Part(0, n)' = Part(0, n)
  BY SameServed
<1>4. ASSUME Asking
      PROVE  pc' = "opened" /\ req' = [req EXCEPT !.file = Served] /\ req.total = Size
  BY <1>4 DEF Asking, Still, Types, KnowsFile, Served, Size
<1>5. Asking' => KnowsFile' /\ AnswersRange'
  <2> SUFFICES ASSUME Asking  PROVE  KnowsFile' /\ AnswersRange'
    BY <1>2
  <2>1. pc' = "opened" /\ req'.total = Size /\ req'.file = Served
    BY <1>4 DEF Types
  <2>2. req'.sent = 0 /\ req'.range = req.range
    BY <1>4 DEF Types, AnswersRange, Working
  <2>3. req.range \in Ranges
    BY <1>4 DEF AnswersRange
  <2> QED
    BY <1>2, <2>1, <2>2, <2>3 DEF KnowsFile, AnswersRange, Working, Answering
<1>6. Asking' /\ client'.phase = "probing" => ProbeHas'
  BY <1>2, <1>4 DEF Types, ProbeHas, Working, Answering
<1>7. Asking' /\ client'.phase = "copying" => CopyHas'
  BY <1>2, <1>3, <1>4 DEF Types, CopyHas, Working, Answering
<1> QED
  BY <1>1, <1>2, <1>3, <1>5, <1>6, <1>7 DEF Types

LEMMA CompressKeeps == IInv /\ Compress => IInv'
<1> SUFFICES ASSUME IInv, Compress  PROVE  IInv'
  OBVIOUS
<1> USE DEF IInv, Compress, Answer
<1>1. Types'
  <2>1. CASE /\ pc' = "opened"
             /\ req' = [req EXCEPT !.file = Rendition(disk, length[disk]),
                                   !.total = Packed[length[disk]]]
    BY <2>1 DEF Types, Working, Answering
  <2>2. CASE pc' = "answered" /\ req' = [req EXCEPT !.status = 500]
    BY <2>2 DEF Types, Working, Answering
  <2> QED
    BY <2>1, <2>2
<1>2. Served' = Served /\ Size' = Size /\ (Still <=> Still') /\ (Asking <=> Asking')
  BY SameServed DEF Asking
<1>3. \A n : Part(0, n)' = Part(0, n)
  BY SameServed
<1>4. ASSUME Asking
      PROVE  pc' = "opened" /\ req' = [req EXCEPT !.file = Served, !.total = Size]
  BY <1>4 DEF Asking, Still, Types, Served, Size
<1>5. Asking' => KnowsFile' /\ AnswersRange'
  <2> SUFFICES ASSUME Asking  PROVE  KnowsFile' /\ AnswersRange'
    BY <1>2
  <2>1. pc' = "opened" /\ req'.total = Size /\ req'.file = Served
    BY <1>4 DEF Types
  <2>2. req'.sent = 0 /\ req'.range = req.range
    BY <1>4 DEF Types, AnswersRange, Working
  <2>3. req.range \in Ranges
    BY <1>4 DEF AnswersRange
  <2> QED
    BY <1>2, <2>1, <2>2, <2>3 DEF KnowsFile, AnswersRange, Working, Answering
<1>6. Asking' /\ client'.phase = "probing" => ProbeHas'
  BY <1>2, <1>4 DEF Types, ProbeHas, Working, Answering
<1>7. Asking' /\ client'.phase = "copying" => CopyHas'
  BY <1>2, <1>3, <1>4 DEF Types, CopyHas, Working, Answering
<1> QED
  BY <1>1, <1>2, <1>3, <1>5, <1>6, <1>7 DEF Types

LEMMA RespondKeeps == IInv /\ Respond => IInv'
<1>a. SUFFICES ASSUME IInv, Respond  PROVE  IInv'
  OBVIOUS
<1> DEFINE a == Resolve(req.range, req.total)
<1>0. \/ /\ a.status = 416 /\ pc' = "answered"
         /\ req' = [req EXCEPT !.status = 416] /\ client' = client
      \/ /\ a.status # 416 /\ pc' = "streaming"
         /\ req' = [req EXCEPT !.status = a.status, !.first = a.first, !.len = a.len]
         /\ client' = IF client.phase = "copying" /\ a.status = 200
                      THEN [client EXCEPT !.got = << >>] ELSE client
  BY <1>a DEF Respond, Answer
<1>e. UNCHANGED <<disk, length, fresh, breaks, changes>> /\ pc = "opened"
  BY <1>a DEF Respond
<1> HIDE DEF a
<1>b. Types /\ (Asking => KnowsFile /\ AnswersRange)
      /\ (Asking /\ client.phase = "probing" => ProbeHas)
      /\ (Asking /\ client.phase = "copying" => CopyHas)
  BY <1>a DEF IInv
<1>c. /\ req'.range = req.range /\ req'.total = req.total /\ req'.file = req.file
      /\ req'.sent = req.sent /\ req'.status = a.status
      /\ a.status = 416 => pc' = "answered" /\ client' = client
      /\ a.status # 416 => pc' = "streaming" /\ req'.first = a.first /\ req'.len = a.len
  <2>1. req = [range |-> req.range, total |-> req.total, file |-> req.file, status |-> req.status,
               first |-> req.first, len |-> req.len, sent |-> req.sent]
    BY <1>b DEF Types
  <2>2. CASE a.status = 416
    <3>1. req' = [req EXCEPT !.status = 416] /\ pc' = "answered" /\ client' = client
      BY <1>0, <2>2
    <3> QED
      BY <2>1, <2>2, <3>1
  <2>3. CASE a.status # 416
    <3>1. /\ req' = [req EXCEPT !.status = a.status, !.first = a.first, !.len = a.len]
          /\ pc' = "streaming"
      BY <1>0, <2>3
    <3> QED
      BY <2>1, <2>3, <3>1
  <2> QED
    BY <2>2, <2>3
<1>d. /\ client' = [client EXCEPT !.got = client'.got]
      /\ client'.mode = client.mode /\ client'.phase = client.phase
      /\ client'.got = IF client.phase = "copying" /\ a.status = 200 THEN << >> ELSE client.got
  <2>1. client = [phase |-> client.phase, mode |-> client.mode, got |-> client.got]
    BY <1>b DEF Types
  <2> QED
    BY <1>0, <2>1
<1>1. Types'
  <2>1. req' = [range |-> req'.range, total |-> req'.total, file |-> req'.file, status |-> req'.status,
                first |-> req'.first, len |-> req'.len, sent |-> req'.sent]
    <3>1. req = [range |-> req.range, total |-> req.total, file |-> req.file, status |-> req.status,
                 first |-> req.first, len |-> req.len, sent |-> req.sent]
      BY <1>b DEF Types
    <3>2. CASE req' = [req EXCEPT !.status = 416]
      BY <3>1, <3>2
    <3>3. CASE req' = [req EXCEPT !.status = a.status, !.first = a.first, !.len = a.len]
      BY <3>1, <3>3
    <3> QED
      BY <1>0, <3>2, <3>3
  <2>2. pc' \in Answering
    BY <1>0 DEF Answering
  <2> QED
    BY <1>e, <1>b, <1>c, <1>d, <2>1, <2>2 DEF Types, Working, Answering
<1>2. Served' = Served /\ Size' = Size /\ (Still <=> Still') /\ (Asking <=> Asking')
  BY <1>e, <1>d, SameServed DEF Asking
<1>3. \A at, n : Part(at, n)' = Part(at, n)
  BY <1>e, <1>d, SameServed
<1>4. ASSUME Asking
      PROVE  /\ req.total = Size /\ req.file = Served /\ req.sent = 0 /\ Size \in Nat
             /\ a = Resolve(req.range, Size) /\ req.range \in Ranges
             /\ a \in [status : {200, 206, 416}, first : Nat, len : Nat]
             /\ ~WellFormed(req.range) => a.status = 200 /\ a.first = 0 /\ a.len = Size
             /\ WellFormed(req.range) => a.status # 200
             /\ req.range.kind = "from" /\ a.status = 206 =>
                  a.first = req.range.first /\ a.first + a.len = Size
  <2>1. req.total = Size /\ req.file = Served /\ req.sent = 0
    BY <1>4, <1>e, <1>b DEF KnowsFile, AnswersRange, Working
  <2>2. Size \in Nat
    BY <1>4, <1>b, SizeIsNat DEF Asking
  <2>3. req.range \in Ranges
    BY <1>4, <1>b DEF AnswersRange
  <2>4. a = Resolve(req.range, Size)
    BY <2>1 DEF a
  <2> DEFINE p == Resolve(req.range, Size)
  <2>5. p \in [status : {200, 206, 416}, first : Nat, len : Nat]
    BY <2>2, <2>3, ResolvedIsSelected
  <2>6. ~WellFormed(req.range) => p.status = 200 /\ p.first = 0 /\ p.len = Size
    BY <2>2, <2>3, ResolvedIsSelected
  <2>7. WellFormed(req.range) => p.status # 200
    BY <2>2, <2>3, ResolvedIsSelected
  <2>8. req.range.kind = "from" /\ p.status = 206 =>
          p.first = req.range.first /\ p.first + p.len = Size
    <3>1. req.range.kind = "from" => req.range.first \in Nat
      BY <2>3 DEF Ranges
    <3> QED
      BY <2>2, <3>1, OpenRange
  <2> HIDE DEF p
  <2>9. a = p
    BY <2>4 DEF p
  <2> QED
    BY <2>1, <2>2, <2>3, <2>4, <2>5, <2>6, <2>7, <2>8, <2>9
<1>5. Asking' => KnowsFile' /\ AnswersRange'
  <2>1. SUFFICES ASSUME Asking  PROVE  KnowsFile' /\ AnswersRange'
    BY <1>2
  <2>2. pc' \in Answering /\ pc' \notin Working /\ pc' # "statted"
    BY <1>0 DEF Answering, Working
  <2>3. KnowsFile'
    BY <1>c, <1>2, <1>4, <2>1, <2>2 DEF KnowsFile
  <2>4. Resolve(req.range, Size)' = a
    BY <1>c, <1>2, <1>4, <2>1
  <2>5. a.status # 416 => 0 <= a.len /\ pc' # "answered"
    BY <1>c, <1>4, <2>1
  <2> QED
    BY <1>c, <1>4, <2>1, <2>2, <2>3, <2>4, <2>5 DEF AnswersRange
<1>6. Asking' /\ client'.phase = "probing" => ProbeHas'
  <2>1. SUFFICES ASSUME Asking, client.phase = "probing"  PROVE  ProbeHas'
    BY <1>2, <1>d
  <2>2. client'.got = << >>
    BY <1>e, <1>b, <1>d, <2>1 DEF ProbeHas, Working
  <2>3. pc' \in Answering /\ pc' \notin Working
    BY <1>0 DEF Answering, Working
  <2>4. req'.sent = 0 /\ (req'.status # 416 => req'.first \in Nat)
    BY <1>c, <1>4, <2>1
  <2>5. req'.status # 416 => Part(req.first, req.sent)' = << >>
    BY <1>2, <2>4 DEF Part
  <2> QED
    BY <2>2, <2>3, <2>5 DEF ProbeHas
<1>7. Asking' /\ client'.phase = "copying" => CopyHas'
  <2>1. SUFFICES ASSUME Asking, client.phase = "copying"  PROVE  CopyHas'
    BY <1>2, <1>d
  <2>2. pc' \in Answering /\ pc' \notin Working
    BY <1>0 DEF Answering, Working
  <2>3. CopyHas
    BY <1>b, <2>1
  <2>4. CASE a.status = 416
    <3>1. client'.got = client.got /\ req'.status = 416
      BY <1>c, <1>d, <2>4
    <3> QED
      BY <3>1, <2>2, <2>3, <1>c, <1>2, <1>3 DEF CopyHas
  <2>5. CASE a.status = 200
    <3>1. client'.got = << >>
      BY <1>d, <2>1, <2>5
    <3>2. req'.first = 0 /\ req'.sent = 0
      BY <1>c, <1>4, <2>1, <2>5
    <3>3. Part(0, 0)' = << >> /\ Len(<< >>) = 0
      BY <1>3, PartGrows
    <3> QED
      BY <3>1, <3>2, <3>3, <2>1, <2>2, <2>3, <1>c, <1>2, <1>4 DEF CopyHas
  <2>6. CASE a.status = 206
    <3>1. req.range.kind = "from"
      BY <1>4, <2>1, <2>3, <2>6 DEF CopyHas, WellFormed
    <3>2. req.range.first = Len(client.got)
      BY <3>1, <2>3, <1>e DEF CopyHas, Working
    <3>3. client'.got = client.got /\ req'.first = Len(client.got) /\ req'.sent = 0
      BY <1>c, <1>d, <1>4, <2>1, <2>6, <3>1, <3>2
    <3> QED
      BY <3>3, <2>2, <2>3, <1>c, <1>2, <1>3 DEF CopyHas
  <2> QED
    BY <1>4, <2>1, <2>4, <2>5, <2>6
<1>8. client'.phase # "done"
  BY <1>e, <1>b, <1>d DEF Types
<1> QED
  BY <1>1, <1>5, <1>6, <1>7, <1>8 DEF IInv

LEMMA SendKeeps == IInv /\ Send => IInv'
<1>a. SUFFICES ASSUME IInv, Send  PROVE  IInv'
  OBVIOUS
<1>b. Types /\ (Asking => KnowsFile /\ AnswersRange)
      /\ (Asking /\ client.phase = "probing" => ProbeHas)
      /\ (Asking /\ client.phase = "copying" => CopyHas)
  BY <1>a DEF IInv
<1>c. /\ UNCHANGED <<disk, length, pc, fresh>> /\ pc = "streaming" /\ req.sent < req.len
      /\ req' = [req EXCEPT !.sent = req.sent + 1]
      /\ client' = [client EXCEPT !.got = Append(client.got, Byte(req.file, req.first + req.sent))]
  BY <1>a DEF Send, Position
<1>d. /\ client'.mode = client.mode /\ client'.phase = client.phase
      /\ client'.got = Append(client.got, Byte(req.file, req.first + req.sent))
  BY <1>b, <1>c DEF Types
<1>e. /\ req'.range = req.range /\ req'.total = req.total /\ req'.file = req.file
      /\ req'.status = req.status /\ req'.first = req.first /\ req'.len = req.len
      /\ req'.sent = req.sent + 1 /\ req.sent \in Nat
  BY <1>b, <1>c DEF Types
<1>1. Types'
  <2>1. /\ req' = [range |-> req'.range, total |-> req'.total, file |-> req'.file, status |-> req'.status,
                   first |-> req'.first, len |-> req'.len, sent |-> req'.sent]
        /\ client' = [phase |-> client'.phase, mode |-> client'.mode, got |-> client'.got]
    BY <1>b, <1>c DEF Types
  <2> QED
    BY <1>b, <1>c, <1>d, <1>e, <2>1 DEF Types, Working, Answering
<1>2. Served' = Served /\ Size' = Size /\ (Still <=> Still') /\ (Asking <=> Asking')
  BY <1>c, <1>d, SameServed DEF Asking
<1>3. \A at, n : Part(at, n)' = Part(at, n)
  BY <1>c, <1>d, SameServed
<1>4. ASSUME Asking
      PROVE  /\ req.file = Served /\ Size \in Nat /\ req.status # 416
             /\ req.first \in Nat /\ req.len \in Nat
             /\ req.status = Resolve(req.range, Size).status
             /\ req.first = Resolve(req.range, Size).first
             /\ req.len = Resolve(req.range, Size).len
  <2>1. Size \in Nat /\ req.range \in Ranges
    BY <1>4, <1>b, SizeIsNat DEF Asking, AnswersRange
  <2>2. Resolve(req.range, Size) \in [status : {200, 206, 416}, first : Nat, len : Nat]
    BY <2>1, ResolvedIsSelected
  <2> QED
    BY <1>4, <1>b, <1>c, <2>1, <2>2 DEF KnowsFile, AnswersRange, Answering
<1>5. Asking' => KnowsFile' /\ AnswersRange'
  <2>1. SUFFICES ASSUME Asking  PROVE  KnowsFile' /\ AnswersRange'
    BY <1>2
  <2>2. KnowsFile'
    BY <1>b, <1>c, <1>e, <1>2, <2>1 DEF KnowsFile
  <2>3. Resolve(req.range, Size)' = Resolve(req.range, Size)
    BY <1>e, <1>2
  <2>4. req'.sent <= req'.len
    BY <1>c, <1>e, <1>4, <2>1
  <2> QED
    BY <1>b, <1>c, <1>e, <1>4, <2>1, <2>2, <2>3, <2>4 DEF AnswersRange, Working
<1>6. Asking' /\ client'.phase = "probing" => ProbeHas'
  <2>1. SUFFICES ASSUME Asking, client.phase = "probing"  PROVE  ProbeHas'
    BY <1>2, <1>d
  <2>2. client.got = Part(req.first, req.sent)
    BY <1>b, <1>c, <1>4, <2>1 DEF ProbeHas, Answering
  <2>3. client'.got = Part(req.first, req.sent + 1)
    <3>1. client'.got = Append(Part(req.first, req.sent), Byte(Served, req.first + req.sent))
      BY <1>d, <1>4, <2>1, <2>2
    <3>2. req.first \in Nat /\ req.sent \in Nat
      BY <1>e, <1>4, <2>1
    <3>3. Append(Part(req.first, req.sent), Byte(Served, req.first + req.sent)) = Part(req.first, req.sent + 1)
      BY <3>2, PartGrows
    <3> QED
      BY <3>1, <3>3
  <2>4. Part(req.first, req.sent)' = Part(req.first, req.sent + 1)
    BY <1>e, <1>2 DEF Part
  <2> QED
    BY <1>c, <1>e, <1>4, <2>1, <2>3, <2>4 DEF ProbeHas, Working
<1>7. Asking' /\ client'.phase = "copying" => CopyHas'
  <2>1. SUFFICES ASSUME Asking, client.phase = "copying"  PROVE  CopyHas'
    BY <1>2, <1>d
  <2> DEFINE n == Len(client.got)
  <2>2. n \in 0 .. Size /\ client.got = Part(0, n) /\ n = req.first + req.sent
        /\ req.range.kind \in {"none", "from"}
    BY <1>b, <1>c, <1>4, <2>1 DEF CopyHas, Answering
  <2>3. client'.got = Part(0, n + 1) /\ Len(client'.got) = n + 1
    <3> HIDE DEF n
    <3>1. client'.got = Append(Part(0, n), Byte(Served, 0 + n))
      BY <1>d, <1>4, <2>1, <2>2
    <3>2. n \in Nat /\ n + 1 \in Nat
      BY <1>4, <2>1, <2>2
    <3>3. Append(Part(0, n), Byte(Served, 0 + n)) = Part(0, n + 1)
      BY <3>2, PartGrows
    <3>4. Len(Part(0, n + 1)) = n + 1
      BY <3>2, PartGrows
    <3> QED
      BY <3>1, <3>3, <3>4
  <2>4. n + 1 <= Size
    <3>1. Resolve(req.range, Size).status # 416 /\ req.range \in Ranges
      BY <1>4, <1>b, <2>1 DEF AnswersRange
    <3> DEFINE p == Resolve(req.range, Size)
    <3>2. ~WellFormed(req.range) => p.first = 0 /\ p.len = Size
      BY <1>4, <2>1, <3>1, ResolvedIsSelected
    <3>3. WellFormed(req.range) => p.status # 200
      BY <1>4, <2>1, <3>1, ResolvedIsSelected
    <3>4. WellFormed(req.range) /\ p.status = 206 => p.first + p.len <= Size
      BY <1>4, <2>1, <3>1, ResolvedIsSelected
    <3>5. p.status \in {200, 206, 416}
      BY <1>4, <2>1, <3>1, ResolvedIsSelected
    <3> HIDE DEF p
    <3>6. p.status # 416 /\ req.first = p.first /\ req.len = p.len
      BY <1>4, <2>1, <3>1 DEF p
    <3>7. req.first + req.len <= Size
      BY <1>4, <2>1, <3>2, <3>3, <3>4, <3>5, <3>6
    <3> QED
      BY <1>c, <1>e, <1>4, <2>1, <2>2, <3>7
  <2> HIDE DEF n
  <2>5. Part(0, Len(client.got))' = Part(0, n + 1)
    BY <2>3, <1>2 DEF Part
  <2>6. Len(client'.got) \in 0 .. Size' /\ client'.got = Part(0, Len(client.got))'
    BY <1>2, <1>4, <2>1, <2>2, <2>3, <2>4, <2>5
  <2>7. Len(client'.got) = req'.first + req'.sent
    BY <1>e, <1>4, <2>1, <2>2, <2>3
  <2>8. req'.range.kind \in {"none", "from"} /\ pc' = "streaming"
    BY <1>c, <1>e, <2>2
  <2> QED
    BY <2>6, <2>7, <2>8 DEF CopyHas, Working
<1>8. client'.phase # "done"
  BY <1>b, <1>c, <1>d DEF Types
<1> QED
  BY <1>1, <1>5, <1>6, <1>7, <1>8 DEF IInv

LEMMA EndOfStreamKeeps == IInv /\ EndOfStream => IInv'
<1>a. SUFFICES ASSUME IInv, EndOfStream  PROVE  IInv'
  OBVIOUS
<1>b. Types /\ (Asking => KnowsFile /\ AnswersRange)
      /\ (Asking /\ client.phase = "probing" => ProbeHas)
      /\ (Asking /\ client.phase = "copying" => CopyHas)
  BY <1>a DEF IInv
<1>c. /\ UNCHANGED <<disk, length, req, client, fresh>> /\ pc = "streaming"
      /\ \/ pc' = "answered" /\ req.sent = req.len
         \/ pc' = "broken"
  BY <1>a DEF EndOfStream
<1>1. Types'
  BY <1>b, <1>c DEF Types, Working, Answering
<1>2. Served' = Served /\ Size' = Size /\ (Still <=> Still') /\ (Asking <=> Asking')
  BY <1>c, SameServed DEF Asking
<1>3. \A at, n : Part(at, n)' = Part(at, n)
  BY <1>c, SameServed
<1>4. Resolve(req.range, Size)' = Resolve(req.range, Size)
  BY <1>c, <1>2
<1>5. Asking' => KnowsFile' /\ AnswersRange'
  <2>1. SUFFICES ASSUME Asking  PROVE  KnowsFile' /\ AnswersRange'
    BY <1>2
  <2>2. KnowsFile'
    BY <1>b, <1>c, <1>2, <2>1 DEF KnowsFile, Answering
  <2>3. AnswersRange'
    BY <1>b, <1>c, <1>4, <2>1 DEF AnswersRange, Working, Answering
  <2> QED
    BY <2>2, <2>3
<1>6. Asking' /\ client'.phase = "probing" => ProbeHas'
  <2>1. SUFFICES ASSUME Asking, client.phase = "probing"  PROVE  ProbeHas'
    BY <1>2, <1>c
  <2>2. Part(req.first, req.sent)' = Part(req.first, req.sent)
    BY <1>c, <1>2 DEF Part
  <2> QED
    BY <1>b, <1>c, <2>1, <2>2 DEF ProbeHas, Working, Answering
<1>7. Asking' /\ client'.phase = "copying" => CopyHas'
  <2>1. SUFFICES ASSUME Asking, client.phase = "copying"  PROVE  CopyHas'
    BY <1>2, <1>c
  <2>2. Part(0, Len(client.got))' = Part(0, Len(client.got))
    BY <1>c, <1>2 DEF Part
  <2> QED
    BY <1>b, <1>c, <1>2, <2>1, <2>2 DEF CopyHas, Working, Answering
<1>8. client'.phase # "done"
  BY <1>b, <1>c DEF Types
<1> QED
  BY <1>1, <1>5, <1>6, <1>7, <1>8 DEF IInv

LEMMA BreakKeeps == IInv /\ Break => IInv'
<1>a. SUFFICES ASSUME IInv, Break  PROVE  IInv'
  OBVIOUS
<1>b. Types /\ (Asking => AnswersRange) /\ (Asking /\ client.phase = "copying" => CopyHas)
  BY <1>a DEF IInv
<1>c. /\ UNCHANGED <<disk, length, req, client, fresh>> /\ pc' = "broken"
      /\ pc \in {"asked", "statted", "opened", "streaming"}
  BY <1>a DEF Break
<1>1. Types'
  BY <1>b, <1>c DEF Types, Working, Answering
<1>2. Served' = Served /\ Size' = Size /\ (Still <=> Still') /\ (Asking <=> Asking')
  BY <1>c, SameServed DEF Asking
<1>3. (Asking' => KnowsFile' /\ AnswersRange') /\ ProbeHas'
  BY <1>b, <1>c, <1>2 DEF KnowsFile, AnswersRange, ProbeHas, Working, Answering
<1>4. Asking' /\ client'.phase = "copying" => CopyHas'
  <2>1. SUFFICES ASSUME Asking, client.phase = "copying"  PROVE  CopyHas'
    BY <1>2, <1>c
  <2>2. Part(0, Len(client.got))' = Part(0, Len(client.got))
    BY <1>c, <1>2 DEF Part
  <2> QED
    BY <1>b, <1>c, <1>2, <2>1, <2>2 DEF CopyHas, Working, Answering
<1>5. client'.phase # "done"
  BY <1>b, <1>c DEF Types
<1> QED
  BY <1>1, <1>3, <1>4, <1>5 DEF IInv

LEMMA ProbeKeeps == IInv /\ Probe => IInv'
<1>a. SUFFICES ASSUME IInv, Probe  PROVE  IInv'
  OBVIOUS
<1>b. Types /\ client.phase = "start" /\ UNCHANGED <<disk, length, fresh>>
  BY <1>a DEF IInv, Probe
<1>c. PICK mode \in Modes, range \in Ranges :
        Ask(range) /\ client' = [client EXCEPT !.phase = "probing", !.mode = mode]
  <2>1. PICK mode \in Modes, first \in 0 .. MaxLength + 1, last \in 0 .. MaxLength + 1 :
          \E range \in {[kind |-> "none"], [kind |-> "garbage"],
                       [kind |-> "from", first |-> first],
                       [kind |-> "suffix", first |-> first],
                       [kind |-> "span", first |-> first, last |-> last]} :
            Ask(range) /\ client' = [client EXCEPT !.phase = "probing", !.mode = mode]
    BY <1>a DEF Probe
  <2>2. {[kind |-> "none"], [kind |-> "garbage"], [kind |-> "from", first |-> first],
         [kind |-> "suffix", first |-> first],
         [kind |-> "span", first |-> first, last |-> last]} \subseteq Ranges
    BY DEF Ranges
  <2> QED
    BY <2>1, <2>2
<1>d. /\ pc' = "asked" /\ req'.range = range /\ req'.sent = 0
      /\ req' = [range |-> range, total |-> 0, file |-> None, status |-> 0,
                 first |-> 0, len |-> 0, sent |-> 0]
  BY <1>c DEF Ask, NoRequest
<1>e. client' = [phase |-> "probing", mode |-> mode, got |-> << >>]
  BY <1>b, <1>c DEF Types
<1>1. Types'
  <2>1. req' = [range |-> req'.range, total |-> req'.total, file |-> req'.file, status |-> req'.status,
                first |-> req'.first, len |-> req'.len, sent |-> req'.sent]
    BY <1>d
  <2>2. client' = [phase |-> client'.phase, mode |-> client'.mode, got |-> client'.got]
    BY <1>e
  <2>3. client'.phase = "probing" /\ client'.mode \in Modes
    BY <1>e
  <2> QED
    BY <1>b, <1>d, <2>1, <2>2, <2>3 DEF Types, Working, Answering
<1>2. KnowsFile' /\ AnswersRange' /\ ProbeHas'
  BY <1>d, <1>e DEF KnowsFile, AnswersRange, ProbeHas, Working, Answering
<1> QED
  BY <1>1, <1>2, <1>e DEF IInv

LEMMA BeginCopyKeeps == IInv /\ BeginCopy => IInv'
<1>a. SUFFICES ASSUME IInv, BeginCopy  PROVE  IInv'
  OBVIOUS
<1>b. Types /\ client.phase = "start" /\ UNCHANGED <<disk, length, fresh>>
  BY <1>a DEF IInv, BeginCopy
<1>c. PICK mode \in {"verbatim", "lossless"} :
        client' = [client EXCEPT !.phase = "copying", !.mode = mode]
  BY <1>a DEF BeginCopy
<1>d. /\ pc' = "asked" /\ req'.range = [kind |-> "none"] /\ req'.sent = 0
      /\ req' = [range |-> [kind |-> "none"], total |-> 0, file |-> None, status |-> 0,
                 first |-> 0, len |-> 0, sent |-> 0]
  BY <1>a DEF BeginCopy, Ask, NoRequest
<1>e. client' = [phase |-> "copying", mode |-> mode, got |-> << >>]
  BY <1>b, <1>c DEF Types
<1>1. Types'
  <2>1. mode \in Modes /\ mode # "unknown"
    BY DEF Modes
  <2> QED
    BY <1>b, <1>d, <1>e, <2>1 DEF Types, Working, Answering
<1>2. KnowsFile' /\ AnswersRange'
  <2>1. req'.range \in Ranges
    BY <1>d DEF Ranges
  <2> QED
    BY <1>d, <1>e, <2>1 DEF KnowsFile, AnswersRange, Working, Answering
<1>3. Asking' => CopyHas'
  <2>1. SUFFICES ASSUME Asking'  PROVE  CopyHas'
    OBVIOUS
  <2>2. disk' \in Files /\ length' \in [Files -> Lengths]
    BY <1>1, <2>1 DEF Types, Asking, Still
  <2>3. Size' \in Nat
    BY <2>2 DEF Size, Lengths
  <2>4. Part(0, 0)' = << >>
    BY DEF Part
  <2>5. client'.got = << >> /\ Len(client'.got) = 0
    BY <1>e
  <2>6. Part(0, Len(client.got))' = << >>
    BY <2>4, <2>5 DEF Part
  <2> QED
    BY <1>d, <2>3, <2>5, <2>6 DEF CopyHas, Answering
<1> QED
  BY <1>1, <1>2, <1>3, <1>e DEF IInv

LEMMA ResumeKeeps == IInv /\ Resume => IInv'
<1>a. SUFFICES ASSUME IInv, Resume  PROVE  IInv'
  OBVIOUS
<1>b. Types /\ (Asking => CopyHas)
  BY <1>a DEF IInv, Resume
<1>c. UNCHANGED <<disk, length, client, fresh>> /\ client.phase = "copying"
  BY <1>a DEF Resume
<1>d. /\ pc' = "asked" /\ req'.range = [kind |-> "from", first |-> Len(client.got)] /\ req'.sent = 0
      /\ req' = [range |-> [kind |-> "from", first |-> Len(client.got)], total |-> 0, file |-> None,
                 status |-> 0, first |-> 0, len |-> 0, sent |-> 0]
  BY <1>a DEF Resume, Ask, NoRequest
<1>1. Types'
  BY <1>b, <1>c, <1>d DEF Types, Working, Answering
<1>2. Served' = Served /\ Size' = Size /\ (Still <=> Still') /\ (Asking <=> Asking')
  BY <1>c, SameServed DEF Asking
<1>3. Asking' => KnowsFile' /\ AnswersRange'
  <2>1. SUFFICES ASSUME Asking  PROVE  KnowsFile' /\ AnswersRange'
    BY <1>2
  <2>2. Len(client.got) \in Nat
    BY <1>b, <2>1, SizeIsNat DEF Asking, CopyHas
  <2>3. req'.range \in Ranges
    BY <1>d, <2>2 DEF Ranges
  <2> QED
    BY <1>d, <2>3 DEF KnowsFile, AnswersRange, Working, Answering
<1>4. Asking' => CopyHas'
  <2>1. SUFFICES ASSUME Asking  PROVE  CopyHas'
    BY <1>2
  <2>2. Part(0, Len(client.got))' = Part(0, Len(client.got))
    BY <1>c, <1>2 DEF Part
  <2> QED
    BY <1>b, <1>c, <1>d, <1>2, <2>1, <2>2 DEF CopyHas, Working, Answering
<1> QED
  BY <1>1, <1>3, <1>4, <1>c DEF IInv

LEMMA ConcludeKeeps == IInv /\ Conclude => IInv'
<1>a. SUFFICES ASSUME IInv, Conclude  PROVE  IInv'
  OBVIOUS
<1>b. Types /\ (Asking => KnowsFile /\ AnswersRange /\ CopyHas)
  BY <1>a DEF IInv, Conclude
<1>c. /\ UNCHANGED <<disk, length, req, fresh>> /\ pc' = "idle"
      /\ pc = "answered" /\ client.phase = "copying"
      /\ client' = [client EXCEPT !.phase = client'.phase]
      /\ client'.phase \in {"done", "failed"}
      /\ client'.phase = "done" => \/ req.status \in {200, 206}
                                   \/ req.status = 416 /\ req.total = Len(client.got)
  <2>1. client = [phase |-> client.phase, mode |-> client.mode, got |-> client.got]
    BY <1>b DEF Types
  <2> QED
    BY <1>a, <2>1 DEF Conclude
<1>d. client'.mode = client.mode /\ client'.got = client.got
  BY <1>b, <1>c DEF Types
<1>1. Types'
  BY <1>b, <1>c, <1>d DEF Types, Working, Answering
<1>2. Served' = Served /\ Size' = Size /\ (Still <=> Still')
  BY <1>c, <1>d, SameServed
<1>3. ~Asking'
  BY <1>c DEF Asking
<1>4. Still' /\ client'.phase = "done" => (client.got = Part(0, Size))'
  <2>1. SUFFICES ASSUME Still, client'.phase = "done"  PROVE  (client.got = Part(0, Size))'
    BY <1>2
  <2> DEFINE n == Len(client.got)
  <2>2. Asking
    BY <1>c, <2>1 DEF Asking
  <2>3. /\ n \in 0 .. Size /\ client.got = Part(0, n) /\ req.range.kind \in {"none", "from"}
        /\ req.total = Size /\ req.range \in Ranges
        /\ req.status # 416 => n = req.first + req.sent
    BY <1>b, <1>c, <2>2 DEF CopyHas, KnowsFile, AnswersRange, Answering
  <2>4. /\ req.status = Resolve(req.range, Size).status
        /\ req.status # 416 => /\ req.first = Resolve(req.range, Size).first
                               /\ req.sent = Resolve(req.range, Size).len
    BY <1>b, <1>c, <2>2 DEF AnswersRange, Answering
  <2> HIDE DEF n
  <2>5. n = Size
    <3>1. Size \in Nat
      BY <1>b, <2>1, SizeIsNat
    <3> DEFINE a == Resolve(req.range, Size)
    <3>2. ~WellFormed(req.range) => a.status = 200 /\ a.first = 0 /\ a.len = Size
      BY <2>3, <3>1, ResolvedIsSelected
    <3>3. WellFormed(req.range) => a.status # 200
      BY <2>3, <3>1, ResolvedIsSelected
    <3>4. req.range.kind = "from" => req.range.first \in Nat
      BY <2>3 DEF Ranges
    <3>5. req.range.kind = "from" /\ a.status = 206 =>
            a.first = req.range.first /\ a.first + a.len = Size
      BY <3>1, <3>4, OpenRange
    <3> HIDE DEF a
    <3>6. req.status = a.status /\ (a.status # 416 => req.first = a.first /\ req.sent = a.len)
      BY <2>4 DEF a
    <3>7. CASE req.status = 200
      <4>1. req.first = 0 /\ req.sent = Size
        BY <3>2, <3>3, <3>6, <3>7
      <4> QED
        BY <2>3, <3>1, <3>7, <4>1
    <3>8. CASE req.status = 206
      <4>1. WellFormed(req.range)
        BY <3>2, <3>6, <3>8
      <4>2. req.range.kind = "from"
        BY <2>3, <4>1 DEF WellFormed
      <4>3. /\ req.range.first \in Nat
            /\ req.first = req.range.first /\ req.first + req.sent = Size
        BY <3>4, <3>5, <3>6, <3>8, <4>2
      <4> QED
        BY <2>3, <3>1, <3>8, <4>3
    <3>9. CASE req.status = 416
      BY <1>c, <2>1, <2>3, <3>9 DEF n
    <3> QED
      BY <1>c, <2>1, <3>7, <3>8, <3>9
  <2>6. Part(0, Size)' = Part(0, Size)
    BY <1>2 DEF Part
  <2> QED
    BY <1>d, <2>3, <2>5, <2>6
<1> QED
  BY <1>1, <1>3, <1>4 DEF IInv

\* Nothing is claimed once the disk has changed.
LEMMA ChangeKeeps == IInv /\ (Resize \/ Rename) => IInv'
<1>a. SUFFICES ASSUME IInv, Resize \/ Rename  PROVE  IInv'
  OBVIOUS
<1>b. Types
  BY <1>a DEF IInv
<1>c. UNCHANGED <<pc, req, client>> /\ fresh' = FALSE
  BY <1>a DEF Resize, Rename, Change
<1>1. disk' \in Files \cup {None} /\ length' \in [Files -> Lengths]
  BY <1>a, <1>b DEF Resize, Rename, Types
<1>2. Types'
  BY <1>b, <1>c, <1>1 DEF Types, Working, Answering
<1>3. ~Still' /\ ~Asking'
  BY <1>c DEF Still, Asking
<1> QED
  BY <1>2, <1>3 DEF IInv

LEMMA StutterKeeps == IInv /\ UNCHANGED vars => IInv'
<1>a. SUFFICES ASSUME IInv, UNCHANGED vars  PROVE  IInv'
  OBVIOUS
<1>1. UNCHANGED <<disk, length, pc, req, client, fresh>>
  BY <1>a DEF vars
<1> QED
  BY <1>a, <1>1 DEF IInv, Types, Asking, Still, KnowsFile, AnswersRange, ProbeHas, CopyHas,
     Size, Served, Part

LEMMA Keeps == IInv /\ [Next]_vars => IInv'
BY StatKeeps, OpenKeeps, CompressKeeps, RespondKeeps, SendKeeps, EndOfStreamKeeps, BreakKeeps,
   ProbeKeeps, BeginCopyKeeps, ResumeKeeps, ConcludeKeeps, ChangeKeeps, StutterKeeps
   DEF Next, Handler, Client

-----------------------------------------------------------------------------
(* What is served *)

\* The file is its longest part.
LEMMA SourceIsServed ==
  ASSUME Types, Still
  PROVE  /\ Source = Part(0, Size) /\ Len(Source) = Size
         /\ \A n \in 0 .. Size : SubSeq(Source, 1, n) = Part(0, n)
         /\ Size > 0 => Source[1].of = Served
<1>1. Size \in Nat
  BY SizeIsNat
<1>2. Source = [i \in 1 .. Size |-> Byte(Served, i - 1)]
  BY DEF Source, Content, Size, Served
<1>3. ASSUME NEW n \in Nat  PROVE  Part(0, n) = [i \in 1 .. n |-> Byte(Served, i - 1)]
  <2>1. \A i \in 1 .. n : 0 + i - 1 = i - 1
    OBVIOUS
  <2> QED
    BY <2>1 DEF Part
<1>4. Source = Part(0, Size)
  BY <1>1, <1>2, <1>3
<1>5. Len(Source) = Size
  BY <1>1, <1>4, PartGrows
<1>6. ASSUME NEW n \in 0 .. Size  PROVE  SubSeq(Source, 1, n) = Part(0, n)
  <2>1. SubSeq(Source, 1, n) = [i \in 1 .. n |-> Source[i]]
    BY <1>1, <1>4, <1>5, PartGrows
  <2>2. \A i \in 1 .. n : Source[i] = Byte(Served, i - 1)
    BY <1>1, <1>2
  <2> QED
    BY <1>1, <1>3, <2>1, <2>2
<1>7. Size > 0 => Source[1].of = Served
  <2>1. Size > 0 => Source[1] = Byte(Served, 0)
    BY <1>1, <1>2
  <2> QED
    BY <2>1 DEF Byte
<1> QED
  BY <1>4, <1>5, <1>6, <1>7

LEMMA InvServes == IInv => ServedExactly
<1>a. SUFFICES ASSUME IInv  PROVE  ServedExactly
  OBVIOUS
<1>b. Types
  BY <1>a DEF IInv
<1>1. RangesFollowRFC
  <2>1. SUFFICES ASSUME pc = "answered", client.phase = "probing", Still
        PROVE  IF WellFormed(req.range)
               THEN LET bytes == Selected(req.range, Len(Source)) IN
                    IF bytes = {} THEN req.status = 416 /\ client.got = << >>
                    ELSE /\ req.status = 206
                         /\ Len(client.got) = req.len
                         /\ {client.got[i].at : i \in DOMAIN client.got} = bytes
                         /\ \A i \in DOMAIN client.got :
                              client.got[i] = Byte(Source[1].of, req.first + i - 1)
               ELSE req.status = 200 /\ client.got = Source
    BY DEF RangesFollowRFC, Still
  <2> DEFINE r == req.range  a == Resolve(r, Size)
  <2>2. AnswersRange /\ ProbeHas
    BY <1>a, <2>1 DEF IInv, Asking
  <2>3. r \in Ranges /\ Size \in Nat
    BY <1>b, <2>1, <2>2, SizeIsNat DEF AnswersRange
  <2>4. /\ req.status = a.status
        /\ a.status # 416 => req.first = a.first /\ req.len = a.len /\ req.sent = a.len
        /\ client.got = IF req.status = 416 THEN << >> ELSE Part(req.first, req.sent)
    BY <2>1, <2>2 DEF AnswersRange, ProbeHas, Answering
  <2>5. a \in [status : {200, 206, 416}, first : Nat, len : Nat]
    BY <2>3, ResolvedIsSelected
  <2>6. ~WellFormed(r) => a.status = 200 /\ a.first = 0 /\ a.len = Size
    BY <2>3, ResolvedIsSelected
  <2>7. WellFormed(r) => a.status # 200
    BY <2>3, ResolvedIsSelected
  <2>8. WellFormed(r) /\ a.status = 416 => Selected(r, Size) = {}
    BY <2>3, ResolvedIsSelected
  <2>9. WellFormed(r) /\ a.status = 206 => a.len > 0 /\ a.first + a.len <= Size
    BY <2>3, ResolvedIsSelected
  <2>10. WellFormed(r) /\ a.status = 206 => Selected(r, Size) = a.first .. a.first + a.len - 1
    BY <2>3, ResolvedIsSelected
  <2>11. /\ Source = Part(0, Size) /\ Len(Source) = Size
         /\ Size > 0 => Source[1].of = Served
    BY <1>b, <2>1, SourceIsServed
  <2> HIDE DEF a
  <2>12. CASE ~WellFormed(r)
    <3>1. req.status = 200 /\ client.got = Part(0, Size)
      BY <2>4, <2>6, <2>12
    <3> QED
      BY <3>1, <2>11, <2>12
  <2>13. CASE WellFormed(r) /\ a.status = 416
    <3>1. req.status = 416 /\ client.got = << >> /\ Selected(r, Len(Source)) = {}
      BY <2>4, <2>8, <2>11, <2>13
    <3> QED
      BY <3>1, <2>13
  <2>14. CASE WellFormed(r) /\ a.status = 206
    <3> DEFINE f == req.first  n == req.len
    <3>1. req.status = 206 /\ client.got = Part(f, n) /\ f \in Nat /\ n \in Nat
      BY <2>4, <2>5, <2>14
    <3>2. n > 0 /\ f + n <= Size /\ Selected(r, Len(Source)) = f .. f + n - 1
      BY <2>4, <2>9, <2>11, <2>14, <2>10
    <3>3. Source[1].of = Served
      BY <2>3, <2>11, <3>1, <3>2
    <3> HIDE DEF f, n
    <3>4. Len(client.got) = n /\ DOMAIN client.got = 1 .. n
      BY <3>1, PartGrows DEF Part
    <3>5. \A i \in 1 .. n : client.got[i] = Byte(Served, f + i - 1)
      BY <3>1 DEF Part
    <3>6. {client.got[i].at : i \in 1 .. n} = f .. f + n - 1
      <4>1. ASSUME NEW i \in 1 .. n  PROVE  client.got[i].at = f + i - 1
        <5>1. client.got[i] = [of |-> Served, at |-> f + i - 1]
          BY <3>5 DEF Byte
        <5> QED
          BY <5>1
      <4>2. \A j \in f .. f + n - 1 : j - f + 1 \in 1 .. n /\ f + (j - f + 1) - 1 = j
        BY <3>1
      <4>3. \A i \in 1 .. n : f + i - 1 \in f .. f + n - 1
        BY <3>1
      <4>4. {client.got[i].at : i \in 1 .. n} = {f + i - 1 : i \in 1 .. n}
        BY <4>1
      <4>5. {f + i - 1 : i \in 1 .. n} = f .. f + n - 1
        BY <4>2, <4>3
      <4> QED
        BY <4>4, <4>5
    <3>7. Selected(r, Len(Source)) # {}
      <4>1. f \in f .. f + n - 1
        BY <3>1, <3>2
      <4> QED
        BY <3>2, <4>1
    <3> DEFINE bytes == Selected(r, Len(Source))
    <3>8. bytes # {} /\ {client.got[i].at : i \in DOMAIN client.got} = bytes
      BY <3>2, <3>4, <3>6, <3>7
    <3>9. \A i \in DOMAIN client.got : client.got[i] = Byte(Source[1].of, f + i - 1)
      BY <3>3, <3>4, <3>5
    <3> HIDE DEF bytes
    <3>10. bytes = Selected(req.range, Len(Source))
      BY DEF bytes
    <3>11. Len(client.got) = req.len
      BY <3>4 DEF n
    <3>12. \A i \in DOMAIN client.got : client.got[i] = Byte(Source[1].of, req.first + i - 1)
      BY <3>9 DEF f
    <3> QED
      BY <3>1, <3>8, <3>10, <3>11, <3>12, <2>14
  <2> QED
    BY <2>5, <2>7, <2>12, <2>13, <2>14
<1>2. ExactCopy
  <2>1. SUFFICES ASSUME client.phase \in {"copying", "done"}, fresh, disk # None
        PROVE  /\ client.got = SubSeq(Source, 1, Len(client.got))
               /\ client.phase = "done" => client.got = Source
    BY DEF ExactCopy
  <2>2. CASE client.phase = "copying"
    <3>1. Still /\ Asking
      BY <1>b, <2>1, <2>2 DEF Still, Asking, Types
    <3>2. CopyHas
      BY <1>a, <2>2, <3>1 DEF IInv
    <3>3. Len(client.got) \in 0 .. Size /\ client.got = Part(0, Len(client.got))
      BY <3>2 DEF CopyHas
    <3> QED
      BY <1>b, <2>2, <3>1, <3>3, SourceIsServed
  <2>3. CASE client.phase = "done"
    <3>1. Still
      BY <1>b, <2>1, <2>3 DEF Still, Types
    <3>2. client.got = Part(0, Size) /\ Size \in Nat
      BY <1>a, <1>b, <2>3, <3>1, SizeIsNat DEF IInv
    <3>3. Source = Part(0, Size) /\ Len(Source) = Size /\ SubSeq(Source, 1, Size) = Part(0, Size)
      BY <1>b, <3>1, <3>2, SourceIsServed
    <3> QED
      BY <3>2, <3>3
  <2> QED
    BY <2>1, <2>2, <2>3
<1> QED
  BY <1>1, <1>2 DEF ServedExactly

\* At every step the invariant holds.
THEOREM Invariance == Spec => []IInv
BY Starts, Keeps, PTL DEF Spec

\* A file that keeps still is served byte for byte, whatever range is asked
\* for, and a client that copies it has it whole however often the link broke
\* (serve_raw, parse_range).
THEOREM ServedExact == Spec => []ServedExactly
BY Invariance, InvServes, PTL
=============================================================================

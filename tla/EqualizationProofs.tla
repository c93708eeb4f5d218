------------------------- MODULE EqualizationProofs -------------------------
(***************************************************************************)
(* What the operators of image_processor.c's model compute, for images of  *)
(* any size and any number of levels: the cumulative histogram counts the  *)
(* pixels that are not brighter than a level, and the lookup table is the  *)
(* definition of histogram equalisation as long as an int holds its        *)
(* products.                                                               *)
(***************************************************************************)
EXTENDS ImageProcessing, FiniteSetTheorems, WellFoundedInduction, TLAPS

\* The pixels that are not brighter than a level.
Darker(img, l) == {i \in Pixels(img) : Luminance(img, i) <= l}

-----------------------------------------------------------------------------
(* Arithmetic. *)

\* % of C on what is smaller than the modulus.
LEMMA RemainderLemma ==
  ASSUME NEW a \in Nat, NEW b \in Nat \ {0}, a < b
  PROVE  a % b = a
  OBVIOUS

\* A remainder is below the modulus.
LEMMA RangeLemma ==
  ASSUME NEW a \in Int, NEW b \in Nat \ {0}
  PROVE  a % b \in 0 .. b - 1
  OBVIOUS

\* A quotient is the largest number that fits.
LEMMA DivisionLemma ==
  ASSUME NEW a \in Nat, NEW b \in Nat \ {0}
  PROVE  a \div b \in Nat /\ b * (a \div b) <= a /\ a < b * (a \div b) + b
  OBVIOUS

\* A product grows with its factor.
LEMMA ProductLemma ==
  ASSUME NEW a \in Nat, NEW b \in Nat, NEW c \in Nat, a <= b
  PROVE  a * c \in Nat /\ b * c \in Nat /\ a * c <= b * c
  OBVIOUS

\* A share of at most the whole is at most the maximum.
LEMMA ShareLemma ==
  ASSUME NEW c \in Nat, NEW t \in Nat \ {0}, NEW m \in Nat, c <= t
  PROVE  (c * m) \div t \in 0 .. m
<1> DEFINE q == (c * m) \div t
<1>1. c * m \in Nat /\ t * m \in Nat /\ c * m <= t * m
  BY ProductLemma
<1>2. q \in Nat /\ t * q <= c * m
  BY <1>1, DivisionLemma
<1> HIDE DEF q
<1>3. q <= m
  <2> SUFFICES ASSUME m + 1 <= q PROVE FALSE
    BY <1>2
  <2>1. (m + 1) * t <= q * t
    BY <1>2, ProductLemma
  <2>2. (m + 1) * t = m * t + t /\ q * t = t * q /\ m * t = t * m
    BY <1>2
  <2>3. t * q \in Nat
    BY <1>2
  <2>4. QED
    BY <1>1, <1>2, <2>1, <2>2, <2>3
<1>4. QED
  BY <1>2, <1>3 DEF q

\* Division keeps the order.
LEMMA QuotientLemma ==
  ASSUME NEW x \in Nat, NEW y \in Nat, NEW t \in Nat \ {0}, x <= y
  PROVE  x \div t <= y \div t
<1> DEFINE p == x \div t
           q == y \div t
<1>1. p \in Nat /\ t * p <= x /\ q \in Nat /\ y < t * q + t
  BY DivisionLemma
<1> HIDE DEF p, q
<1>2. p <= q
  <2> SUFFICES ASSUME q + 1 <= p PROVE FALSE
    BY <1>1
  <2>1. (q + 1) * t <= p * t /\ p * t \in Nat
    BY <1>1, ProductLemma
  <2>2. (q + 1) * t = t * q + t /\ p * t = t * p /\ t * q \in Nat
    BY <1>1
  <2>3. QED
    BY <1>1, <2>1, <2>2
<1>3. QED
  BY <1>2 DEF p, q

\* A number that an int holds is not changed by the multiplication.
LEMMA WrappedLemma ==
  ASSUME NEW x \in Nat, x <= IntMax
  PROVE  Wrapped(x) = x
<1>1. IntMax \in Nat
  BY ImageAssumption
<1> DEFINE a == x + IntMax + 1
           b == 2 * (IntMax + 1)
<1>2. a \in Nat /\ b \in Nat \ {0} /\ a < b
  BY <1>1
<1> HIDE DEF a, b
<1>3. a % b = a
  BY <1>2, RemainderLemma
<1>4. QED
  BY <1>1, <1>3 DEF Wrapped, a, b

-----------------------------------------------------------------------------
(* Images. *)

\* An image is its channels and its samples, at least one pixel of them.
LEMMA RecordLemma ==
  ASSUME NEW img \in Image
  PROVE  /\ img.channels \in 1 .. 4
         /\ img.data \in Seq([1 .. img.channels -> Level]) /\ img.data # <<>>
         /\ img = [channels |-> img.channels, data |-> img.data]
<1>1. PICK n \in 1 .. 4 :
        img \in [channels : {n}, data : Seq([1 .. n -> Level]) \ {<<>>}]
  BY DecodedAssumption
<1> DEFINE D == Seq([1 .. n -> Level]) \ {<<>>}
<1>2. img \in [channels : {n}, data : D]
  BY <1>1
<1> HIDE DEF D
<1>3. /\ img.channels = n /\ img.data \in D
      /\ img = [channels |-> img.channels, data |-> img.data]
  BY <1>2
<1>4. QED
  BY <1>3 DEF D

\* The pixels of an image, their samples and their luminance.
LEMMA ImageLemma ==
  ASSUME NEW img \in Image
  PROVE  /\ img.channels \in 1 .. 4
         /\ Total(img) \in Nat \ {0}
         /\ Pixels(img) = 1 .. Total(img)
         /\ IsFiniteSet(Pixels(img))
         /\ Cardinality(Pixels(img)) = Total(img)
         /\ \A i \in Pixels(img) : img.data[i] \in [1 .. img.channels -> Level]
<1>1. /\ img.channels \in 1 .. 4
      /\ img.data \in Seq([1 .. img.channels -> Level]) /\ img.data # <<>>
  BY RecordLemma
<1> DEFINE S == [1 .. img.channels -> Level]
           d == img.data
<1>2. d \in Seq(S) /\ d # <<>>
  BY <1>1
<1> HIDE DEF S, d
<1>3. /\ Len(d) \in Nat \ {0} /\ DOMAIN d = 1 .. Len(d)
      /\ \A i \in DOMAIN d : d[i] \in S
  BY <1>2
<1>4. IsFiniteSet(1 .. Len(d)) /\ Cardinality(1 .. Len(d)) = Len(d)
  BY <1>3, FS_Interval
<1>5. QED
  BY <1>1, <1>3, <1>4 DEF S, d, Total, Pixels

LEMMA LuminanceLemma ==
  ASSUME NEW img \in Image, NEW i \in Pixels(img)
  PROVE  Luminance(img, i) \in Level
<1> DEFINE p   == img.data[i]
           c   == <<p[1], p[2], p[3]>>
           sum == WeightedSum(c)
           lum == sum \div 1000
<1>1. img.channels \in 1 .. 4 /\ p \in [1 .. img.channels -> Level]
  BY ImageLemma
<1>2. MaxLevel \in Nat
  BY ImageAssumption
<1> HIDE DEF p
<1>3. p[1] \in 0 .. MaxLevel
  BY <1>1 DEF Level
<1>4. CASE img.channels < 3
  BY <1>3, <1>4 DEF Luminance, Level, p
<1>5. CASE img.channels >= 3
  <2>1. p[2] \in 0 .. MaxLevel /\ p[3] \in 0 .. MaxLevel
    BY <1>1, <1>5 DEF Level
  <2>2. sum \in Nat /\ sum <= 1000 * MaxLevel
    BY <1>2, <1>3, <2>1 DEF WeightedSum
  <2>3. c \in RoundsDown => sum >= 1000
    BY RoundingAssumption
  <2> HIDE DEF sum
  <2>4. lum \in 0 .. MaxLevel
    BY <1>2, <2>2
  <2>5. c \in RoundsDown => lum - 1 \in 0 .. MaxLevel
    BY <1>2, <2>2, <2>3
  <2>6. Luminance(img, i) = IF c \in RoundsDown THEN lum - 1 ELSE lum
    BY <1>1, <1>5 DEF Luminance, p, sum, lum
  <2> HIDE DEF lum, c
  <2>7. QED
    BY <2>4, <2>5, <2>6 DEF Level
<1>6. QED
  BY <1>1, <1>4, <1>5

\* The pixels that are not brighter are those that are darker and those of the
\* level itself, which calculate_histogram has counted.
LEMMA DarkerLemma ==
  ASSUME NEW img \in Image, NEW l \in Level
  PROVE  /\ Cardinality(Darker(img, l)) \in 0 .. Total(img)
         /\ Histogram(img)[l] \in Nat
         /\ l = 0 => Cardinality(Darker(img, l)) = Histogram(img)[0]
         /\ l # 0 => Cardinality(Darker(img, l)) =
                       Cardinality(Darker(img, l - 1)) + Histogram(img)[l]
<1> DEFINE Lum(i) == Luminance(img, i)
           P    == Pixels(img)
           At   == {i \in P : Lum(i) = l}
           Upto == {i \in P : Lum(i) <= l}
           Less == {i \in P : Lum(i) <= l - 1}
<1>1. IsFiniteSet(P) /\ Cardinality(P) = Total(img) /\ Total(img) \in Nat
  BY ImageLemma
<1>2. \A i \in P : Lum(i) \in Nat
  BY LuminanceLemma DEF Level
<1>3. l \in Nat
  BY DEF Level
<1>4. /\ Histogram(img)[l] = Cardinality(At)
      /\ Darker(img, l) = Upto /\ Darker(img, l - 1) = Less
  BY DEF Histogram, Darker
<1> HIDE DEF P, Lum
<1>5. /\ IsFiniteSet(At) /\ IsFiniteSet(Upto) /\ IsFiniteSet(Less)
      /\ Cardinality(Upto) <= Cardinality(P)
  <2>1. At \in SUBSET P /\ Upto \in SUBSET P /\ Less \in SUBSET P
    OBVIOUS
  <2> HIDE DEF At, Upto, Less
  <2>2. QED
    BY <1>1, <2>1, FS_Subset
<1>6. Upto = Less \cup At /\ Less \cap At = {}
  BY <1>2, <1>3
<1>7. l = 0 => Upto = At
  BY <1>2, <1>3
<1> HIDE DEF At, Upto, Less
<1>8. /\ Cardinality(At) \in Nat /\ Cardinality(Upto) \in Nat
      /\ Cardinality(Less) \in Nat
  BY <1>5, FS_CardinalityType
<1>9. Cardinality(Upto) = Cardinality(Less) + Cardinality(At)
  <2>1. Cardinality(Less \cup At) =
          Cardinality(Less) + Cardinality(At) - Cardinality(Less \cap At)
    BY <1>5, FS_Union
  <2>2. Cardinality(Less \cap At) = 0
    BY <1>6, FS_EmptySet
  <2>3. QED
    BY <1>6, <1>8, <2>1, <2>2
<1>10. l = 0 => Cardinality(Upto) = Histogram(img)[0]
  BY <1>4, <1>7
<1>11. QED
  BY <1>1, <1>4, <1>5, <1>8, <1>9, <1>10

-----------------------------------------------------------------------------
(* The recursive function of calculate_cumulative_histogram. *)

\* A set of numbers has a smallest one.
LEMMA SmallestLemma ==
  ASSUME NEW S \in SUBSET Nat, S # {}
  PROVE  \E m \in S : \A j \in S : m <= j
<1> DEFINE Before == OpToRel(<, Nat)
<1>1. IsWellFoundedOn(Before, Nat)
  BY NatLessThanWellFounded
<1>2. \A x, y \in Nat : x < y => <<x, y>> \in Before
  BY DEF OpToRel
<1> HIDE DEF Before
<1>3. PICK m \in S : \A t \in S : ~(<<t, m>> \in Before)
  BY <1>1, WFMin
<1>4. ASSUME NEW t \in S PROVE m <= t
  <2>1. m \in Nat /\ t \in Nat
    OBVIOUS
  <2>2. ~(t < m)
    BY <1>2, <1>3, <2>1
  <2>3. QED
    BY <2>1, <2>2
<1>5. QED
  BY <1>4

\* Two functions with the same first value and the same step are the same: there
\* is no first level at which they differ.
LEMMA SameFunctionLemma ==
  ASSUME NEW hist, NEW f, NEW g,
         f = [l \in Level |-> IF l = 0 THEN hist[0] ELSE f[l - 1] + hist[l]],
         g = [l \in Level |-> IF l = 0 THEN hist[0] ELSE g[l - 1] + hist[l]]
  PROVE  f = g
<1> DEFINE D == {l \in Level : f[l] # g[l]}
           F(l) == IF l = 0 THEN hist[0] ELSE f[l - 1] + hist[l]
           G(l) == IF l = 0 THEN hist[0] ELSE g[l - 1] + hist[l]
<1>1. f = [l \in Level |-> F(l)] /\ g = [l \in Level |-> G(l)]
  OBVIOUS
<1>2. \A l \in Level : f[l] = F(l) /\ g[l] = G(l)
  <2> HIDE DEF F, G
  <2>1. QED
    BY <1>1
<1>3. D = {}
  <2> SUFFICES ASSUME D # {} PROVE FALSE
    OBVIOUS
  <2>1. D \in SUBSET Nat
    BY DEF Level
  <2>2. PICK m \in D : \A j \in D : m <= j
    BY <2>1, SmallestLemma
  <2>3. m \in Level /\ f[m] # g[m]
    OBVIOUS
  <2>4. CASE m = 0
    BY <1>2, <2>3, <2>4
  <2>5. CASE m # 0
    <3>1. m - 1 \in Level /\ m \in Nat
      BY <2>3, <2>5, ImageAssumption DEF Level
    <3>2. m - 1 \notin D
      BY <2>2, <3>1
    <3>3. f[m - 1] = g[m - 1]
      BY <3>1, <3>2
    <3>4. QED
      BY <1>2, <2>3, <2>5, <3>3
  <2>6. QED
    BY <2>4, <2>5
<1>4. \A l \in Level : f[l] = g[l]
  BY <1>3
<1>5. QED
  BY <1>1, <1>4

\* The entry of a level counts the pixels that are not brighter than it.
LEMMA CumulativeLemma ==
  ASSUME NEW img \in Image
  PROVE  Cumulative(Histogram(img)) =
           [l \in Level |-> Cardinality(Darker(img, l))]
<1> DEFINE hist   == Histogram(img)
           Sum(f) == f = [l \in Level |->
                            IF l = 0 THEN hist[0] ELSE f[l - 1] + hist[l]]
           count  == [l \in Level |-> Cardinality(Darker(img, l))]
<1>1. Sum(count)
  <2>1. ASSUME NEW l \in Level
        PROVE  count[l] = IF l = 0 THEN hist[0] ELSE count[l - 1] + hist[l]
    <3>1. l # 0 => l - 1 \in Level
      BY ImageAssumption DEF Level
    <3>2. l # 0 => count[l - 1] = Cardinality(Darker(img, l - 1))
      BY <3>1
    <3>3. count[l] = Cardinality(Darker(img, l))
      OBVIOUS
    <3> HIDE DEF count, hist
    <3>4. QED
      BY <3>2, <3>3, DarkerLemma DEF hist
  <2> DEFINE G(l) == IF l = 0 THEN hist[0] ELSE count[l - 1] + hist[l]
  <2>2. \A l \in Level : count[l] = G(l)
    BY <2>1
  <2>3. count = [l \in Level |-> count[l]]
    OBVIOUS
  <2> HIDE DEF count, hist, G
  <2>4. count = [l \in Level |-> G(l)]
    BY <2>2, <2>3
  <2>5. QED
    BY <2>4 DEF G
<1>2. Cumulative(hist) = CHOOSE f : Sum(f)
  BY DEF Cumulative
<1> HIDE DEF hist, count
<1>3. Sum(CHOOSE f : Sum(f))
  BY <1>1
<1> DEFINE c == CHOOSE f : Sum(f)
<1> HIDE DEF c
<1>4. Sum(c)
  BY <1>3 DEF c
<1>5. c = count
  BY <1>1, <1>4, SameFunctionLemma
<1>6. QED
  BY <1>2, <1>5 DEF c, hist, count

-----------------------------------------------------------------------------
(* The lookup table. *)

LEMMA CountLemma ==
  ASSUME NEW img \in Image, NEW l \in Level
  PROVE  /\ Cumulative(Histogram(img))[l] = Cardinality(Darker(img, l))
         /\ Cardinality(Darker(img, l)) \in 0 .. Total(img)
         /\ Total(img) \in Nat \ {0} /\ MaxLevel \in Nat \ {0}
<1>1. Cumulative(Histogram(img)) = [k \in Level |-> Cardinality(Darker(img, k))]
  BY CumulativeLemma
<1>2. QED
  BY <1>1, DarkerLemma, ImageLemma, ImageAssumption

\* An entry is a level, whether or not the product has wrapped around.
LEMMA EntryIsLevel ==
  ASSUME NEW img \in Image, NEW l \in Level
  PROVE  LookupTable(img)[l] \in Level
<1> DEFINE c == Cumulative(Histogram(img))[l]
           x == c * MaxLevel
           q == Quotient(Wrapped(x), Total(img))
<1>1. c \in Nat /\ Total(img) \in Nat \ {0} /\ MaxLevel \in Nat
  BY CountLemma
<1>2. LookupTable(img)[l] = q % (MaxLevel + 1)
  BY DEF LookupTable
<1> HIDE DEF c
<1>3. x \in Nat
  BY <1>1, ProductLemma
<1> HIDE DEF x
<1>4. Wrapped(x) \in Int
  <2>1. 2 * (IntMax + 1) \in Nat \ {0} /\ x + IntMax + 1 \in Int /\ IntMax \in Nat
    BY <1>3, ImageAssumption
  <2>2. (x + IntMax + 1) % (2 * (IntMax + 1)) \in Int
    BY <2>1, RangeLemma
  <2>3. QED
    BY <2>1, <2>2 DEF Wrapped
<1>5. q \in Int
  <2>1. CASE Wrapped(x) >= 0
    <3>1. Wrapped(x) \in Nat
      BY <1>4, <2>1
    <3>2. Wrapped(x) \div Total(img) \in Nat
      BY <1>1, <3>1, DivisionLemma
    <3>3. QED
      BY <2>1, <3>2 DEF Quotient
  <2>2. CASE ~(Wrapped(x) >= 0)
    <3>1. -Wrapped(x) \in Nat
      BY <1>4, <2>2
    <3>2. (-Wrapped(x)) \div Total(img) \in Nat
      BY <1>1, <3>1, DivisionLemma
    <3>3. QED
      BY <2>2, <3>2 DEF Quotient
  <2>3. QED
    BY <2>1, <2>2
<1> HIDE DEF q
<1>6. MaxLevel + 1 \in Nat \ {0}
  BY <1>1
<1>7. q % (MaxLevel + 1) \in 0 .. (MaxLevel + 1) - 1
  BY <1>5, <1>6, RangeLemma
<1>8. QED
  BY <1>1, <1>2, <1>7 DEF Level

\* An entry is the level's share of the pixels, if an int holds MaxLevel times
\* the pixels: nothing wraps around and the cast to unsigned char loses nothing.
LEMMA EntryIsShare ==
  ASSUME NEW img \in Image, NEW l \in Level, Total(img) * MaxLevel <= IntMax
  PROVE  LookupTable(img)[l] =
           (Cardinality(Darker(img, l)) * MaxLevel) \div Total(img)
<1> DEFINE c == Cardinality(Darker(img, l))
           t == Total(img)
           x == c * MaxLevel
<1>1. c \in Nat /\ c <= t /\ t \in Nat \ {0} /\ MaxLevel \in Nat
  BY CountLemma
<1>2. LookupTable(img)[l] = Quotient(Wrapped(x), t) % (MaxLevel + 1)
  BY CountLemma DEF LookupTable
<1>3. t * MaxLevel <= IntMax /\ IntMax \in Nat
  BY ImageAssumption
<1> HIDE DEF c, t
<1>4. x \in Nat /\ t * MaxLevel \in Nat /\ x <= t * MaxLevel
  BY <1>1, ProductLemma
<1>5. x \div t \in 0 .. MaxLevel
  BY <1>1, ShareLemma
<1> HIDE DEF x
<1>6. Wrapped(x) = x
  BY <1>3, <1>4, WrappedLemma
<1>7. Quotient(Wrapped(x), t) = x \div t
  BY <1>4, <1>6 DEF Quotient
<1>8. (x \div t) % (MaxLevel + 1) = x \div t
  <2>1. /\ x \div t \in Nat /\ MaxLevel + 1 \in Nat \ {0}
        /\ x \div t < MaxLevel + 1
    BY <1>1, <1>5
  <2>2. QED
    BY <2>1, RemainderLemma
<1>9. QED
  BY <1>2, <1>7, <1>8 DEF x, c, t

-----------------------------------------------------------------------------
\* Equalisation leaves an image of the same size and channels whose samples are
\* bytes, also where cumulative[i] * 255 overflows; the alpha channel is as it
\* was (equalize_histogram works in place in the buffer of stbi_load).
THEOREM EqualizedIsAnImage ==
  ASSUME NEW img \in Image
  PROVE  /\ Equalized(img).channels = img.channels
         /\ Pixels(Equalized(img)) = Pixels(img)
         /\ \A i \in Pixels(img) :
              /\ Equalized(img).data[i] \in [1 .. img.channels -> Level]
              /\ \A c \in 1 .. img.channels \ Equalizable(img.channels) :
                   Equalized(img).data[i][c] = img.data[i][c]
<1> DEFINE T    == LookupTable(img)
           E    == Equalizable(img.channels)
           P(i) == [c \in 1 .. img.channels |->
                      IF c \in E THEN T[img.data[i][c]] ELSE img.data[i][c]]
           new  == [i \in Pixels(img) |-> P(i)]
<1>1. Equalized(img) = [channels |-> img.channels, data |-> new]
  <2>1. Equalized(img) = [img EXCEPT !.data = new]
    BY DEF Equalized, Mapped
  <2>2. img = [channels |-> img.channels, data |-> img.data]
    BY RecordLemma
  <2> HIDE DEF new
  <2>3. [img EXCEPT !.data = new] = [channels |-> img.channels, data |-> new]
    BY <2>2
  <2>4. QED
    BY <2>1, <2>3
<1>2. ASSUME NEW i \in Pixels(img)
      PROVE  /\ P(i) \in [1 .. img.channels -> Level]
             /\ \A c \in 1 .. img.channels \ E : P(i)[c] = img.data[i][c]
  <2>1. img.data[i] \in [1 .. img.channels -> Level]
    BY ImageLemma
  <2>2. \A l \in Level : T[l] \in Level
    BY EntryIsLevel
  <2> HIDE DEF T, E
  <2>3. QED
    BY <2>1, <2>2
<1> HIDE DEF P, E
<1>3. /\ Equalized(img).channels = img.channels
      /\ Equalized(img).data = new
      /\ DOMAIN new = Pixels(img)
  BY <1>1
<1>4. \A i \in Pixels(img) : Equalized(img).data[i] = P(i)
  BY <1>3
<1>5. QED
  BY <1>2, <1>3, <1>4 DEF Pixels, E

\* For images of any size, as long as an int holds 255 times the pixels, the
\* table of image_processor.c:86 is the definition of histogram equalisation.
THEOREM EqualizationByFormula ==
  ASSUME NEW img \in Image, Total(img) * MaxLevel <= IntMax
  PROVE  Equalized(img) = Formula(img)
<1> DEFINE share == [l \in Level |->
                       (Cardinality(Darker(img, l)) * MaxLevel) \div Total(img)]
<1>1. LookupTable(img) = share
  <2> DEFINE E(l) == Quotient(Wrapped(Cumulative(Histogram(img))[l] * MaxLevel),
                              Total(img)) % (MaxLevel + 1)
  <2>1. LookupTable(img) = [l \in Level |-> E(l)]
    BY DEF LookupTable
  <2>2. \A l \in Level : LookupTable(img)[l] = share[l]
    BY EntryIsShare
  <2> HIDE DEF E
  <2>3. QED
    BY <2>1, <2>2
<1>2. Formula(img) = Mapped(img, share)
  BY DEF Formula, Darker
<1>3. QED
  BY <1>1, <1>2 DEF Equalized

\* Equalisation never inverts two samples, and takes the brightest level to the
\* brightest, as long as an int holds 255 times the pixels.
THEOREM EqualizationKeepsOrder ==
  ASSUME NEW img \in Image, Total(img) * MaxLevel <= IntMax
  PROVE  /\ \A k, l \in Level : k <= l => LookupTable(img)[k] <= LookupTable(img)[l]
         /\ LookupTable(img)[MaxLevel] = MaxLevel
<1>1. ASSUME NEW k \in Level, NEW l \in Level, k <= l
      PROVE  LookupTable(img)[k] <= LookupTable(img)[l]
  <2> DEFINE a == Cardinality(Darker(img, k))
             b == Cardinality(Darker(img, l))
  <2>1. a \in Nat /\ b \in Nat /\ Total(img) \in Nat \ {0} /\ MaxLevel \in Nat
    BY CountLemma
  <2>2. a <= b
    <3>1. IsFiniteSet(Darker(img, l))
      <4>1. Darker(img, l) \in SUBSET Pixels(img) /\ IsFiniteSet(Pixels(img))
        BY ImageLemma DEF Darker
      <4>2. QED
        BY <4>1, FS_Subset
    <3>2. Darker(img, k) \in SUBSET Darker(img, l)
      <4>1. \A i \in Pixels(img) : Luminance(img, i) \in Nat
        BY LuminanceLemma DEF Level
      <4>2. k \in Nat /\ l \in Nat
        BY DEF Level
      <4>3. QED
        BY <1>1, <4>1, <4>2 DEF Darker
    <3>3. QED
      BY <3>1, <3>2, FS_Subset
  <2>3. /\ LookupTable(img)[k] = (a * MaxLevel) \div Total(img)
        /\ LookupTable(img)[l] = (b * MaxLevel) \div Total(img)
    BY EntryIsShare
  <2> HIDE DEF a, b
  <2>4. a * MaxLevel \in Nat /\ b * MaxLevel \in Nat /\ a * MaxLevel <= b * MaxLevel
    BY <2>1, <2>2, ProductLemma
  <2>5. QED
    BY <2>1, <2>3, <2>4, QuotientLemma
<1>2. LookupTable(img)[MaxLevel] = MaxLevel
  <2> DEFINE t == Total(img)
  <2>1. MaxLevel \in Level /\ MaxLevel \in Nat /\ t \in Nat \ {0}
    BY ImageAssumption, ImageLemma DEF Level
  <2>2. Darker(img, MaxLevel) = Pixels(img)
    BY LuminanceLemma DEF Darker, Level
  <2>3. Cardinality(Darker(img, MaxLevel)) = t
    BY <2>2, ImageLemma
  <2>4. LookupTable(img)[MaxLevel] = (t * MaxLevel) \div t
    BY <2>1, <2>3, EntryIsShare
  <2> HIDE DEF t
  <2>5. (t * MaxLevel) \div t = MaxLevel
    BY <2>1
  <2>6. QED
    BY <2>4, <2>5
<1>3. QED
  BY <1>1, <1>2
=============================================================================

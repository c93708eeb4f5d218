---------------------------- MODULE RequestProofs ----------------------------
(***************************************************************************)
(* Proofs about the receiver and the multipart parser, for any messages,   *)
(* buffer and limits, and any way in which the bytes arrive.               *)
(***************************************************************************)
EXTENDS Request, WellFoundedInduction, TLAPS

-----------------------------------------------------------------------------
(* strstr and the parser. *)

\* A set of numbers has a smallest one.
LEMMA SmallestLemma ==
  ASSUME NEW S \in SUBSET Nat, S # {}
  PROVE  \E m \in S : \A j \in S : m <= j
<1> DEFINE Before == OpToRel(<, Nat)
<1>1. IsWellFoundedOn(Before, Nat)
  BY NatLessThanWellFounded
<1>2. \A x, y \in Nat : x < y => <<x, y>> \in Before
  BY DEF OpToRel
<1> HIDE DEF Before
<1>3. PICK m \in S : \A t \in S : ~(<<t, m>> \in Before)
  BY <1>1, WFMin
<1>4. ASSUME NEW t \in S PROVE m <= t
  <2>1. m \in Nat /\ t \in Nat
    OBVIOUS
  <2>2. ~(t < m)
    BY <1>2, <1>3, <2>1
  <2>3. QED
    BY <2>1, <2>2
<1>5. QED
  BY <1>4

\* strstr finds the first place, if there is one.
LEMMA FindLemma ==
  ASSUME NEW s \in Seq(Byte), NEW what \in Seq(Byte), NEW from \in Nat \ {0}
  PROVE  /\ Find(s, what, from) \in Nat
         /\ Find(s, what, from) = 0 => Places(s, what, from) = {}
         /\ Find(s, what, from) # 0 =>
              /\ Find(s, what, from) \in Places(s, what, from)
              /\ from <= Find(s, what, from)
              /\ Find(s, what, from) + Len(what) - 1 <= Len(s)
              /\ \A j \in Places(s, what, from) : Find(s, what, from) <= j
<1> DEFINE P == Places(s, what, from)
<1>1. P \subseteq from .. Len(s) - Len(what) + 1 /\ Len(s) \in Nat /\ Len(what) \in Nat
  BY DEF Places
<1>2. P \in SUBSET Nat /\ 0 \notin P
  BY <1>1
<1>3. Find(s, what, from) =
        IF P = {} THEN 0 ELSE CHOOSE i \in P : \A j \in P : i <= j
  BY DEF Find
<1> HIDE DEF P
<1>4. CASE P = {}
  BY <1>3, <1>4 DEF P
<1>5. CASE P # {}
  <2>1. \E i \in P : \A j \in P : i <= j
    BY <1>2, <1>5, SmallestLemma
  <2>2. Find(s, what, from) \in P /\ \A j \in P : Find(s, what, from) <= j
    BY <1>3, <1>5, <2>1
  <2>3. QED
    BY <1>1, <1>2, <2>2 DEF P
<1>6. QED
  BY <1>4, <1>5

\* What was found in a part of the bytes is found there in more of them.
LEMMA PrefixLemma ==
  ASSUME NEW s \in Seq(Byte), NEW what \in Seq(Byte), what # <<>>,
         NEW m \in Nat, NEW n \in Nat, m <= n, n <= Len(s),
         Find(SubSeq(s, 1, m), what, 1) # 0
  PROVE  Find(SubSeq(s, 1, n), what, 1) = Find(SubSeq(s, 1, m), what, 1)
<1> DEFINE a == SubSeq(s, 1, m)
           b == SubSeq(s, 1, n)
           A == Places(a, what, 1)
           B == Places(b, what, 1)
           i == Find(a, what, 1)
           j == Find(b, what, 1)
<1>1. /\ a \in Seq(Byte) /\ b \in Seq(Byte) /\ Len(a) = m /\ Len(b) = n
      /\ \A k \in 1 .. m : a[k] = b[k]
  OBVIOUS
<1>2. Len(what) \in Nat \ {0} /\ DOMAIN what = 1 .. Len(what)
  OBVIOUS
<1>3. a \in Seq(Byte) /\ b \in Seq(Byte) /\ i # 0 /\ 1 \in Nat \ {0}
  BY <1>1
<1> HIDE DEF a, b
<1>4. ASSUME NEW k \in Nat PROVE k \in A <=> k \in B /\ k + Len(what) - 1 <= m
  <2> DEFINE L == Len(what)
             In(t) == /\ \A q \in 1 .. L : t[k + q - 1] = what[q]
                      /\ \A q \in 1 .. k : t[q] # "NUL"
  <2>1. k \in A <=> k \in 1 .. m - L + 1 /\ In(a)
    BY <1>1, <1>2 DEF Places
  <2>2. k \in B <=> k \in 1 .. n - L + 1 /\ In(b)
    BY <1>1, <1>2 DEF Places
  <2> HIDE DEF A, B
  <2>3. ASSUME k >= 1, k + L - 1 <= m PROVE In(a) <=> In(b)
    <3>1. \A q \in 1 .. L : k + q - 1 \in 1 .. m
      BY <1>2, <2>3
    <3>2. \A q \in 1 .. k : q \in 1 .. m
      BY <1>2, <2>3
    <3>3. QED
      BY <1>1, <3>1, <3>2
  <2> HIDE DEF In
  <2>4. QED
    BY <1>2, <2>1, <2>2, <2>3
<1>5. /\ i \in Nat /\ i \in A /\ i + Len(what) - 1 <= Len(a)
      /\ \A k \in A : i <= k
  BY <1>3, FindLemma
<1>6. i \in B
  BY <1>4, <1>5
<1>7. /\ j \in Nat /\ j \in B
      /\ \A k \in B : j <= k
  BY <1>3, <1>6, FindLemma
<1> HIDE DEF i, j, A, B
<1>8. j <= i
  BY <1>6, <1>7
<1>9. j + Len(what) - 1 <= m
  BY <1>1, <1>2, <1>5, <1>7, <1>8
<1>10. j \in A
  BY <1>4, <1>7, <1>9
<1>11. i <= j
  BY <1>5, <1>10
<1>12. i = j
  BY <1>5, <1>7, <1>8, <1>11
<1>13. QED
  BY <1>12 DEF i, j, a, b

\* Where it ends, then.
LEMMA FindBounds ==
  ASSUME NEW s \in Seq(Byte), NEW what \in Seq(Byte), NEW from \in Nat \ {0},
         Find(s, what, from) # 0
  PROVE  Find(s, what, from) \in Nat /\ Find(s, what, from) + Len(what) - 1 <= Len(s)
  BY FindLemma

\* The line ends before the file's end are taken away ...
LEMMA TrimmedEnds ==
  ASSUME NEW data, NEW first \in Nat, NEW end \in Int, first < end
  PROVE  LET e == Trimmed(data, first, end) IN
         /\ e \in first .. end
         /\ \A i \in e .. end - 1 : data[i] \in {"CR", "LF"}
         /\ e = first \/ data[e - 1] \notin {"CR", "LF"}
<1> DEFINE E == {e \in first .. end : \A i \in e .. end - 1 : data[i] \in {"CR", "LF"}}
<1>1. E \in SUBSET Nat /\ end \in E
  OBVIOUS
<1>2. PICK e \in E : \A d \in E : e <= d
  BY <1>1, SmallestLemma
<1>3. e = first \/ data[e - 1] \notin {"CR", "LF"}
  <2> SUFFICES ASSUME e # first, data[e - 1] \in {"CR", "LF"} PROVE FALSE
    OBVIOUS
  <2>1. \A i \in e - 1 .. end - 1 : i = e - 1 \/ i \in e .. end - 1
    BY <1>2
  <2>2. e - 1 \in E
    BY <1>2, <2>1
  <2>3. QED
    BY <1>2, <2>2
<1> DEFINE Ends(d) == /\ \A i \in d .. end - 1 : data[i] \in {"CR", "LF"}
                      /\ d = first \/ data[d - 1] \notin {"CR", "LF"}
<1>4. e \in first .. end /\ Ends(e)
  BY <1>2, <1>3
<1>5. ~(end <= first)
  OBVIOUS
<1>6. Trimmed(data, first, end) = CHOOSE d \in first .. end : Ends(d)
  BY <1>5 DEF Trimmed
<1>7. Trimmed(data, first, end) \in first .. end /\ Ends(Trimmed(data, first, end))
  <2> HIDE DEF Ends
  <2>1. QED
    BY <1>4, <1>6
<1>8. QED
  BY <1>7

\* ... and no more than the file.
LEMMA TrimmedLemma ==
  ASSUME NEW data, NEW first \in Nat, NEW end \in Int
  PROVE  /\ Trimmed(data, first, end) \in Int
         /\ Trimmed(data, first, end) <= end
         /\ first <= end => first <= Trimmed(data, first, end)
         /\ end < first => Trimmed(data, first, end) = end
<1>1. CASE end <= first
  BY <1>1 DEF Trimmed
<1>2. CASE end > first
  <2>1. Trimmed(data, first, end) \in first .. end
    BY <1>2, TrimmedEnds
  <2>2. QED
    BY <1>2, <2>1
<1>3. QED
  BY <1>1, <1>2

\* The last byte that is no line end stays, and so does all that is before it.
LEMMA TrimmedKeeps ==
  ASSUME NEW data, NEW first \in Nat, NEW end \in Int, NEW last \in Nat,
         first <= last, last < end, data[last] \notin {"CR", "LF"}
  PROVE  /\ Trimmed(data, first, end) \in Int
         /\ last < Trimmed(data, first, end) /\ Trimmed(data, first, end) <= end
         /\ (\A i \in last + 1 .. end - 1 : data[i] \in {"CR", "LF"}) =>
              Trimmed(data, first, end) = last + 1
<1> DEFINE e == Trimmed(data, first, end)
<1>1. /\ e \in first .. end
      /\ \A i \in e .. end - 1 : data[i] \in {"CR", "LF"}
      /\ e = first \/ data[e - 1] \notin {"CR", "LF"}
  BY TrimmedEnds
<1> HIDE DEF e
<1>2. last < e
  BY <1>1
<1>3. ASSUME \A i \in last + 1 .. end - 1 : data[i] \in {"CR", "LF"}, last + 1 < e
      PROVE  FALSE
  <2>1. e - 1 \in last + 1 .. end - 1
    BY <1>1, <1>3
  <2>2. QED
    BY <1>1, <1>2, <1>3, <2>1
<1>4. QED
  BY <1>1, <1>2, <1>3 DEF e

\* An unsigned size is the difference, or what size_t makes of a negative one.
LEMMA ModulusLemma ==
  ASSUME NEW n \in Nat, n + MaxUploadSize + Margin < SizeModulus, NEW x \in Int
  PROVE  /\ x \in 0 .. n => x % SizeModulus = x
         /\ x < 0 /\ x >= -(n + Margin + 1) => x % SizeModulus = x + SizeModulus
  BY MultipartAssumption, SMT DEF SizeModulus, Margin

\* The ends of lines are bytes.
LEMMA HeaderEndLemma ==
  /\ HeaderEnd \in Seq(Byte) /\ Len(HeaderEnd) = 4 /\ HeaderEnd # <<>>
  /\ <<"LF", "LF">> \in Seq(Byte) /\ Len(<<"LF", "LF">>) = 2
  /\ <<"length">> \in Seq(Byte) /\ <<"length">> # <<>>
<1>1. "CR" \in Byte /\ "LF" \in Byte /\ "length" \in Byte
  BY DEF Byte
<1>2. QED
  BY <1>1 DEF HeaderEnd

\* The file begins after an empty line of the data.
LEMMA FileStartLemma ==
  ASSUME NEW data \in Seq(Byte), NEW headers \in Nat \ {0},
         FileStart(data, headers) # 0
  PROVE  FileStart(data, headers) \in 1 .. Len(data) + 1
<1> DEFINE crlf == Find(data, HeaderEnd, headers)
           lf   == Find(data, <<"LF", "LF">>, headers)
<1>1. /\ HeaderEnd \in Seq(Byte) /\ Len(HeaderEnd) = 4
      /\ <<"LF", "LF">> \in Seq(Byte) /\ Len(<<"LF", "LF">>) = 2
      /\ Len(data) \in Nat
  BY HeaderEndLemma
<1>2. FileStart(data, headers) = IF crlf # 0 THEN crlf + 4 ELSE IF lf # 0 THEN lf + 2 ELSE 0
  BY DEF FileStart
<1>3. crlf # 0 => crlf \in Nat /\ crlf + Len(HeaderEnd) - 1 <= Len(data)
  BY <1>1, FindBounds
<1>4. lf # 0 => lf \in Nat /\ lf + Len(<<"LF", "LF">>) - 1 <= Len(data)
  BY <1>1, FindBounds
<1> HIDE DEF crlf, lf
<1>5. crlf # 0 => crlf \in Nat /\ crlf + 3 <= Len(data)
  BY <1>1, <1>3
<1>6. lf # 0 => lf \in Nat /\ lf + 1 <= Len(data)
  BY <1>1, <1>4
<1>7. QED
  BY <1>1, <1>2, <1>5, <1>6

\* The boundaries are bytes.
LEMMA BoundaryLemma ==
  ASSUME NEW boundary \in Seq(Byte)
  PROVE  /\ FullBoundary(boundary) \in Seq(Byte)
         /\ Len(FullBoundary(boundary)) = Len(boundary) + 2
         /\ Len(FullBoundary(boundary)) \in Nat \ {0}
         /\ ClosingBoundary(boundary) \in Seq(Byte)
         /\ Len(ClosingBoundary(boundary)) = Len(boundary) + 4
         /\ Len(ClosingBoundary(boundary)) \in Nat \ {0}
<1>1. "-" \in Byte
  BY DEF Byte
<1>2. <<"-", "-">> \in Seq(Byte) /\ Len(<<"-", "-">>) = 2
  BY <1>1
<1>3. QED
  BY <1>2 DEF FullBoundary, ClosingBoundary

\* The end of the file is taken to be within the data, or as far before it as the
\* margin is larger.
LEMMA PlaceLemma ==
  ASSUME NEW data \in Seq(Byte), NEW boundary \in Seq(Byte), NEW start \in Nat \ {0}
  PROVE  LET place == ClosingPlace(data, boundary, start) IN
         place \in Int /\ place <= Len(data) + 1 /\ -Margin <= place
<1> DEFINE full  == FullBoundary(boundary)
           place == ClosingPlace(data, boundary, start)
<1>1. /\ full \in Seq(Byte) /\ Len(full) \in Nat \ {0}
      /\ ClosingBoundary(boundary) \in Seq(Byte)
      /\ Len(ClosingBoundary(boundary)) \in Nat \ {0}
      /\ Len(data) \in Nat
  BY BoundaryLemma
<1> HIDE DEF full
<1>2. start + Len(full) \in Nat \ {0}
  BY <1>1
<1>3. ASSUME NEW what \in Seq(Byte), Len(what) \in Nat \ {0},
             NEW from \in Nat \ {0}, Find(data, what, from) # 0
      PROVE  Find(data, what, from) \in 1 .. Len(data) + 1
  <2>1. /\ Find(data, what, from) \in Nat
        /\ Find(data, what, from) + Len(what) - 1 <= Len(data)
    BY <1>3, FindBounds
  <2>2. QED
    BY <1>1, <1>3, <2>1
<1>4. /\ Find(data, ClosingBoundary(boundary), 1) # 0 =>
           Find(data, ClosingBoundary(boundary), 1) \in 1 .. Len(data) + 1
      /\ Find(data, full, start + Len(full)) # 0 =>
           Find(data, full, start + Len(full)) \in 1 .. Len(data) + 1
  <2>1. 1 \in Nat \ {0}
    OBVIOUS
  <2>2. QED
    BY <1>1, <1>2, <1>3, <2>1
<1>5. place = IF Find(data, ClosingBoundary(boundary), 1) # 0
                THEN Find(data, ClosingBoundary(boundary), 1)
              ELSE IF Find(data, full, start + Len(full)) # 0
                THEN Find(data, full, start + Len(full))
              ELSE Len(data) - Margin + 1
  BY DEF ClosingPlace, full
<1> HIDE DEF place
<1>6. place \in Int /\ place <= Len(data) + 1 /\ -Margin <= place
  BY <1>1, <1>4, <1>5 DEF Margin
<1>7. QED
  BY <1>6 DEF place

\* The file that the parser returns lies within the data and is not too large: a
\* size below zero would be an enormous one.
LEMMA ParseLemma ==
  ASSUME NEW data \in Seq(Byte), NEW boundary \in Seq(Byte),
         Len(data) + MaxUploadSize + Margin + 1 < SizeModulus,
         ParseMultipart(data, boundary) # NoFile
  PROVE  LET part == ParseMultipart(data, boundary) IN
         /\ part \in [first : Nat, size : Nat]
         /\ 1 <= part.first
         /\ part.first + part.size - 1 <= Len(data)
         /\ part.size \in 1 .. MaxUploadSize
<1> DEFINE full    == FullBoundary(boundary)
           start   == Find(data, full, 1)
           headers == AfterLineEnd(data, start + Len(full))
           first   == FileStart(data, headers)
           place   == ClosingPlace(data, boundary, start)
           end     == Trimmed(data, first, place)
           size    == FileSize(first, end)
<1>1. /\ start # 0 /\ first # 0 /\ size # 0 /\ size <= MaxUploadSize
      /\ ParseMultipart(data, boundary) = [first |-> first, size |-> size]
  BY DEF ParseMultipart
<1>2. full \in Seq(Byte) /\ Len(full) \in Nat \ {0}
  BY BoundaryLemma
<1>3. start \in Nat \ {0} /\ Len(data) \in Nat
  BY <1>1, <1>2, FindLemma
<1>4. headers \in Nat \ {0}
  BY <1>2, <1>3 DEF AfterLineEnd
<1> HIDE DEF full, start, headers
<1>6. first \in Nat /\ 1 <= first /\ first <= Len(data) + 1
  BY <1>1, <1>4, FileStartLemma
<1>7. place \in Int /\ place <= Len(data) + 1 /\ -Margin <= place
  BY <1>3, PlaceLemma
<1> HIDE DEF first, place
<1>8. /\ end \in Int /\ end <= Len(data) + 1
      /\ first <= place => first <= end
      /\ place < first => end = place
  BY <1>3, <1>6, <1>7, TrimmedLemma
<1> HIDE DEF end
<1>9. size = (end - first) % SizeModulus
  BY DEF FileSize
<1> HIDE DEF size
<1>10. MaxUploadSize \in Nat
  BY MultipartAssumption
<1>9a. SizeModulus \in Int /\ Margin = 10
  BY SMT DEF SizeModulus, Margin
<1>9b. Len(data) + MaxUploadSize + Margin < SizeModulus
  <2> HIDE DEF SizeModulus, Margin
  <2>1. QED
    BY <1>3, <1>10, <1>9a
<1>11. end >= first
  <2> SUFFICES ASSUME end < first PROVE FALSE
    BY <1>6, <1>8
  <2>1. end - first < 0 /\ end - first >= -(Len(data) + Margin + 1)
    BY <1>3, <1>6, <1>7, <1>8 DEF Margin
  <2>2. size = end - first + SizeModulus
    BY <1>3, <1>6, <1>8, <1>9, <1>9b, <2>1, ModulusLemma
  <2>3. QED
    <3>1. size <= MaxUploadSize /\ Len(data) + MaxUploadSize + Margin + 1 < SizeModulus
      BY <1>1
    <3> HIDE DEF SizeModulus, Margin
    <3>3. size \in Int /\ size >= SizeModulus - (Len(data) + Margin + 1)
      BY <1>3, <1>6, <1>8, <1>9a, <2>1, <2>2
    <3>4. QED
      BY <1>3, <1>10, <1>9a, <3>1, <3>3
<1>12. size = end - first
  <2>1. end - first \in 0 .. Len(data)
    BY <1>3, <1>6, <1>8, <1>11
  <2>2. QED
    BY <1>3, <1>9, <1>9b, <2>1, ModulusLemma
<1>13. QED
  BY <1>1, <1>3, <1>6, <1>8, <1>10, <1>11, <1>12

-----------------------------------------------------------------------------
(* A body as clients build it. *)

\* The bytes of two sequences put together.
LEMMA JoinLemma ==
  ASSUME NEW a \in Seq(Byte), NEW b \in Seq(Byte)
  PROVE  /\ Len(a) \in Nat /\ Len(b) \in Nat
         /\ DOMAIN a = 1 .. Len(a) /\ DOMAIN b = 1 .. Len(b)
         /\ a \o b \in Seq(Byte)
         /\ Len(a \o b) = Len(a) + Len(b)
         /\ DOMAIN (a \o b) = 1 .. Len(a) + Len(b)
         /\ \A k \in 1 .. Len(a) : (a \o b)[k] = a[k]
         /\ \A k \in 1 .. Len(b) : (a \o b)[Len(a) + k] = b[k]
  OBVIOUS

\* What occurs as a whole occurs in its parts.
LEMMA ConcatLemma ==
  ASSUME NEW s \in Seq(Byte), NEW a \in Seq(Byte), NEW b \in Seq(Byte),
         NEW i \in Nat, Occurs(s, a \o b, i)
  PROVE  Occurs(s, a, i) /\ Occurs(s, b, i + Len(a))
<1>1. /\ Len(a) \in Nat /\ Len(b) \in Nat /\ Len(s) \in Nat
      /\ DOMAIN a = 1 .. Len(a) /\ DOMAIN b = 1 .. Len(b)
  BY JoinLemma
<1>2. /\ Len(a \o b) = Len(a) + Len(b) /\ DOMAIN (a \o b) = 1 .. Len(a) + Len(b)
      /\ \A k \in 1 .. Len(a) : (a \o b)[k] = a[k]
      /\ \A k \in 1 .. Len(b) : (a \o b)[Len(a) + k] = b[k]
  BY JoinLemma
<1> DEFINE c == a \o b
<1>3. i + Len(c) - 1 <= Len(s) /\ \A k \in DOMAIN c : s[i + k - 1] = c[k]
  BY DEF Occurs
<1> HIDE DEF c
<1>4. Occurs(s, a, i)
  <2>1. \A k \in 1 .. Len(a) : k \in DOMAIN c /\ c[k] = a[k]
    BY <1>1, <1>2 DEF c
  <2>2. i + Len(a) - 1 <= Len(s)
    BY <1>1, <1>2, <1>3 DEF c
  <2>3. QED
    BY <1>1, <1>3, <2>1, <2>2 DEF Occurs
<1>5. Occurs(s, b, i + Len(a))
  <2>1. i + Len(a) + Len(b) - 1 <= Len(s)
    BY <1>1, <1>2, <1>3 DEF c
  <2>2. ASSUME NEW k \in 1 .. Len(b) PROVE s[i + Len(a) + k - 1] = b[k]
    <3>1. Len(a) + k \in DOMAIN c /\ c[Len(a) + k] = b[k]
      BY <1>1, <1>2 DEF c
    <3>2. s[i + (Len(a) + k) - 1] = c[Len(a) + k]
      BY <1>3, <3>1
    <3>3. i + (Len(a) + k) - 1 = i + Len(a) + k - 1
      BY <1>1
    <3>4. QED
      BY <3>1, <3>2, <3>3
  <2>3. QED
    BY <1>1, <2>1, <2>2 DEF Occurs
<1>6. QED
  BY <1>4, <1>5

\* strstr finds what occurs if no NUL byte is before it, and only what occurs.
LEMMA OccursLemma ==
  ASSUME NEW s \in Seq(Byte), NEW what \in Seq(Byte), NEW from \in Nat \ {0}
  PROVE  /\ \A i \in Nat :
              /\ from <= i /\ Occurs(s, what, i)
              /\ \A j \in from .. i : s[j] # "NUL"
              => Find(s, what, from) # 0 /\ Find(s, what, from) <= i
         /\ Find(s, what, from) # 0 =>
              /\ from <= Find(s, what, from)
              /\ Occurs(s, what, Find(s, what, from))
              /\ \A j \in from .. Find(s, what, from) : s[j] # "NUL"
<1>1. Len(s) \in Nat /\ Len(what) \in Nat /\ DOMAIN what = 1 .. Len(what)
  OBVIOUS
<1>2. \A i \in Nat : i \in Places(s, what, from) <=>
        /\ from <= i /\ Occurs(s, what, i)
        /\ \A j \in from .. i : s[j] # "NUL"
  <2> TAKE i \in Nat
  <2>1. i \in from .. Len(s) - Len(what) + 1 <=>
          from <= i /\ i + Len(what) - 1 <= Len(s)
    BY <1>1
  <2>2. QED
    BY <2>1 DEF Places, Occurs
<1> DEFINE f == Find(s, what, from)
<1>3. /\ f \in Nat
      /\ f = 0 => Places(s, what, from) = {}
      /\ f # 0 => /\ f \in Places(s, what, from)
                  /\ \A j \in Places(s, what, from) : f <= j
  BY FindLemma
<1> HIDE DEF f
<1>4. QED
  BY <1>2, <1>3 DEF f

\* The bytes of the multipart data: what is found in them is found in the request.
LEMMA ShiftLemma ==
  ASSUME NEW s \in Seq(Byte), NEW b \in 1 .. Len(s) + 1
  PROVE  LET data == SubSeq(s, b, Len(s)) IN
         /\ data \in Seq(Byte) /\ Len(data) = Len(s) - b + 1
         /\ \A j \in 1 .. Len(data) : data[j] = s[j + b - 1]
         /\ \A what \in Seq(Byte), i \in Nat \ {0} :
              Occurs(data, what, i) <=> Occurs(s, what, i + b - 1)
<1> DEFINE data == SubSeq(s, b, Len(s))
<1>1. /\ Len(s) \in Nat /\ data \in Seq(Byte) /\ Len(data) = Len(s) - b + 1
      /\ \A j \in 1 .. Len(data) : data[j] = s[j + b - 1]
  OBVIOUS
<1> HIDE DEF data
<1>2. ASSUME NEW what \in Seq(Byte), NEW i \in Nat \ {0}
      PROVE  Occurs(data, what, i) <=> Occurs(s, what, i + b - 1)
  <2>1. Len(what) \in Nat /\ DOMAIN what = 1 .. Len(what)
    OBVIOUS
  <2>2. i + Len(what) - 1 <= Len(data) <=> (i + b - 1) + Len(what) - 1 <= Len(s)
    BY <1>1, <2>1
  <2>3. ASSUME i + Len(what) - 1 <= Len(data), NEW k \in 1 .. Len(what)
        PROVE  data[i + k - 1] = s[(i + b - 1) + k - 1]
    <3>1. i + k - 1 \in 1 .. Len(data) /\ (i + k - 1) + b - 1 = (i + b - 1) + k - 1
      BY <1>1, <2>1, <2>3
    <3>2. data[i + k - 1] = s[(i + k - 1) + b - 1]
      BY <1>1, <3>1
    <3>3. QED
      BY <3>1, <3>2
  <2>4. QED
    BY <2>1, <2>2, <2>3 DEF Occurs
<1>3. QED
  BY <1>1, <1>2 DEF data

\* A body as WellBuilt says, by itself: its boundary is at its beginning.
OnePart(data, boundary, img, at) ==
  LET opening == FullBoundary(boundary)
      headers == Find(data, HeaderEnd, Len(opening) + 3)
  IN  /\ ~HasNul(boundary)
      /\ Occurs(data, opening \o CRLF, 1)
      /\ headers # 0 /\ headers + 4 = at
      /\ Occurs(data, img \o CRLF \o ClosingBoundary(boundary), at)
      /\ \A i \in 2 .. at + Len(img) + 1 : ~Occurs(data, opening, i)
      /\ img # <<>> /\ img[Len(img)] \notin {"CR", "LF"}

\* The body that handle_file_upload_request hands to the parser is such a one.
LEMMA WellBuiltLemma ==
  ASSUME NEW m \in Message, WellBuilt(m)
  PROVE  LET body == Find(m.bytes, HeaderEnd, 1) + 4
             data == SubSeq(m.bytes, body, Len(m.bytes))
             at   == Len(m.bytes) - m.tail - Len(m.image) + 1
         IN  /\ body \in 5 .. Len(m.bytes) + 1 /\ FileStart(m.bytes, 1) = body
             /\ at \in Nat /\ body < at
             /\ OnePart(data, m.boundary, m.image, at - body + 1)
<1> DEFINE s       == m.bytes
           f       == Find(s, HeaderEnd, 1)
           body    == f + 4
           data    == SubSeq(s, body, Len(s))
           img     == m.image
           at      == Len(s) - m.tail - Len(img) + 1
           opening == FullBoundary(m.boundary)
           closing == ClosingBoundary(m.boundary)
           line    == opening \o CRLF
           rest    == img \o CRLF \o closing
           from    == body + Len(opening) + 2
           h       == Find(s, HeaderEnd, from)
<1>1. /\ s \in Seq(Byte) /\ img \in Seq(Byte) /\ m.boundary \in Seq(Byte)
      /\ m.tail \in Nat
  BY RequestAssumption
<1>2. /\ body > 4 /\ ~HasNul(m.boundary) /\ Occurs(s, line, body)
      /\ h # 0 /\ h + 4 = at /\ Occurs(s, rest, at)
      /\ \A i \in body + 1 .. at + Len(img) + 1 : ~Occurs(s, opening, i)
      /\ img # <<>> /\ img[Len(img)] \notin {"CR", "LF"}
  BY DEF WellBuilt
<1>3. FileStart(s, 1) = IF f # 0 THEN f + 4
                        ELSE IF Find(s, <<"LF", "LF">>, 1) # 0
                        THEN Find(s, <<"LF", "LF">>, 1) + 2 ELSE 0
  BY DEF FileStart
<1>4. /\ opening \in Seq(Byte) /\ Len(opening) \in Nat
      /\ CRLF \in Seq(Byte) /\ Len(CRLF) = 2
      /\ line \in Seq(Byte) /\ rest \in Seq(Byte)
  <2>1. opening \in Seq(Byte) /\ closing \in Seq(Byte) /\ Len(opening) \in Nat
    BY <1>1, BoundaryLemma
  <2>2. "CR" \in Byte /\ "LF" \in Byte
    BY DEF Byte
  <2>3. CRLF \in Seq(Byte) /\ Len(CRLF) = 2
    BY <2>2 DEF CRLF
  <2> HIDE DEF opening, closing, img
  <2>4. QED
    BY <1>1, <2>1, <2>3
<1>5. /\ HeaderEnd \in Seq(Byte) /\ Len(HeaderEnd) = 4
      /\ Len(s) \in Nat /\ Len(img) \in Nat
  BY <1>1, HeaderEndLemma
<1> HIDE DEF s, img, opening, closing, line, rest
<1>6. 1 \in Nat \ {0}
  OBVIOUS
<1>7. f \in Nat
  BY <1>1, <1>5, <1>6, FindLemma
<1>8. f # 0
  BY <1>2, <1>7
<1>9. f + Len(HeaderEnd) - 1 <= Len(s)
  BY <1>1, <1>5, <1>6, <1>8, FindBounds
<1> HIDE DEF f
<1>10. body \in 5 .. Len(s) + 1 /\ FileStart(s, 1) = body
  BY <1>3, <1>5, <1>7, <1>8, <1>9
<1> HIDE DEF body
<1>11. from \in Nat \ {0} /\ body < from
  BY <1>4, <1>10
<1> HIDE DEF from
<1>12. h \in Nat /\ from <= h /\ Occurs(s, HeaderEnd, h)
       /\ \A j \in from .. h : s[j] # "NUL"
  <2>1. h \in Nat
    BY <1>1, <1>5, <1>11, FindLemma
  <2>2. QED
    BY <1>1, <1>2, <1>5, <1>11, <2>1, OccursLemma
<1>13. h \in Nat /\ at = h + 4 /\ body < h
  BY <1>2, <1>10, <1>11, <1>12
<1>14. /\ data \in Seq(Byte) /\ Len(data) = Len(s) - body + 1
       /\ \A j \in 1 .. Len(data) : data[j] = s[j + body - 1]
       /\ \A what \in Seq(Byte), i \in Nat \ {0} :
            Occurs(data, what, i) <=> Occurs(s, what, i + body - 1)
  <2>1. body \in 1 .. Len(s) + 1
    BY <1>5, <1>10
  <2>2. QED
    BY <1>1, <2>1, ShiftLemma
<1> HIDE DEF data
<1> DEFINE start == Len(opening) + 3
           d     == Find(data, HeaderEnd, start)
<1>15. d = h - body + 1
  <2> DEFINE g == h - body + 1
  <2>1. start \in Nat \ {0} /\ start = from - body + 1
    BY <1>4, <1>10 DEF from
  <2>2. body \in Nat /\ g \in Nat \ {0} /\ g + body - 1 = h /\ start <= g
    BY <1>5, <1>10, <1>11, <1>12, <1>13, <2>1
  <2>3. Occurs(data, HeaderEnd, g)
    BY <1>5, <1>12, <1>14, <2>2
  <2>4. g + 3 <= Len(data)
    BY <1>5, <2>3 DEF Occurs
  <2>5. ASSUME NEW j \in start .. g PROVE data[j] # "NUL"
    <3>1. Len(data) \in Nat
      BY <1>14
    <3>2. g <= Len(data)
      <4> HIDE DEF g
      <4>1. QED
        BY <2>2, <2>4, <3>1
    <3>3. j \in 1 .. Len(data) /\ j + body - 1 \in from .. h
      <4> HIDE DEF g, start, h
      <4>1. QED
        BY <1>11, <1>13, <2>1, <2>2, <3>1, <3>2
    <3>4. QED
      BY <1>12, <1>14, <3>3
  <2> HIDE DEF g, start
  <2>6. d # 0 /\ d <= g
    BY <1>5, <1>14, <2>1, <2>2, <2>3, <2>5, OccursLemma
  <2>7. d \in Nat
    BY <1>5, <1>14, <2>1, FindLemma
  <2>8. /\ start <= d /\ Occurs(data, HeaderEnd, d)
        /\ \A j \in start .. d : data[j] # "NUL"
    BY <1>5, <1>14, <2>1, <2>6, OccursLemma
  <2> DEFINE e == d + body - 1
  <2>9. d \in Nat \ {0} /\ e \in Nat /\ from <= e /\ e <= h
    BY <1>10, <1>11, <1>12, <2>1, <2>2, <2>6, <2>7, <2>8
  <2>10. Occurs(s, HeaderEnd, e)
    BY <1>5, <1>14, <2>8, <2>9
  <2>11. \A j \in from .. e : s[j] # "NUL"
    <3>1. \A j \in from .. e : j \in from .. h
      BY <1>11, <1>13, <2>9
    <3>2. QED
      BY <1>12, <3>1
  <2> HIDE DEF e
  <2>12. h <= e
    BY <1>1, <1>5, <1>11, <2>9, <2>10, <2>11, OccursLemma
  <2>13. QED
    BY <1>10, <1>13, <2>7, <2>9, <2>12 DEF e, g
<1>16. /\ Occurs(data, line, 1)
       /\ Occurs(data, rest, at - body + 1)
  <2>1. 1 + body - 1 = body /\ at - body + 1 \in Nat \ {0}
        /\ (at - body + 1) + body - 1 = at
    BY <1>10, <1>13
  <2>2. QED
    BY <1>2, <1>4, <1>6, <1>14, <2>1
<1>17. ASSUME NEW i \in 2 .. (at - body + 1) + Len(img) + 1
       PROVE  ~Occurs(data, opening, i)
  <2>1. i \in Nat \ {0} /\ i + body - 1 \in body + 1 .. at + Len(img) + 1
    BY <1>5, <1>10, <1>13
  <2>2. QED
    BY <1>2, <1>4, <1>14, <2>1
<1>18. d # 0 /\ d + 4 = at - body + 1
  BY <1>10, <1>13, <1>15
<1>19. OnePart(data, m.boundary, img, at - body + 1)
  BY <1>2, <1>16, <1>17, <1>18 DEF OnePart, opening, closing, line, rest
<1>20. at \in Nat /\ body < at
  BY <1>10, <1>13
<1>21. QED
  BY <1>10, <1>19, <1>20 DEF data, body, f, s, img

\* What comes first in a sequence is first in what it begins.
LEMMA FirstLemma ==
  ASSUME NEW a \in Seq(Byte), NEW b \in Seq(Byte), Len(a) \in Nat \ {0}
  PROVE  (a \o b)[1] = a[1] /\ 1 \in DOMAIN (a \o b)
  OBVIOUS

\* The places in such a body, one after the other.
LEMMA PlacesLemma ==
  ASSUME NEW data \in Seq(Byte), NEW boundary \in Seq(Byte), NEW img \in Seq(Byte),
         NEW at \in Nat, OnePart(data, boundary, img, at)
  PROVE  LET opening == FullBoundary(boundary)
             closing == ClosingBoundary(boundary)
             L       == Len(opening)
             end     == at + Len(img) + 2
         IN  /\ L \in Nat \ {0} /\ Len(img) \in Nat \ {0} /\ L + 7 <= at
             /\ data[1] = "-"
             /\ Occurs(data, opening, 1) /\ Occurs(data, CRLF, L + 1)
             /\ data[L + 1] = "CR" /\ data[L + 2] = "LF"
             /\ Find(data, HeaderEnd, L + 3) = at - 4
             /\ Occurs(data, HeaderEnd, at - 4)
             /\ \A j \in L + 3 .. at - 4 : data[j] # "NUL"
             /\ \A j \in at - 4 .. at - 1 : data[j] \in {"CR", "LF"}
             /\ Occurs(data, img, at)
             /\ data[end - 2] = "CR" /\ data[end - 1] = "LF" /\ data[end] = "-"
             /\ Occurs(data, closing, end)
             /\ end <= Len(data)
<1> DEFINE opening == FullBoundary(boundary)
           closing == ClosingBoundary(boundary)
           L       == Len(opening)
           n       == Len(img)
           end     == at + n + 2
           some    == img \o CRLF
<1>1. /\ Occurs(data, opening \o CRLF, 1)
      /\ Find(data, HeaderEnd, L + 3) # 0 /\ Find(data, HeaderEnd, L + 3) + 4 = at
      /\ Occurs(data, img \o CRLF \o closing, at)
      /\ img # <<>>
  BY DEF OnePart
<1>2. /\ opening \in Seq(Byte) /\ L \in Nat \ {0}
      /\ closing \in Seq(Byte) /\ Len(closing) \in Nat \ {0}
      /\ Len(data) \in Nat
  BY BoundaryLemma
<1>3. /\ CRLF \in Seq(Byte) /\ Len(CRLF) = 2 /\ DOMAIN CRLF = 1 .. 2
      /\ CRLF[1] = "CR" /\ CRLF[2] = "LF"
  <2>1. "CR" \in Byte /\ "LF" \in Byte
    BY DEF Byte
  <2>2. QED
    BY <2>1 DEF CRLF
<1>4. /\ HeaderEnd \in Seq(Byte) /\ Len(HeaderEnd) = 4 /\ DOMAIN HeaderEnd = 1 .. 4
      /\ \A k \in 1 .. 4 : HeaderEnd[k] \in {"CR", "LF"}
  BY HeaderEndLemma DEF HeaderEnd
<1>5. /\ opening[1] = "-" /\ 1 \in DOMAIN opening
      /\ closing[1] = "-" /\ 1 \in DOMAIN closing
  <2>1. "-" \in Byte
    BY DEF Byte
  <2>2. <<"-", "-">> \in Seq(Byte) /\ Len(<<"-", "-">>) = 2 /\ <<"-", "-">>[1] = "-"
    BY <2>1
  <2> DEFINE dashes == <<"-", "-">>
  <2>3. dashes \in Seq(Byte) /\ Len(dashes) \in Nat \ {0} /\ dashes[1] = "-"
    BY <2>2
  <2> HIDE DEF dashes
  <2>4. opening = dashes \o boundary /\ closing = opening \o dashes
    BY DEF FullBoundary, ClosingBoundary, dashes
  <2> HIDE DEF opening, closing
  <2>5. opening[1] = "-" /\ 1 \in DOMAIN opening
    BY <2>3, <2>4, FirstLemma
  <2>6. closing[1] = "-" /\ 1 \in DOMAIN closing
    BY <1>2, <2>3, <2>4, <2>5, FirstLemma
  <2>7. QED
    BY <2>5, <2>6
<1> HIDE DEF opening, closing
<1>6. n \in Nat \ {0} /\ some \in Seq(Byte) /\ Len(some) = n + 2
  <2>1. n \in Nat /\ n # 0
    BY <1>1
  <2>2. CRLF \in Seq(Byte) /\ Len(CRLF) = 2
    BY <1>3
  <2>3. some \in Seq(Byte) /\ Len(some) = Len(img) + Len(CRLF)
    BY <2>2, JoinLemma
  <2>4. QED
    BY <2>1, <2>2, <2>3
<1>7. Occurs(data, opening, 1) /\ Occurs(data, CRLF, 1 + L)
  BY <1>1, <1>2, <1>3, ConcatLemma, 1 \in Nat
<1>8. Occurs(data, img, at) /\ Occurs(data, CRLF, at + n)
      /\ Occurs(data, closing, at + Len(some))
  <2>1. Occurs(data, some, at) /\ Occurs(data, closing, at + Len(some))
    <3> HIDE DEF some
    <3>1. QED
      BY <1>1, <1>2, <1>6, ConcatLemma DEF some
  <2>2. QED
    BY <1>3, <2>1, ConcatLemma
<1> HIDE DEF some
<1>9. at + Len(some) = end /\ end \in Nat
  BY <1>6
<1>11. Occurs(data, closing, end)
  BY <1>8, <1>9
<1>12. data[1] = "-"
  <2>1. data[1 + 1 - 1] = opening[1]
    BY <1>5, <1>7 DEF Occurs
  <2>2. QED
    BY <1>5, <2>1
<1>13. data[end] = "-" /\ end <= Len(data)
  <2>1. data[end + 1 - 1] = closing[1] /\ end + Len(closing) - 1 <= Len(data)
    BY <1>5, <1>11 DEF Occurs
  <2>2. end + 1 - 1 = end
    BY <1>9
  <2>3. QED
    BY <1>2, <1>5, <1>9, <2>1, <2>2
<1>14. ASSUME NEW i \in Nat, Occurs(data, CRLF, i)
       PROVE  data[i] = "CR" /\ data[i + 1] = "LF"
  <2>1. data[i + 1 - 1] = CRLF[1] /\ data[i + 2 - 1] = CRLF[2]
    BY <1>3, <1>14 DEF Occurs
  <2>2. i + 1 - 1 = i /\ i + 2 - 1 = i + 1
    OBVIOUS
  <2>3. QED
    BY <1>3, <2>1, <2>2
<1>15. data[L + 1] = "CR" /\ data[L + 2] = "LF"
  <2>1. 1 + L \in Nat /\ 1 + L = L + 1 /\ (1 + L) + 1 = L + 2
    BY <1>2
  <2>2. data[1 + L] = "CR" /\ data[(1 + L) + 1] = "LF"
    BY <1>7, <1>14, <2>1
  <2>3. QED
    BY <2>1, <2>2
<1>16. data[end - 2] = "CR" /\ data[end - 1] = "LF"
  <2>1. at + n \in Nat /\ at + n = end - 2 /\ (at + n) + 1 = end - 1
    BY <1>6
  <2>2. data[at + n] = "CR" /\ data[(at + n) + 1] = "LF"
    BY <1>8, <1>14, <2>1
  <2>3. QED
    BY <2>1, <2>2
<1> DEFINE h == Find(data, HeaderEnd, L + 3)
<1>17. /\ h \in Nat /\ L + 3 <= h
       /\ Occurs(data, HeaderEnd, h)
       /\ \A j \in L + 3 .. h : data[j] # "NUL"
  <2>1. L + 3 \in Nat \ {0}
    BY <1>2
  <2>2. h \in Nat
    BY <1>4, <2>1, FindLemma
  <2>3. QED
    BY <1>1, <1>4, <2>1, <2>2, OccursLemma
<1> HIDE DEF h
<1>18. h = at - 4 /\ L + 7 <= at
  <2>1. h + 4 = at
    BY <1>1 DEF h
  <2>2. QED
    BY <1>2, <1>17, <2>1
<1>19. \A j \in at - 4 .. at - 1 : data[j] \in {"CR", "LF"}
  <2> SUFFICES ASSUME NEW j \in at - 4 .. at - 1 PROVE data[j] \in {"CR", "LF"}
    OBVIOUS
  <2> DEFINE k == j - h + 1
  <2>1. k \in 1 .. 4 /\ h + k - 1 = j
    BY <1>17, <1>18
  <2> HIDE DEF k
  <2>2. data[h + k - 1] = HeaderEnd[k]
    BY <1>4, <1>17, <2>1 DEF Occurs
  <2>3. QED
    BY <1>4, <2>1, <2>2
<1>20. 1 + L = L + 1
  BY <1>2
<1>21. QED
  BY <1>2, <1>6, <1>7, <1>8, <1>11, <1>12, <1>13, <1>15, <1>16, <1>17, <1>18, <1>19,
     <1>20 DEF opening, closing, h

\* A boundary in such a body is at its beginning or not before the closing one,
\* and the first closing one is in its place if no NUL byte hides it.
LEMMA ClosingLemma ==
  ASSUME NEW data \in Seq(Byte), NEW boundary \in Seq(Byte), NEW img \in Seq(Byte),
         NEW at \in Nat, OnePart(data, boundary, img, at)
  PROVE  LET place == ClosingPlace(data, boundary, 1)
             end   == at + Len(img) + 2
         IN  /\ end <= place \/ place = Len(data) - Margin + 1
             /\ ~HasNul(img) => place = end
<1> DEFINE opening == FullBoundary(boundary)
           closing == ClosingBoundary(boundary)
           L       == Len(opening)
           n       == Len(img)
           end     == at + n + 2
           c       == Find(data, closing, 1)
           next    == Find(data, opening, 1 + L)
           place   == ClosingPlace(data, boundary, 1)
<1>1. /\ L \in Nat \ {0} /\ n \in Nat \ {0} /\ L + 7 <= at
      /\ Occurs(data, opening, 1) /\ data[L + 1] = "CR" /\ data[L + 2] = "LF"
      /\ \A j \in L + 3 .. at - 4 : data[j] # "NUL"
      /\ \A j \in at - 4 .. at - 1 : data[j] \in {"CR", "LF"}
      /\ Occurs(data, img, at)
      /\ data[end - 2] = "CR" /\ data[end - 1] = "LF" /\ data[end] = "-"
      /\ Occurs(data, closing, end)
  BY PlacesLemma
<1>2. /\ opening \in Seq(Byte) /\ closing \in Seq(Byte)
      /\ Len(closing) \in Nat \ {0}
      /\ Len(data) \in Nat
  BY BoundaryLemma
<1>3. ~HasNul(boundary) /\ \A i \in 2 .. at + n + 1 : ~Occurs(data, opening, i)
  BY DEF OnePart
<1>4. place = IF c # 0 THEN c ELSE IF next # 0 THEN next ELSE Len(data) - Margin + 1
  BY DEF ClosingPlace
<1>5. ASSUME NEW i \in Nat \ {0}, Occurs(data, closing, i)
      PROVE  Occurs(data, opening, i) /\ data[i + L] = "-"
  <2> DEFINE dashes == <<"-", "-">>
  <2>1. "-" \in Byte
    BY DEF Byte
  <2>2. dashes \in Seq(Byte) /\ 1 \in DOMAIN dashes /\ dashes[1] = "-"
    BY <2>1
  <2> HIDE DEF dashes
  <2>3. closing = opening \o dashes
    BY DEF ClosingBoundary, dashes
  <2> HIDE DEF opening, closing
  <2>4. Occurs(data, opening, i) /\ Occurs(data, dashes, i + L)
    BY <1>2, <1>5, <2>2, <2>3, ConcatLemma
  <2>5. data[(i + L) + 1 - 1] = dashes[1]
    BY <2>2, <2>4 DEF Occurs
  <2>6. (i + L) + 1 - 1 = i + L
    BY <1>1
  <2>7. QED
    BY <2>2, <2>4, <2>5, <2>6
<1>6. ASSUME NEW i \in Nat, 1 < i, Occurs(data, opening, i)
      PROVE  end <= i
  BY <1>1, <1>3, <1>6
<1>7. \A j \in 1 .. L : data[j] # "NUL"
  <2> SUFFICES ASSUME NEW j \in 1 .. L PROVE data[j] # "NUL"
    OBVIOUS
  <2> DEFINE dashes == <<"-", "-">>
  <2>1. "-" \in Byte
    BY DEF Byte
  <2>2. /\ dashes \in Seq(Byte) /\ Len(dashes) = 2
        /\ \A k \in 1 .. 2 : dashes[k] = "-"
    BY <2>1
  <2> HIDE DEF dashes
  <2>3. opening = dashes \o boundary
    BY DEF FullBoundary, dashes
  <2>4. /\ Len(boundary) \in Nat /\ DOMAIN boundary = 1 .. Len(boundary)
        /\ \A k \in 1 .. 2 : opening[k] = dashes[k]
        /\ \A k \in 1 .. Len(boundary) : opening[2 + k] = boundary[k]
        /\ L = 2 + Len(boundary)
    <3> HIDE DEF opening
    <3>1. dashes \in Seq(Byte)
      BY <2>2
    <3>2. /\ Len(boundary) \in Nat /\ DOMAIN boundary = 1 .. Len(boundary)
          /\ \A k \in 1 .. Len(dashes) : opening[k] = dashes[k]
          /\ \A k \in 1 .. Len(boundary) : opening[Len(dashes) + k] = boundary[k]
          /\ L = Len(dashes) + Len(boundary)
      BY <2>3, <3>1, JoinLemma
    <3>3. Len(dashes) = 2
      BY <2>2
    <3>4. QED
      BY <3>2, <3>3
  <2> HIDE DEF opening
  <2>5. opening[j] # "NUL"
    <3>1. CASE j \in 1 .. 2
      BY <2>2, <2>4, <3>1
    <3>2. CASE j > 2
      <4>1. j - 2 \in 1 .. Len(boundary) /\ 2 + (j - 2) = j
        BY <1>1, <2>4, <3>2
      <4>2. opening[j] = boundary[j - 2] /\ boundary[j - 2] # "NUL"
        BY <1>3, <2>4, <4>1 DEF HasNul
      <4>3. QED
        BY <4>2
    <3>3. QED
      BY <1>1, <3>1, <3>2
  <2>6. data[1 + j - 1] = opening[j] /\ 1 + j - 1 = j
    <3>1. j \in DOMAIN opening
      BY <1>2
    <3>2. QED
      BY <1>1, <3>1 DEF Occurs
  <2>7. QED
    BY <2>5, <2>6
<1>8. ASSUME ~HasNul(img), NEW j \in 1 .. end PROVE data[j] # "NUL"
  <2>1. CASE j \in at .. at + n - 1
    <3> DEFINE k == j - at + 1
    <3>1. k \in 1 .. n /\ at + k - 1 = j /\ DOMAIN img = 1 .. n
      BY <1>1, <2>1
    <3>2. data[at + k - 1] = img[k]
      BY <1>1, <3>1 DEF Occurs
    <3>3. QED
      BY <1>8, <3>1, <3>2 DEF HasNul
  <2>2. j \in 1 .. L \/ j = L + 1 \/ j = L + 2 \/ j \in L + 3 .. at - 4
        \/ j \in at - 4 .. at - 1 \/ j \in at .. at + n - 1
        \/ j = end - 2 \/ j = end - 1 \/ j = end
    <3>1. L \in Nat \ {0} /\ n \in Nat \ {0} /\ L + 7 <= at
      BY <1>1
    <3> HIDE DEF L, n
    <3>2. QED
      BY <3>1
  <2>3. QED
    BY <1>1, <1>7, <2>1, <2>2
<1> HIDE DEF opening, closing, place
<1>9. 1 \in Nat \ {0} /\ 1 + L \in Nat \ {0}
  BY <1>1
<1>10. c # 0 => end <= c
  <2> SUFFICES ASSUME c # 0 PROVE end <= c
    OBVIOUS
  <2>1. c \in Nat
    BY <1>2, <1>9, FindLemma
  <2>2. 1 <= c /\ Occurs(data, closing, c)
    BY <1>2, <1>9, OccursLemma
  <2> HIDE DEF c
  <2>3. c \in Nat \ {0}
    BY <2>1, <2>2
  <2>4. Occurs(data, opening, c) /\ data[c + L] = "-"
    BY <1>5, <2>2, <2>3
  <2>5. c # 1
    <3>1. SUFFICES ASSUME c = 1 PROVE FALSE
      OBVIOUS
    <3>2. data[1 + L] = "-" /\ 1 + L = L + 1
      BY <1>1, <2>4, <3>1
    <3>3. QED
      BY <1>1, <3>2
  <2>6. 1 < c
    BY <2>3, <2>5
  <2>7. QED
    BY <1>6, <2>1, <2>4, <2>6
<1>11. next # 0 => end <= next
  <2> SUFFICES ASSUME next # 0 PROVE end <= next
    OBVIOUS
  <2>1. next \in Nat
    BY <1>2, <1>9, FindLemma
  <2>2. 1 + L <= next /\ Occurs(data, opening, next)
    BY <1>2, <1>9, OccursLemma
  <2> HIDE DEF next
  <2>3. 1 < next
    BY <1>1, <2>1, <2>2
  <2>4. QED
    BY <1>6, <2>1, <2>2, <2>3
<1>12. ASSUME ~HasNul(img) PROVE c # 0 /\ c <= end
  <2>1. end \in Nat /\ 1 <= end
    BY <1>1
  <2>2. \A j \in 1 .. end : data[j] # "NUL"
    BY <1>8, <1>12
  <2> HIDE DEF end
  <2>3. QED
    BY <1>1, <1>2, <1>9, <2>1, <2>2, OccursLemma
<1>13. c \in Nat /\ end \in Nat
  BY <1>1, <1>2, <1>9, FindLemma
<1> HIDE DEF c, next, end
<1>14. end <= place \/ place = Len(data) - Margin + 1
  BY <1>4, <1>10, <1>11
<1>15. ~HasNul(img) => place = end
  BY <1>4, <1>10, <1>12, <1>13
<1>16. QED
  BY <1>14, <1>15 DEF place, end

\* The file that the parser returns from such a body.
LEMMA PartLemma ==
  ASSUME NEW data \in Seq(Byte), NEW boundary \in Seq(Byte), NEW img \in Seq(Byte),
         NEW at \in Nat, OnePart(data, boundary, img, at),
         Len(data) + MaxUploadSize + Margin + 1 < SizeModulus,
         ParseMultipart(data, boundary) # NoFile
  PROVE  LET part == ParseMultipart(data, boundary) IN
         /\ part.first = at
         /\ ~HasNul(img) => part.size = Len(img)
         /\ Margin <= Len(data) - (at + Len(img)) + 1 => Len(img) <= part.size
<1> DEFINE full    == FullBoundary(boundary)
           L       == Len(full)
           start   == Find(data, full, 1)
           headers == AfterLineEnd(data, start + L)
           first   == FileStart(data, headers)
           place   == ClosingPlace(data, boundary, start)
           end     == Trimmed(data, first, place)
           size    == FileSize(first, end)
           last    == at + Len(img) - 1
<1>1. ParseMultipart(data, boundary) = [first |-> first, size |-> size]
  BY DEF ParseMultipart
<1>2. /\ L \in Nat \ {0} /\ Len(img) \in Nat \ {0} /\ L + 7 <= at
      /\ data[1] = "-" /\ Occurs(data, full, 1)
      /\ data[L + 1] = "CR" /\ data[L + 2] = "LF"
      /\ Find(data, HeaderEnd, L + 3) = at - 4
      /\ Occurs(data, img, at)
      /\ data[at + Len(img)] = "CR" /\ data[at + Len(img) + 1] = "LF"
      /\ at + Len(img) + 2 <= Len(data)
  <2>1. /\ (at + Len(img) + 2) - 2 = at + Len(img)
        /\ (at + Len(img) + 2) - 1 = at + Len(img) + 1
    OBVIOUS
  <2>2. QED
    BY <2>1, PlacesLemma
<1>3. full \in Seq(Byte) /\ 1 \in Nat \ {0} /\ Len(data) \in Nat
  BY BoundaryLemma
<1>4. start = 1
  <2>1. \A j \in 1 .. 1 : data[j] # "NUL"
    BY <1>2
  <2> HIDE DEF full
  <2>2. start # 0 /\ start <= 1
    BY <1>2, <1>3, <2>1, OccursLemma, 1 \in Nat
  <2>3. start \in Nat
    BY <1>3, FindLemma
  <2>4. QED
    BY <2>2, <2>3
<1> HIDE DEF start, full
<1>5. headers = L + 3
  <2>1. L + 1 \in DOMAIN data /\ L + 2 \in DOMAIN data
        /\ L + 1 + 1 = L + 2 /\ L + 2 + 1 = L + 3 /\ 1 + L = L + 1
    BY <1>2, <1>3
  <2>2. QED
    BY <1>2, <1>4, <2>1 DEF AfterLineEnd
<1> HIDE DEF headers
<1>6. first = at
  <2>1. Find(data, HeaderEnd, headers) # 0
        /\ Find(data, HeaderEnd, headers) + 4 = at
    BY <1>2, <1>5
  <2>2. QED
    BY <2>1 DEF FileStart
<1> HIDE DEF first
<1>7. /\ place \in Int /\ place <= Len(data) + 1
      /\ at + Len(img) + 2 <= place \/ place = Len(data) - Margin + 1
      /\ ~HasNul(img) => place = at + Len(img) + 2
  BY <1>3, <1>4, PlaceLemma, ClosingLemma
<1>8. data[last] \notin {"CR", "LF"} /\ last \in Nat /\ at <= last
  <2>1. at + Len(img) - 1 = last /\ Len(img) \in DOMAIN img
    BY <1>2
  <2>2. data[at + Len(img) - 1] = img[Len(img)]
    BY <1>2, <2>1 DEF Occurs
  <2>3. img[Len(img)] \notin {"CR", "LF"}
    BY DEF OnePart
  <2>4. QED
    BY <1>2, <2>1, <2>2, <2>3
<1>9. last < place \/ (Margin > Len(data) - (at + Len(img)) + 1 /\ HasNul(img))
  BY <1>2, <1>3, <1>7 DEF Margin
<1>10. size = (end - first) % SizeModulus
  BY DEF FileSize
<1> HIDE DEF place, end, size, last
<1>11. ASSUME last < place
       PROVE  /\ end \in Int /\ last < end /\ end <= place
              /\ (\A i \in last + 1 .. place - 1 : data[i] \in {"CR", "LF"}) =>
                   end = last + 1
  BY <1>6, <1>7, <1>8, <1>11, TrimmedKeeps DEF end
<1>12. ASSUME last < place PROVE size = end - at
  <2>1. end - at \in 0 .. Len(data)
    <3>1. at \in Nat \ {0} /\ Len(data) \in Nat
      BY <1>2, <1>3
    <3>2. end \in Int /\ at <= end /\ end <= Len(data) + 1
      BY <1>7, <1>8, <1>11, <1>12, <3>1
    <3>3. QED
      BY <3>1, <3>2
  <2>2. Len(data) + MaxUploadSize + Margin < SizeModulus
    <3>1. SizeModulus \in Int /\ Margin \in Int /\ MaxUploadSize \in Int
      BY MultipartAssumption, SMT DEF SizeModulus, Margin
    <3> HIDE DEF SizeModulus, Margin
    <3>2. QED
      BY <1>3, <3>1
  <2>3. QED
    BY <1>3, <1>6, <1>10, <2>1, <2>2, ModulusLemma
<1>13. ASSUME ~HasNul(img) PROVE size = Len(img)
  <2>1. place = at + Len(img) + 2 /\ last = at + Len(img) - 1
    BY <1>7, <1>13 DEF last
  <2>2. \A i \in last + 1 .. place - 1 : i = at + Len(img) \/ i = at + Len(img) + 1
    BY <1>2, <2>1
  <2>3. \A i \in last + 1 .. place - 1 : data[i] \in {"CR", "LF"}
    BY <1>2, <2>2
  <2>4. last < place
    BY <1>2, <2>1
  <2>5. end = last + 1 /\ size = end - at
    BY <1>11, <1>12, <2>3, <2>4
  <2>6. QED
    BY <1>2, <2>1, <2>5
<1>14. ASSUME Margin <= Len(data) - (at + Len(img)) + 1 PROVE Len(img) <= size
  <2>1. last < place
    BY <1>2, <1>3, <1>9, <1>14 DEF Margin
  <2>2. end \in Int /\ last < end /\ size = end - at
    BY <1>11, <1>12, <2>1
  <2>3. last = at + Len(img) - 1
    BY DEF last
  <2>4. QED
    BY <1>2, <2>2, <2>3
<1>15. QED
  BY <1>1, <1>6, <1>13, <1>14

-----------------------------------------------------------------------------
(* The receiver. *)

\* The headers end where strstr finds their end in what was received, and the
\* length of the body is not known before.
HeadersInv ==
  /\ headers_end_pos = LET found == Find(buffer, HeaderEnd, 1)
                       IN  IF found = 0 THEN 0 ELSE found + 3
  /\ content_length \in {0, message.length}

\* The length of an honest message is read when its headers are complete.
HonestInv ==
  Honest(message) /\ headers_end_pos # 0 =>
    /\ headers_end_pos = Find(message.bytes, HeaderEnd, 1) + 3
    /\ content_length = message.length

NoFileYet == stage # "done" => file = NoFile

RecvInv ==
  TypeOK /\ HeadersInv /\ HonestInv /\ HonestRequestsArrive /\ NoFileYet
    /\ FileInRequest

\* What the types say of the numbers and the bytes.
LEMMA NumbersLemma ==
  ASSUME TypeOK
  PROVE  /\ message.bytes \in Seq(Byte) /\ Len(message.bytes) \in Nat
         /\ message.boundary \in Seq(Byte) /\ message.length \in Nat
         /\ total_received \in Nat /\ arrived \in Nat /\ BufferSize \in Nat
         /\ total_received <= arrived /\ arrived <= Len(message.bytes)
         /\ total_received < BufferSize
         /\ buffer \in Seq(Byte) /\ Len(buffer) = total_received
<1>1. /\ message.bytes \in Seq(Byte) /\ message.boundary \in Seq(Byte)
      /\ message.length \in Nat /\ BufferSize \in Nat
  BY RequestAssumption DEF TypeOK
<1>2. Len(message.bytes) \in Nat
  BY <1>1
<1>3. /\ total_received \in Nat /\ arrived \in Nat
      /\ total_received <= arrived /\ arrived <= Len(message.bytes)
      /\ total_received < BufferSize
  <2>1. /\ arrived \in 0 .. Len(message.bytes)
        /\ total_received \in 0 .. arrived /\ total_received < BufferSize
    BY DEF TypeOK
  <2>2. QED
    BY <1>2, <2>1
<1>4. buffer \in Seq(Byte) /\ Len(buffer) = total_received
  BY <1>1, <1>2, <1>3 DEF buffer
<1>5. QED
  BY <1>1, <1>2, <1>3, <1>4

\* What is received fits size_t with the sizes that are added to it.
LEMMA RoomLemma ==
  ASSUME TypeOK, NEW n \in Nat, n <= total_received
  PROVE  n + MaxUploadSize + Margin + 1 < SizeModulus
<1>1. /\ MaxUploadSize \in Nat /\ MaxUploadSize < BufferSize
      /\ 2 * BufferSize + Margin < SizeModulus /\ BufferSize \in Nat
      /\ total_received \in Nat /\ total_received < BufferSize
  BY MultipartAssumption, RequestAssumption, NumbersLemma
<1>2. Margin \in Nat /\ SizeModulus \in Nat
  BY SMT DEF Margin, SizeModulus
<1> HIDE DEF Margin, SizeModulus
<1>3. QED
  BY <1>1, <1>2

\* Once the headers are in what was received, the length is, too, in an honest one.
LEMMA HonestLemma ==
  ASSUME NEW m, m.bytes \in Seq(Byte), m.length \in Nat, Honest(m),
         NEW total \in 0 .. Len(m.bytes),
         Find(SubSeq(m.bytes, 1, total), HeaderEnd, 1) # 0
  PROVE  /\ Find(SubSeq(m.bytes, 1, total), HeaderEnd, 1) = Find(m.bytes, HeaderEnd, 1)
         /\ Find(SubSeq(m.bytes, 1, total), <<"length">>, 1) # 0
<1> DEFINE bytes   == m.bytes
           part    == SubSeq(bytes, 1, total)
           found   == Find(part, HeaderEnd, 1)
           headers == Find(bytes, HeaderEnd, 1) + 3
           what    == <<"length">>
<1>1. bytes \in Seq(Byte) /\ Len(bytes) \in Nat /\ SubSeq(bytes, 1, Len(bytes)) = bytes
  OBVIOUS
<1>2. total \in Nat /\ total <= Len(bytes) /\ part \in Seq(Byte) /\ Len(part) = total
  BY <1>1
<1>3. Find(SubSeq(bytes, 1, Len(bytes)), HeaderEnd, 1) = found
  BY <1>1, <1>2, HeaderEndLemma, PrefixLemma
<1>4. Find(bytes, HeaderEnd, 1) = found /\ found # 0
  BY <1>1, <1>3
<1>5. Find(SubSeq(bytes, 1, headers), what, 1) # 0
  BY DEF Honest
<1>6. what \in Seq(Byte) /\ what # <<>> /\ 1 \in Nat \ {0}
  BY HeaderEndLemma
<1> HIDE DEF part, bytes, what
<1>7. found \in Nat /\ found + Len(HeaderEnd) - 1 <= Len(part)
  BY <1>2, <1>4, <1>6, HeaderEndLemma, FindBounds
<1> HIDE DEF found
<1>8. headers \in Nat /\ headers <= total
  BY <1>2, <1>4, <1>7, HeaderEndLemma
<1> HIDE DEF headers
<1>9. Find(SubSeq(bytes, 1, total), what, 1) # 0
  BY <1>1, <1>2, <1>5, <1>6, <1>8, PrefixLemma
<1>10. QED
  BY <1>4, <1>9 DEF found, part, bytes, what

\* A recv adds to what was received, and the loop judges it.
LEMMA ReceiveLemma ==
  ASSUME RecvInv, Receive
  PROVE  RecvInv'
<1> DEFINE bytes(total)   == SubSeq(message.bytes, 1, total)
           found(total)   == Find(bytes(total), HeaderEnd, 1)
           headers(total) == IF headers_end_pos # 0 THEN headers_end_pos
                             ELSE IF found(total) # 0 THEN found(total) + 3 ELSE 0
           length(total)  == IF headers_end_pos = 0 /\ found(total) # 0
                             THEN Declared(bytes(total)) ELSE content_length
<1>1. PICK total \in {arrived, Capacity} :
        /\ total <= arrived /\ total <= Capacity
        /\ total_received' = total
        /\ headers_end_pos' = headers(total)
        /\ content_length' = length(total)
        /\ cut' = Verdict(total, headers(total), length(total))
  BY DEF Receive
<1>2. /\ stage = "recv" /\ arrived > total_received
      /\ message' = message /\ arrived' = arrived /\ client' = client
      /\ descriptor' \in {descriptor, "closed"}
      /\ file' = file /\ replies' = replies
      /\ stage' \in {"recv", "request", "bad"}
  BY DEF Receive, Reaches, socketVars
<1> DEFINE b == bytes(total)
           f == found(total)
           h == headers(total)
           l == length(total)
<1>3. TypeOK
  BY DEF RecvInv
<1>4. /\ message.bytes \in Seq(Byte) /\ Len(message.bytes) \in Nat
      /\ message.length \in Nat /\ BufferSize \in Nat
      /\ total_received \in Nat /\ arrived \in Nat
      /\ arrived <= Len(message.bytes) /\ total_received < BufferSize
  BY <1>3, NumbersLemma
<1>5. /\ total \in Nat /\ total < BufferSize
      /\ total_received <= total /\ total <= arrived /\ total <= Len(message.bytes)
  BY <1>1, <1>2, <1>4 DEF Capacity
<1>6. b \in Seq(Byte) /\ Len(b) = total /\ buffer' = b
  BY <1>1, <1>2, <1>4, <1>5 DEF buffer
<1>7. f \in Nat /\ (f # 0 => f + 3 <= total)
  <2>1. 1 \in Nat \ {0}
    OBVIOUS
  <2>2. f \in Nat /\ (f # 0 => f + Len(HeaderEnd) - 1 <= Len(b))
    <3> HIDE DEF b
    <3>1. QED
      BY <1>6, <2>1, HeaderEndLemma, FindLemma DEF b
  <2> HIDE DEF f, b
  <2>3. QED
    BY <1>6, <2>2, HeaderEndLemma
<1>8. h = IF f = 0 THEN 0 ELSE f + 3
  <2>1. CASE headers_end_pos = 0
    BY <2>1
  <2>2. CASE headers_end_pos # 0
    <3>1. /\ Find(buffer, HeaderEnd, 1) # 0
          /\ headers_end_pos = Find(buffer, HeaderEnd, 1) + 3
      BY <2>2 DEF RecvInv, HeadersInv
    <3>2. f = Find(buffer, HeaderEnd, 1)
      BY <1>4, <1>5, <3>1, HeaderEndLemma, PrefixLemma DEF buffer
    <3>3. QED
      BY <2>2, <3>1, <3>2
  <2>3. QED
    BY <2>1, <2>2
<1>9. l \in {0, message.length}
  BY DEF RecvInv, HeadersInv, Declared
<1>10. ASSUME Honest(message), h # 0
       PROVE  h = Find(message.bytes, HeaderEnd, 1) + 3 /\ l = message.length
  <2>1. f # 0
    BY <1>8, <1>10
  <2>2. total \in 0 .. Len(message.bytes)
    BY <1>4, <1>5
  <2>3. /\ f = Find(message.bytes, HeaderEnd, 1)
        /\ Find(b, <<"length">>, 1) # 0
    BY <1>4, <1>10, <2>1, <2>2, HonestLemma
  <2>4. Declared(b) = message.length
    BY <2>3 DEF Declared
  <2>5. headers_end_pos # 0 => content_length = message.length
    BY <1>10 DEF RecvInv, HonestInv
  <2>6. QED
    BY <1>8, <2>1, <2>3, <2>4, <2>5
<1>11. /\ total_received' = total /\ headers_end_pos' = h /\ content_length' = l
       /\ cut' = Verdict(total, h, l)
  BY <1>1
<1> HIDE DEF b, f, h, l
<1>12. cut' \in {"none", "failed", "complete", "no body", "full"}
  BY <1>11 DEF Verdict
<1>13. TypeOK'
  <2>1. h \in 0 .. total /\ l \in Nat
    BY <1>4, <1>5, <1>7, <1>8, <1>9
  <2>2. stage' \in {"recv", "request", "bad", "done"}
    BY <1>2
  <2>3. total \in 0 .. arrived /\ total < BufferSize
    BY <1>4, <1>5
  <2>4. /\ message' \in Message /\ arrived' \in 0 .. Len(message'.bytes)
        /\ client' \in {"open", "closed", "reset"}
        /\ descriptor' \in {"open", "pending", "closed"}
        /\ file' \in [first : Nat, size : Nat] /\ replies' \in Seq(Nat)
    BY <1>2, <1>3 DEF TypeOK
  <2>5. QED
    BY <1>2, <1>11, <1>12, <2>1, <2>2, <2>3, <2>4 DEF TypeOK
<1>14. HeadersInv'
  BY <1>2, <1>6, <1>8, <1>9, <1>11 DEF HeadersInv, f, b
<1>15. HonestInv'
  BY <1>2, <1>10, <1>11 DEF HonestInv
<1>16. HonestRequestsArrive'
  <2> SUFFICES ASSUME Honest(message)
               PROVE  /\ cut' \in {"complete", "no body"} => total = Len(message.bytes)
                      /\ cut' = "full" => \/ total = Len(message.bytes)
                                          \/ Len(message.bytes) >= BufferSize
                      /\ cut' = "failed" => \/ message.length > MaxUploadSize
                                            \/ Len(message.bytes) >= BufferSize
    BY <1>2, <1>11 DEF HonestRequestsArrive, Whole
  <2>1. h # 0 => Len(message.bytes) = h + l
    BY <1>10 DEF Honest
  <2>2. MaxUploadSize \in Nat
    BY MultipartAssumption
  <2>3. h \in Nat /\ l \in Nat /\ (h # 0 => h <= total)
    BY <1>4, <1>5, <1>7, <1>8, <1>9
  <2>4. cut' = "complete" => h # 0 /\ total >= h + l
    BY <1>11 DEF Verdict, Expected
  <2>5. cut' = "no body" => h # 0 /\ l = 0
    BY <1>11 DEF Verdict
  <2>6. cut' = "full" => total >= BufferSize - 1
    BY <1>11 DEF Verdict, Capacity
  <2>7. cut' = "failed" => l > MaxUploadSize \/ (h # 0 /\ h + l >= BufferSize)
    BY <1>11 DEF Verdict, Expected
  <2>8. cut' \in {"complete", "no body"} => total = Len(message.bytes)
    <3>1. cut' = "complete" => total = Len(message.bytes)
      BY <1>4, <1>5, <2>1, <2>3, <2>4
    <3>2. cut' = "no body" => total = Len(message.bytes)
      <4>0. SUFFICES ASSUME cut' = "no body" PROVE total = Len(message.bytes)
        OBVIOUS
      <4>1. h # 0 /\ l = 0
        BY <2>5, <4>0
      <4>2. Len(message.bytes) = h
        BY <2>1, <2>3, <4>1
      <4>3. h <= total
        BY <2>3, <4>1
      <4>4. QED
        BY <1>4, <1>5, <4>2, <4>3
    <3>3. QED
      BY <3>1, <3>2
  <2>9. cut' = "full" => \/ total = Len(message.bytes)
                         \/ Len(message.bytes) >= BufferSize
    BY <1>4, <1>5, <2>6
  <2>10. cut' = "failed" => \/ message.length > MaxUploadSize
                            \/ Len(message.bytes) >= BufferSize
    BY <1>4, <1>9, <2>1, <2>2, <2>3, <2>7
  <2>11. QED
    BY <2>8, <2>9, <2>10
<1>17. file' = NoFile
  BY <1>2 DEF RecvInv, NoFileYet
<1>18. NoFileYet' /\ FileInRequest'
  BY <1>17 DEF NoFileYet, FileInRequest, NoFile
<1>19. QED
  BY <1>13, <1>14, <1>15, <1>16, <1>18 DEF RecvInv

\* The other ways to leave the loop, and what the client does, keep what was
\* received.
LEMMA StopLemma ==
  ASSUME RecvInv,
         \/ EndOfFile \/ Timeout \/ ReceiveError \/ Interrupted
         \/ Arrive \/ Hangup \/ CloseDescriptor
  PROVE  RecvInv'
<1>1. TypeOK
  BY DEF RecvInv
<1>2. /\ message' = message /\ total_received' = total_received
      /\ headers_end_pos' = headers_end_pos /\ content_length' = content_length
      /\ file' = file /\ replies' = replies
      /\ stage = "recv" /\ stage' \in {"recv", "request", "bad"}
      /\ cut' \in {cut, "eof", "timeout", "reset", "lost", "interrupted"}
      /\ client' \in {"open", "closed", "reset"}
      /\ descriptor' \in {"open", "pending", "closed"}
  BY <1>1 DEF EndOfFile, Timeout, StopReceiving, ReceiveError, Interrupted,
              FailReceiving, Reaches, Misses, Arrive, Hangup, CloseDescriptor,
              socketVars, recvVars, TypeOK
<1>3. arrived' \in arrived .. Len(message.bytes)
  <2>1. arrived \in Nat /\ Len(message.bytes) \in Nat /\ arrived <= Len(message.bytes)
    BY <1>1, NumbersLemma
  <2>2. arrived' = arrived \/ arrived' \in arrived + 1 .. Len(message.bytes)
    BY DEF EndOfFile, Timeout, StopReceiving, ReceiveError, Interrupted,
           FailReceiving, Arrive, Hangup, CloseDescriptor, socketVars
  <2>3. QED
    BY <2>1, <2>2
<1>4. TypeOK'
  <2>1. arrived \in Nat /\ total_received \in 0 .. arrived
    BY <1>1, NumbersLemma
  <2>2. total_received \in 0 .. arrived' /\ arrived' \in 0 .. Len(message.bytes)
    BY <1>1, <1>3, <2>1, NumbersLemma
  <2>3. QED
    BY <1>1, <1>2, <2>2 DEF TypeOK
<1>5. buffer' = buffer
  BY <1>2 DEF buffer
<1>6. HeadersInv' /\ HonestInv'
  BY <1>2, <1>5 DEF RecvInv, HeadersInv, HonestInv
<1>7. HonestRequestsArrive'
  BY <1>2 DEF RecvInv, HonestRequestsArrive, Whole
<1>8. file' = NoFile
  BY <1>2 DEF RecvInv, NoFileYet
<1>9. NoFileYet' /\ FileInRequest'
  BY <1>8 DEF NoFileYet, FileInRequest, NoFile
<1>10. QED
  BY <1>4, <1>6, <1>7, <1>9 DEF RecvInv

\* A part of what was received that follows an empty line of it.
LEMMA FileFoundLemma ==
  ASSUME RecvInv, FileFound # NoFile
  PROVE  /\ FileFound \in [first : Nat, size : Nat]
         /\ headers_end_pos < FileFound.first
         /\ FileFound.first + FileFound.size - 1 <= total_received
         /\ FileFound.size \in 1 .. MaxUploadSize
<1> DEFINE body == FileStart(buffer, 1)
           data == SubSeq(buffer, body, total_received)
           part == ParseMultipart(data, message.boundary)
<1>1. body # 0 /\ part # NoFile /\ FileFound = [part EXCEPT !.first = @ + body - 1]
  BY DEF FileFound
<1>2. TypeOK /\ HeadersInv
  BY DEF RecvInv
<1>3. /\ buffer \in Seq(Byte) /\ Len(buffer) = total_received /\ total_received \in Nat
      /\ message.boundary \in Seq(Byte)
      /\ total_received < BufferSize /\ BufferSize \in Nat
  BY <1>2, NumbersLemma
<1>4. body \in 1 .. total_received + 1
  <2>1. 1 \in Nat \ {0}
    OBVIOUS
  <2>2. QED
    BY <1>1, <1>3, <2>1, FileStartLemma
<1>5. headers_end_pos < body
  <2>1. body = IF Find(buffer, HeaderEnd, 1) # 0 THEN Find(buffer, HeaderEnd, 1) + 4
               ELSE IF Find(buffer, <<"LF", "LF">>, 1) # 0
               THEN Find(buffer, <<"LF", "LF">>, 1) + 2 ELSE 0
    BY DEF FileStart
  <2>2. Find(buffer, HeaderEnd, 1) # 0 => Find(buffer, HeaderEnd, 1) \in Nat
    BY <1>3, HeaderEndLemma, FindBounds
  <2>3. headers_end_pos = IF Find(buffer, HeaderEnd, 1) = 0 THEN 0
                          ELSE Find(buffer, HeaderEnd, 1) + 3
    BY <1>2 DEF HeadersInv
  <2>4. QED
    BY <1>4, <2>1, <2>2, <2>3
<1> HIDE DEF body
<1>6. data \in Seq(Byte) /\ Len(data) = total_received - body + 1
  BY <1>3, <1>4
<1>7. Len(data) + MaxUploadSize + Margin + 1 < SizeModulus
  <2>1. Len(data) \in Nat /\ Len(data) <= total_received
    BY <1>3, <1>4, <1>6
  <2>2. QED
    BY <1>2, <2>1, RoomLemma
<1>8. /\ part \in [first : Nat, size : Nat]
      /\ 1 <= part.first
      /\ part.first + part.size - 1 <= Len(data)
      /\ part.size \in 1 .. MaxUploadSize
  <2> HIDE DEF data
  <2>1. QED
    BY <1>1, <1>3, <1>6, <1>7, ParseLemma
<1> HIDE DEF part, data
<1>9. headers_end_pos \in Nat
  <2>1. headers_end_pos \in 0 .. total_received
    BY <1>2 DEF TypeOK
  <2>2. QED
    BY <1>3, <2>1
<1>10. /\ FileFound \in [first : Nat, size : Nat]
       /\ FileFound.first = part.first + body - 1 /\ FileFound.size = part.size
  BY <1>1, <1>4, <1>8
<1>11. MaxUploadSize \in Nat
  BY MultipartAssumption
<1>12. QED
  BY <1>3, <1>4, <1>5, <1>6, <1>8, <1>9, <1>10, <1>11

\* The handler answers once, and sets the file if it takes the upload.
LEMMA AnswerLemma ==
  ASSUME RecvInv, Handle
  PROVE  RecvInv'
<1>1. /\ message' = message /\ arrived' = arrived /\ client' = client
      /\ total_received' = total_received /\ headers_end_pos' = headers_end_pos
      /\ content_length' = content_length /\ cut' = cut
      /\ descriptor' = descriptor
      /\ stage' = "done" /\ stage # "done"
      /\ file' = file \/ (Acceptable /\ file' = FileFound)
  BY DEF Handle, BadRequest, AnswerAtOnce, AcceptUpload, RefuseUpload, Answer,
         socketVars, recvVars
<1>2. replies' \in Seq(Nat)
  <2>1. \E a, b \in Nat : replies' = <<a>> \/ replies' = <<a, b>>
    <3>1. CASE BadRequest
      BY <3>1, 400 \in Nat DEF BadRequest, Answer
    <3>2. CASE AnswerAtOnce
      <4>1. PICK a : a \in {200, 404, 405, 400} /\ replies' = <<a>>
        BY <3>2 DEF AnswerAtOnce, Answer
      <4>2. QED
        BY <4>1
    <3>3. CASE AcceptUpload
      BY <3>3, 200 \in Nat DEF AcceptUpload, Answer
    <3>4. CASE RefuseUpload
      <4>1. PICK code \in {400, 500, 413} : replies' = <<code, 500>>
        BY <3>4 DEF RefuseUpload, Answer
      <4>2. QED
        BY <4>1
    <3>5. QED
      BY <3>1, <3>2, <3>3, <3>4 DEF Handle
  <2>2. PICK a \in Nat, b \in Nat : replies' = <<a>> \/ replies' = <<a, b>>
    BY <2>1
  <2>3. <<a>> \in Seq(Nat) /\ <<a, b>> \in Seq(Nat)
    OBVIOUS
  <2>4. QED
    BY <2>2, <2>3
<1>3. TypeOK
  BY DEF RecvInv
<1>4. file = NoFile
  BY <1>1 DEF RecvInv, NoFileYet
<1>5. /\ file' \in [first : Nat, size : Nat]
      /\ FileInRequest'
  <2>1. CASE file' = file
    BY <1>3, <1>4, <2>1 DEF TypeOK, FileInRequest
  <2>2. CASE Acceptable /\ file' = FileFound
    <3>1. FileFound # NoFile
      BY <2>2 DEF Acceptable
    <3>2. QED
      BY <1>1, <2>2, <3>1, FileFoundLemma DEF FileInRequest
  <2>3. QED
    BY <1>1, <2>1, <2>2
<1>6. TypeOK'
  BY <1>1, <1>2, <1>3, <1>5 DEF TypeOK
<1>7. buffer' = buffer
  BY <1>1 DEF buffer
<1>8. HeadersInv' /\ HonestInv' /\ HonestRequestsArrive' /\ NoFileYet'
  BY <1>1, <1>7 DEF RecvInv, HeadersInv, HonestInv, HonestRequestsArrive, NoFileYet, Whole
<1>9. QED
  BY <1>5, <1>6, <1>8 DEF RecvInv

LEMMA RecvInit == Init => RecvInv
<1> SUFFICES ASSUME Init PROVE RecvInv
  OBVIOUS
<1>1. /\ message \in Message /\ arrived = 0 /\ client = "open"
      /\ descriptor = "open"
      /\ total_received = 0 /\ headers_end_pos = 0 /\ content_length = 0
      /\ stage = "recv" /\ cut = "none" /\ file = NoFile /\ replies = <<>>
  BY DEF Init
<1>2. /\ message.bytes \in Seq(Byte) /\ BufferSize \in Nat \ {0}
      /\ MaxUploadSize \in Nat
  BY <1>1, RequestAssumption, MultipartAssumption
<1>3. TypeOK
  <2>1. /\ 0 \in 0 .. Len(message.bytes) /\ 0 < BufferSize
    BY <1>2
  <2>2. NoFile \in [first : Nat, size : Nat]
    BY DEF NoFile
  <2>3. /\ message \in Message /\ arrived \in 0 .. Len(message.bytes)
        /\ client \in {"open", "closed", "reset"}
        /\ descriptor \in {"open", "pending", "closed"}
        /\ total_received \in 0 .. arrived /\ total_received < BufferSize
        /\ headers_end_pos \in 0 .. total_received /\ content_length \in Nat
        /\ stage \in {"recv", "request", "bad", "done"}
        /\ cut \in {"none", "failed", "complete", "no body", "full", "eof", "timeout",
                    "reset", "lost", "interrupted"}
        /\ file \in [first : Nat, size : Nat] /\ replies \in Seq(Nat)
    BY <1>1, <2>1, <2>2
  <2>4. QED
    BY <2>3, Zenon DEF TypeOK
<1>4. HeadersInv
  <2>1. buffer \in Seq(Byte) /\ Len(buffer) = 0
    BY <1>1, <1>2 DEF buffer
  <2>2. Find(buffer, HeaderEnd, 1) = 0
    <3>1. SUFFICES ASSUME Find(buffer, HeaderEnd, 1) # 0 PROVE FALSE
      OBVIOUS
    <3>2. /\ Find(buffer, HeaderEnd, 1) \in Nat
          /\ Find(buffer, HeaderEnd, 1) + Len(HeaderEnd) - 1 <= Len(buffer)
      BY <2>1, <3>1, 1 \in Nat \ {0}, HeaderEndLemma, FindBounds
    <3>3. QED
      BY <2>1, <3>2, HeaderEndLemma
  <2>3. QED
    BY <1>1, <2>2 DEF HeadersInv
<1>5. HonestInv /\ HonestRequestsArrive /\ NoFileYet /\ FileInRequest
  BY <1>1 DEF HonestInv, HonestRequestsArrive, NoFileYet, FileInRequest
<1>6. QED
  BY <1>3, <1>4, <1>5 DEF RecvInv

LEMMA RecvStep == RecvInv /\ [Next]_vars => RecvInv'
<1> SUFFICES ASSUME RecvInv, [Next]_vars PROVE RecvInv'
  OBVIOUS
<1>1. CASE Receive
  BY <1>1, ReceiveLemma
<1>2. CASE \/ EndOfFile \/ Timeout \/ ReceiveError \/ Interrupted
           \/ Arrive \/ Hangup \/ CloseDescriptor
  BY <1>2, StopLemma
<1>3. CASE Handle
  BY <1>3, AnswerLemma
<1>4. CASE UNCHANGED vars
  <2>1. buffer' = buffer
    BY <1>4 DEF vars, socketVars, recvVars, buffer
  <2>2. TypeOK'
    BY <1>4, Zenon DEF vars, socketVars, recvVars, RecvInv, TypeOK
  <2>3. /\ HeadersInv' /\ HonestInv' /\ HonestRequestsArrive'
        /\ NoFileYet' /\ FileInRequest'
    BY <1>4, <2>1 DEF vars, socketVars, recvVars, RecvInv, HeadersInv,
                      HonestInv, HonestRequestsArrive, NoFileYet, FileInRequest, Whole
  <2>4. QED
    BY <2>2, <2>3 DEF RecvInv
<1>5. QED
  BY <1>1, <1>2, <1>3, <1>4 DEF Next, Recv, Done

LEMMA RecvInvariant == Spec => []RecvInv
<1> HIDE DEF RecvInv, Init, Next, vars
<1>1. QED
  BY RecvInit, RecvStep, PTL DEF Spec

-----------------------------------------------------------------------------
(* The image. *)

\* The bytes from a place at which something occurs begin with it.
LEMMA SliceLemma ==
  ASSUME NEW s \in Seq(Byte), NEW what \in Seq(Byte), NEW i \in Nat \ {0},
         Occurs(s, what, i), NEW size \in Nat, Len(what) <= size,
         i + size - 1 <= Len(s)
  PROVE  LET slice == SubSeq(s, i, i + size - 1)
         IN  /\ SubSeq(slice, 1, Len(what)) = what
             /\ size = Len(what) => slice = what
<1> DEFINE slice == SubSeq(s, i, i + size - 1)
           n     == Len(what)
<1>1. n \in Nat /\ DOMAIN what = 1 .. n /\ Len(s) \in Nat
  OBVIOUS
<1>2. /\ slice \in Seq(Byte) /\ Len(slice) = size /\ DOMAIN slice = 1 .. size
      /\ \A k \in 1 .. size : slice[k] = s[i + k - 1]
  BY <1>1
<1>3. \A k \in 1 .. n : s[i + k - 1] = what[k]
  BY <1>1 DEF Occurs
<1> HIDE DEF slice
<1>4. \A k \in 1 .. n : k \in 1 .. size /\ slice[k] = what[k]
  <2>1. n \in Nat /\ n <= size
    BY <1>1
  <2> HIDE DEF n
  <2>2. \A k \in 1 .. n : k \in 1 .. size
    BY <2>1
  <2>3. QED
    BY <1>2, <1>3, <2>2
<1> DEFINE start == SubSeq(slice, 1, n)
<1>5. /\ start \in Seq(Byte) /\ Len(start) = n
      /\ \A k \in 1 .. n : start[k] = slice[k]
  BY <1>1, <1>2
<1> HIDE DEF start
<1>6. start = what
  BY <1>1, <1>4, <1>5
<1>7. size = n => slice = what
  BY <1>1, <1>2, <1>4
<1>8. QED
  BY <1>6, <1>7 DEF slice, start

\* The file that is found in a whole request with a body as clients build it.
LEMMA WholeFileLemma ==
  ASSUME RecvInv, Whole, WellBuilt(message), FileFound # NoFile
  PROVE  LET found == SubSeq(buffer, FileFound.first,
                             FileFound.first + FileFound.size - 1)
             img   == message.image
         IN  /\ ~HasNul(img) => found = img
             /\ message.tail >= Margin =>
                  FileFound.size >= Len(img) /\ SubSeq(found, 1, Len(img)) = img
<1> DEFINE s     == message.bytes
           img   == message.image
           body  == Find(s, HeaderEnd, 1) + 4
           data  == SubSeq(s, body, Len(s))
           place == Len(s) - message.tail - Len(img) + 1
           at    == place - body + 1
           part  == ParseMultipart(data, message.boundary)
<1>1. TypeOK
  BY DEF RecvInv
<1>2. /\ message \in Message /\ s \in Seq(Byte) /\ Len(s) \in Nat
      /\ message.boundary \in Seq(Byte)
      /\ img \in Seq(Byte) /\ Len(img) \in Nat /\ message.tail \in Nat
      /\ total_received \in Nat
  <2>1. message \in Message
    BY <1>1 DEF TypeOK
  <2>2. img \in Seq(Byte) /\ message.tail \in Nat
    BY <2>1, RequestAssumption
  <2>3. QED
    BY <1>1, <2>1, <2>2, NumbersLemma
<1>3. total_received = Len(s) /\ buffer = s
  BY <1>2 DEF Whole, buffer
<1>4. /\ body \in 5 .. Len(s) + 1 /\ FileStart(s, 1) = body
      /\ place \in Nat /\ body < place
      /\ OnePart(data, message.boundary, img, at)
  BY <1>2, WellBuiltLemma
<1>5. FileFound = [part EXCEPT !.first = @ + body - 1] /\ part # NoFile
  BY <1>3, <1>4 DEF FileFound
<1> HIDE DEF s, img, body, place
<1>6. body \in 1 .. Len(s) + 1 /\ body \in Nat
  BY <1>2, <1>4
<1>7. /\ data \in Seq(Byte) /\ Len(data) = Len(s) - body + 1
      /\ \A what \in Seq(Byte), i \in Nat \ {0} :
           Occurs(data, what, i) <=> Occurs(s, what, i + body - 1)
  BY <1>2, <1>6, ShiftLemma
<1> HIDE DEF data
<1>8. at \in Nat \ {0} /\ at + body - 1 = place
  BY <1>4, <1>6
<1> HIDE DEF at
<1>9. Len(data) + MaxUploadSize + Margin + 1 < SizeModulus
  <2>1. Len(data) \in Nat /\ Len(data) <= total_received
    BY <1>2, <1>3, <1>4, <1>7
  <2>2. QED
    BY <1>1, <2>1, RoomLemma
<1>10. /\ part.first = at
       /\ ~HasNul(img) => part.size = Len(img)
       /\ Margin <= Len(data) - (at + Len(img)) + 1 => Len(img) <= part.size
  BY <1>2, <1>4, <1>5, <1>7, <1>8, <1>9, PartLemma
<1>11. part \in [first : Nat, size : Nat]
  BY <1>2, <1>5, <1>7, <1>9, ParseLemma
<1> HIDE DEF part
<1>12. FileFound.first = place /\ FileFound.size = part.size
  BY <1>5, <1>8, <1>10, <1>11
<1>13. /\ FileFound.size \in Nat
       /\ place + FileFound.size - 1 <= Len(s)
  BY <1>3, <1>12, FileFoundLemma
<1>14. Occurs(s, img, place) /\ place \in Nat \ {0}
  <2>1. Occurs(data, img, at)
    BY <1>2, <1>4, <1>7, <1>8, PlacesLemma
  <2>2. Occurs(s, img, at + body - 1)
    BY <1>2, <1>7, <1>8, <2>1
  <2>3. QED
    BY <1>4, <1>6, <1>8, <2>2
<1> DEFINE found == SubSeq(s, place, place + FileFound.size - 1)
<1>15. ASSUME Len(img) <= FileFound.size
       PROVE  /\ SubSeq(found, 1, Len(img)) = img
              /\ FileFound.size = Len(img) => found = img
  <2> DEFINE size == FileFound.size
  <2>1. size \in Nat /\ Len(img) <= size /\ place + size - 1 <= Len(s)
    BY <1>13, <1>15
  <2> HIDE DEF size
  <2>2. /\ SubSeq(SubSeq(s, place, place + size - 1), 1, Len(img)) = img
        /\ size = Len(img) => SubSeq(s, place, place + size - 1) = img
    BY <1>2, <1>14, <2>1, SliceLemma
  <2>3. QED
    BY <2>2 DEF size
<1>16. message.tail >= Margin => Len(img) <= FileFound.size
  <2>1. Len(data) - (at + Len(img)) + 1 = message.tail
    <3>1. /\ Len(s) \in Nat /\ Len(img) \in Nat /\ message.tail \in Nat
          /\ body \in Nat /\ at \in Nat /\ at + body - 1 = place
          /\ Len(data) = Len(s) - body + 1
          /\ place = Len(s) - message.tail - Len(img) + 1
      BY <1>2, <1>6, <1>7, <1>8 DEF place
    <3>2. QED
      BY <3>1
  <2>2. Margin \in Nat
    BY DEF Margin
  <2>3. QED
    BY <1>2, <1>10, <1>12, <2>1, <2>2
<1>17. ~HasNul(img) => FileFound.size = Len(img)
  BY <1>10, <1>12
<1> HIDE DEF found
<1>18. /\ ~HasNul(img) => found = img
       /\ message.tail >= Margin =>
            FileFound.size >= Len(img) /\ SubSeq(found, 1, Len(img)) = img
  BY <1>2, <1>13, <1>15, <1>16, <1>17
<1>19. QED
  BY <1>3, <1>12, <1>18 DEF found, img

\* The file is the one that is found in what was received, and nothing is received
\* after it was found.
FoundInv == file # NoFile => stage = "done" /\ file = FileFound

\* The parser runs once, on a message that does not change any more.
LEMMA FoundStep == RecvInv /\ FoundInv /\ [Next]_vars => FoundInv'
<1> SUFFICES ASSUME RecvInv, FoundInv, [Next]_vars, file' # NoFile
             PROVE  stage' = "done" /\ file' = FileFound'
  BY DEF FoundInv
<1>1. ASSUME message' = message, total_received' = total_received
      PROVE  FileFound' = FileFound
  BY <1>1 DEF FileFound, HasBoundary, buffer
<1>2. CASE Arrive \/ Hangup \/ CloseDescriptor \/ Recv \/ Interrupted
  <2>1. stage = "recv" /\ file' = file
    BY <1>2 DEF Arrive, Hangup, CloseDescriptor, Recv, Receive, EndOfFile, Timeout, StopReceiving,
       ReceiveError, Interrupted, FailReceiving
  <2>2. QED
    BY <2>1 DEF RecvInv, NoFileYet
<1>3. CASE Handle
  <2>1. /\ stage # "done" /\ stage' = "done"
        /\ message' = message /\ total_received' = total_received
        /\ file' = file \/ file' = FileFound
    BY <1>3 DEF Handle, BadRequest, AnswerAtOnce, AcceptUpload, RefuseUpload, Answer,
       socketVars, recvVars
  <2>2. file = NoFile
    BY <2>1 DEF FoundInv
  <2>3. QED
    BY <1>1, <2>1, <2>2
<1>4. CASE Done \/ UNCHANGED vars
  <2>1. /\ stage' = stage /\ file' = file
        /\ message' = message /\ total_received' = total_received
    BY <1>4 DEF Done, vars, socketVars, recvVars
  <2>2. QED
    BY <1>1, <2>1 DEF FoundInv
<1>5. QED
  BY <1>2, <1>3, <1>4 DEF Next

LEMMA FoundInvariant == Spec => []FoundInv
<1>1. Init => FoundInv
  BY DEF Init, FoundInv
<1> HIDE DEF RecvInv, FoundInv, Init, Next, vars
<1>2. QED
  BY <1>1, FoundStep, RecvInvariant, PTL DEF Spec

-----------------------------------------------------------------------------
(* The results. *)

\* What receive_complete_request and the handler keep of a request is of its type,
\* and never more than the buffer holds.
THEOREM RequestTypeCorrectness == Spec => []TypeOK
<1>1. RecvInv => TypeOK
  BY DEF RecvInv
<1>2. QED
  BY <1>1, RecvInvariant, PTL

\* However the bytes of a request arrive, one that tells its length is handed on
\* whole and refused by its size only, unless it is cut off: by its client, by
\* another thread that closes the descriptor, or by a signal.
THEOREM HonestRequestsAreWhole == Spec => []HonestRequestsArrive
<1>1. RecvInv => HonestRequestsArrive
  BY DEF RecvInv
<1>2. QED
  BY <1>1, RecvInvariant, PTL

\* parse_multipart_data gives a file that lies within the body of the request and
\* whose size fits the int of its priority, whatever the bytes are.
THEOREM FileLiesInRequest == Spec => []FileInRequest
<1>1. RecvInv => FileInRequest
  BY DEF RecvInv
<1>2. QED
  BY <1>1, RecvInvariant, PTL

\* However the bytes of an upload arrive, the file that is accepted from a whole
\* request is its image, byte for byte, if no byte of it is NUL.
THEOREM TextImagesAreIntact == Spec => []TextImageIntact
<1>1. RecvInv /\ FoundInv => TextImageIntact
  BY WholeFileLemma DEF FoundInv, TextImageIntact, FileBytes
<1> HIDE DEF RecvInv, FoundInv, TextImageIntact
<1>2. QED
  BY <1>1, RecvInvariant, FoundInvariant, PTL

\* Whatever bytes an image has, none is missing from the file that is accepted from
\* a whole request whose closing boundary is as long as the parser's margin.
THEOREM NoByteIsMissing == Spec => []NothingMissing
<1>1. RecvInv /\ FoundInv => NothingMissing
  BY WholeFileLemma DEF FoundInv, NothingMissing, FileBytes
<1> HIDE DEF RecvInv, FoundInv, NothingMissing
<1>2. QED
  BY <1>1, RecvInvariant, FoundInvariant, PTL
=============================================================================

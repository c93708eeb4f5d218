----------------------------- MODULE Multipart ------------------------------
(***************************************************************************)
(* parse_multipart_data of file_handler.c, with the C string functions it  *)
(* is built from, on sequences of bytes counted from 1.  A line of a       *)
(* header counts as one byte, with its end; CR, LF and the hyphens are     *)
(* themselves.                                                             *)
(***************************************************************************)
EXTENDS Integers, Sequences

CONSTANT MaxUploadSize  \* MAX_UPLOAD_SIZE

ASSUME MultipartAssumption == MaxUploadSize \in Nat

Margin == 10
SizeModulus == 1073741824  \* 2^30 stands for that of size_t, beyond any size

CRLF      == <<"CR", "LF">>
HeaderEnd == <<"CR", "LF", "CR", "LF">>

\* Where the bytes of what begin in s, from a given place on, before any NUL:
\* the string functions read no further than that.
Places(s, what, from) ==
  {i \in from .. Len(s) - Len(what) + 1 :
     /\ \A k \in DOMAIN what : s[i + k - 1] = what[k]
     /\ \A j \in from .. i : s[j] # "NUL"}

\* strstr: the first place, or 0.
Find(s, what, from) ==
  LET found == Places(s, what, from)
  IN  IF found = {} THEN 0 ELSE CHOOSE i \in found : \A j \in found : i <= j

FullBoundary(boundary)    == <<"-", "-">> \o boundary
ClosingBoundary(boundary) == FullBoundary(boundary) \o <<"-", "-">>

\* Mutant: one byte more is left out.
ClosingPlaceShort(data, boundary, start) ==
  LET closing == Find(data, ClosingBoundary(boundary), 1)
      next    == Find(data, FullBoundary(boundary),
                      start + Len(FullBoundary(boundary)))
  IN  IF closing # 0 THEN closing ELSE IF next # 0 THEN next
      ELSE Len(data) - Margin

\* Where the file is taken to end: the closing boundary, another boundary, or
\* the end of the data less a margin, which may lie before the data.
ClosingPlace(data, boundary, start) ==
  LET closing == Find(data, ClosingBoundary(boundary), 1)
      next    == Find(data, FullBoundary(boundary),
                      start + Len(FullBoundary(boundary)))
  IN  IF closing # 0 THEN closing ELSE IF next # 0 THEN next
      ELSE Len(data) - Margin + 1

\* The place after an optional CR and an optional LF.
AfterLineEnd(data, i) ==
  LET At(j, byte) == j \in DOMAIN data /\ data[j] = byte
      afterCR     == IF At(i, "CR") THEN i + 1 ELSE i
  IN  IF At(afterCR, "LF") THEN afterCR + 1 ELSE afterCR

\* Where the file begins, after the headers of the part, or 0.
FileStart(data, headers) ==
  LET crlf == Find(data, HeaderEnd, headers)
      lf   == Find(data, <<"LF", "LF">>, headers)
  IN  IF crlf # 0 THEN crlf + 4 ELSE IF lf # 0 THEN lf + 2 ELSE 0

\* Mutant: one line end only is taken away.
TrimmedOnce(data, first, end) ==
  IF end > first /\ data[end - 1] \in {"CR", "LF"} THEN end - 1 ELSE end

\* The end of the file without the line ends before it.
Trimmed(data, first, end) ==
  IF end <= first THEN end
  ELSE CHOOSE e \in first .. end :
         /\ \A i \in e .. end - 1 : data[i] \in {"CR", "LF"}
         /\ e = first \/ data[e - 1] \notin {"CR", "LF"}

NoFile == [first |-> 0, size |-> 0]

\* Mutant: the size is a signed number.
SignedSize(first, end) == end - first

\* file_size, which is unsigned.
FileSize(first, end) == (end - first) % SizeModulus

\* The file in some multipart data: where it begins and its size, or NoFile.
ParseMultipart(data, boundary) ==
  LET start   == Find(data, FullBoundary(boundary), 1)
      headers == AfterLineEnd(data, start + Len(FullBoundary(boundary)))
      first   == FileStart(data, headers)
      end     == Trimmed(data, first, ClosingPlace(data, boundary, start))
      size    == FileSize(first, end)
  IN  IF /\ start # 0 /\ first # 0
         /\ \E i \in headers .. first - 1 : data[i] \in {"file.png", "file.txt"}
         /\ size # 0 /\ size <= MaxUploadSize
      THEN [first |-> first, size |-> size]
      ELSE NoFile
=============================================================================

----------------------------- MODULE MCRequest ------------------------------
(* A small instance of Request for TLC: uploads with several images and      *)
(* boundaries, and the requests that are not uploads.                        *)
EXTENDS Request

Plain(method, path, lines) ==
  [bytes |-> <<method, path>> \o lines \o HeaderEnd, length |-> 0,
   boundary |-> <<>>, image |-> <<>>, tail |-> 0]

\* lines: the headers of the request; part: the lines of its part.
Upload(lines, part, image, boundary, end) ==
  LET body == FullBoundary(boundary) \o CRLF \o part \o HeaderEnd \o image
                \o CRLF \o ClosingBoundary(boundary) \o end
      head == <<"POST", "/upload">> \o lines \o HeaderEnd
  IN  [bytes |-> head \o body, length |-> Len(body), boundary |-> boundary,
       image |-> image, tail |-> Len(ClosingBoundary(boundary) \o end) + 2]

Lying(m, length) == [m EXCEPT !.length = length]

Usual     == <<"multipart", "length">>
ImagePart == <<"file.png", "octet-stream">>
Boundary  == <<"b", "b">>
Images    == {<<"x">>, <<"x", "NUL", "-", "x">>, <<"NUL", "x">>, <<"x", "LF", "x">>}

\* An image that holds the closing boundary, and one that ends in LF: their
\* requests are not well built.
OddImages == {<<"x">> \o ClosingBoundary(Boundary) \o <<"x">>, <<"x", "LF">>}

Messages ==
  {Plain("GET", "/upload", <<>>), Plain("GET", "/other", <<"length">>),
   Plain("PUT", "/upload", <<"length">>), Plain("HEAD", "/upload", <<>>)}
  \cup {Upload(Usual, ImagePart, i, Boundary, CRLF) : i \in Images \cup OddImages}
  \cup {Upload(Usual, ImagePart, <<"x", "NUL">>, b, <<>>) :
          b \in {<<"b">>, <<"b", "b", "b", "b">>}}
  \cup {Upload(Usual, ImagePart, <<"x", "NUL">>,
               <<"b", "b", "b", "b", "b", "b">>, CRLF)}
  \cup {Upload(l, ImagePart, <<"x">>, <<"b">>, CRLF) :
          l \in {<<"lower-multipart", "length">>, <<"octet-stream", "length">>}}
  \cup {Upload(<<"multipart">>, <<"file.png", "length">>, <<"x">>, <<"b">>, CRLF),
        Upload(Usual, <<"file.txt">>, <<"x">>, <<"b">>, CRLF),
        Upload(Usual, <<"field">>, <<"x">>, <<"b">>, CRLF),
        Upload(Usual, ImagePart, <<"NUL", "NUL", "NUL", "NUL", "NUL", "NUL", "x">>,
               <<"b">>, <<>>)}
  \cup {Plain("POST", "/upload", <<"length">> \o [i \in 1 .. 44 |-> "field"]),
        Upload(Usual, ImagePart, [i \in 1 .. 20 |-> "x"], <<"b">>, CRLF)}
  \cup {Lying(Upload(Usual, ImagePart, <<"x", "NUL">>, <<"b", "b">>, CRLF), n) :
          n \in {1, 12, 24, 90}}
=============================================================================

------------------------- MODULE MCImageProcessing --------------------------
(* A small instance of ImageProcessing for TLC: four levels, and an int in    *)
(* which three pixels are too many.                                           *)
EXTENDS ImageProcessing

Samples == 0 .. MaxLevel

\* Of these levels, the colours at which IEEE doubles fall short.
ShortSums == {<<1, 1, 1>>, <<2, 2, 2>>}

\* Grey images of one to three pixels, colour images of one pixel, and pairs of
\* telling pixels; with alpha too.
Picture(channels, lengths, pixels) ==
  UNION {[channels : {channels}, data : [1 .. n -> pixels]] : n \in lengths}

ColorPixels == {<<3, 0, 0>>, <<0, 3, 1>>, <<0, 0, 3>>, <<3, 1, 1>>, <<2, 2, 2>>,
                <<1, 1, 0>>, <<0, 2, 3>>}

Images ==
  Picture(1, 1 .. 3, [1 .. 1 -> Samples])
    \cup Picture(3, {1}, [1 .. 3 -> Samples])
    \cup Picture(3, {2}, ColorPixels)
    \cup Picture(2, {2}, {<<1, 0>>, <<2, 3>>, <<2, 1>>})
    \cup Picture(4, {2}, {<<3, 1, 0, 2>>, <<1, 0, 3, 0>>, <<3, 1, 1, 1>>})

Names == [base : {"photo"}, ext : {".png", ".PNG", ".jpg"}]
=============================================================================

--------------------------- MODULE ImageProcessing --------------------------
(***************************************************************************)
(* process_image_complete of image_processor.c, run by the processor       *)
(* thread for one upload after the other: classification by colour,        *)
(* histogram equalisation, and the output files.                           *)
(*                                                                         *)
(* Samples have MaxLevel + 1 levels instead of 256 and an int holds        *)
(* -(IntMax + 1) .. IntMax, so that an image of a few pixels is as large   *)
(* to the arithmetic as one of millions is to 32 bits.                     *)
(***************************************************************************)
EXTENDS Integers, Sequences, FiniteSets, FiniteSetsExt

CONSTANTS
  MaxLevel,    \* 255
  Contrast,    \* 20, what the predominant colour must exceed
  IntMax,      \* 2^31 - 1
  RoundsDown,  \* colours whose weighted sum in doubles falls just short
  Image,       \* decoded images: [channels, data], a sequence of pixels
  Name,        \* original file names: [base, ext]
  MaxUploads,  \* bound on the uploads of a behaviour
  NoImage, NoFile

ASSUME ImageAssumption ==
  /\ MaxLevel \in Nat \ {0} /\ Contrast \in Nat /\ IntMax \in Nat
  /\ MaxUploads \in Nat
  /\ NoFile \notin [job : Nat, encoding : {"PNG", "JPG"}]

VARIABLES
  stage,     \* where process_image_complete is
  job,       \* number of uploads taken from the queue
  name,      \* original_filename of the current one
  original,  \* history: the image as it was decoded
  image,     \* image_data
  color,     \* predominant_color
  disk,      \* the output files, by directory and original name
  result     \* what process_image_complete returned for each upload

vars == <<stage, job, name, original, image, color, disk, result>>

Level     == 0 .. MaxLevel
ColorDirs == {"red", "green", "blue"}
Dir       == ColorDirs \cup {"processed"}

\* What stbi_load decodes: one pixel at least, of one to four samples.
ASSUME DecodedAssumption ==
  \A img \in Image : \E n \in 1 .. 4 :
    img \in [channels : {n}, data : Seq([1 .. n -> Level]) \ {<<>>}]

\* The weighted sum of a colour, in thousandths.  In doubles it falls just short
\* of a whole level for some of the colours that have one.
WeightedSum(c) == 299 * c[1] + 587 * c[2] + 114 * c[3]

ASSUME RoundingAssumption ==
  RoundsDown \subseteq {c \in [1 .. 3 -> Level] :
                          WeightedSum(c) >= 1000 /\ WeightedSum(c) % 1000 = 0}

-----------------------------------------------------------------------------
(* The histogram and its equalisation. *)

Pixels(img) == DOMAIN img.data
Total(img)  == Len(img.data)

\* calculate_histogram's level of a pixel: the weighted sum of its colours,
\* truncated, or its grey.
Luminance(img, i) ==
  LET p   == img.data[i]
      c   == <<p[1], p[2], p[3]>>
      lum == WeightedSum(c) \div 1000
  IN  IF img.channels < 3 THEN p[1]
      ELSE IF c \in RoundsDown THEN lum - 1 ELSE lum

Histogram(img) ==
  [l \in Level |-> Cardinality({i \in Pixels(img) : Luminance(img, i) = l})]

\* Mutant: each entry adds the entry before it of the histogram only.
CumulativeOfTwo(hist) ==
  [l \in Level |-> IF l = 0 THEN hist[0] ELSE hist[l - 1] + hist[l]]

Cumulative(hist) ==
  LET sum[l \in Level] == IF l = 0 THEN hist[0] ELSE sum[l - 1] + hist[l]
  IN  sum

\* What an int keeps of a number (the multiplication wraps around), and C's
\* division, which truncates towards zero.
Wrapped(x)     == ((x + IntMax + 1) % (2 * (IntMax + 1))) - (IntMax + 1)
Quotient(x, y) == IF x >= 0 THEN x \div y ELSE -((-x) \div y)

\* The table, cast to unsigned char.
LookupTable(img) ==
  LET cumulative == Cumulative(Histogram(img))
  IN  [l \in Level |->
         Quotient(Wrapped(cumulative[l] * MaxLevel), Total(img)) % (MaxLevel + 1)]

\* The samples of a pixel that are equalised: not the alpha channel.
Equalizable(channels) == IF channels >= 3 THEN 1 .. 3 ELSE {1}

\* The image with every equalisable sample replaced by its entry in a table.
Mapped(img, table) ==
  [img EXCEPT !.data =
     [i \in Pixels(img) |->
        [c \in 1 .. img.channels |->
           IF c \in Equalizable(img.channels)
             THEN table[img.data[i][c]] ELSE img.data[i][c]]]]

Equalized(img) == Mapped(img, LookupTable(img))

\* get_predominant_color.
Average(img, c) == MapThenSumSet(LAMBDA i : img.data[i][c], Pixels(img)) \div Total(img)

Predominant(img, c) ==
  \A d \in 1 .. 3 \ {c} : Average(img, c) - Average(img, d) > Contrast

PredominantColor(img) ==
  IF img.channels < 3 THEN "undefined"
  ELSE IF Predominant(img, 1) THEN "red"
  ELSE IF Predominant(img, 2) THEN "green"
  ELSE IF Predominant(img, 3) THEN "blue"
  ELSE "undefined"

-----------------------------------------------------------------------------
Init ==
  /\ stage = "idle"
  /\ job = 0
  /\ name \in Name
  /\ original = NoImage /\ image = NoImage
  /\ color = "undefined"
  /\ disk = [dir \in Dir |-> [n \in Name |-> NoFile]]
  /\ result = <<>>

\* stbi_image_free and the return to file_processor_thread.
Return(success) ==
  /\ stage' = "idle"
  /\ result' = Append(result, [name |-> name, success |-> success])
  /\ original' = NoImage /\ image' = NoImage
  /\ color' = "undefined"

\* The next item of the queue and stbi_load of its temporary file ...
Load ==
  /\ stage = "idle" /\ job < MaxUploads
  /\ job' = job + 1
  /\ name' \in Name
  /\ \E img \in Image : original' = img /\ image' = img
  /\ stage' = "classify"
  /\ UNCHANGED <<color, disk, result>>

\* ... which fails if the file is gone, or out of memory.
LoadFails ==
  /\ stage = "idle" /\ job < MaxUploads
  /\ job' = job + 1
  /\ name' \in Name
  /\ result' = Append(result, [name |-> name', success |-> FALSE])
  /\ UNCHANGED <<stage, original, image, color, disk>>

Classify ==
  /\ stage = "classify"
  /\ color' = PredominantColor(image)
  /\ stage' = "equalize"
  /\ UNCHANGED <<job, name, original, image, disk, result>>

Equalize ==
  /\ stage = "equalize"
  /\ image' = Equalized(image)
  /\ stage' = "save"
  /\ UNCHANGED <<job, name, original, color, disk, result>>

\* PNG for the extensions .png and .PNG, JPG for all others.
Encoding(n) == IF n.ext \in {".png", ".PNG"} THEN "PNG" ELSE "JPG"

\* stbi_write_png and stbi_write_jpg replace the file if they can open it.  The
\* name is the original one with a suffix that goes with the directory.
Write(dir) ==
  disk' = [disk EXCEPT ![dir][name] = [job |-> job, encoding |-> Encoding(name)]]

\* Mutant: a copy whatever the colour is.
SaveEqualizedThenCopy ==
  /\ stage = "save"
  /\ Write("processed")
  /\ stage' = "copy"
  /\ UNCHANGED <<job, name, original, image, color, result>>

\* Saving the equalised image, and the end if there is no colour.
SaveEqualized ==
  /\ stage = "save"
  /\ Write("processed")
  /\ IF color = "undefined"
       THEN Return(TRUE)
       ELSE stage' = "copy" /\ UNCHANGED <<original, image, color, result>>
  /\ UNCHANGED <<job, name>>

\* Mutant: the result of saving is not looked at.
SaveFailsUnnoticed ==
  /\ stage = "save"
  /\ Return(TRUE)
  /\ UNCHANGED <<job, name, disk>>

SaveFails ==
  /\ stage = "save"
  /\ Return(FALSE)
  /\ UNCHANGED <<job, name, disk>>

\* The copy in the directory of the colour; its failure is only logged.
SaveClassified ==
  /\ stage = "copy"
  /\ Write(color)
  /\ Return(TRUE)
  /\ UNCHANGED <<job, name>>

CopyFails ==
  /\ stage = "copy"
  /\ Return(TRUE)
  /\ UNCHANGED <<job, name, disk>>

Next ==
  \/ Load \/ LoadFails \/ Classify \/ Equalize
  \/ SaveEqualized \/ SaveFails \/ SaveClassified \/ CopyFails

Spec == Init /\ [][Next]_vars

-----------------------------------------------------------------------------
\* The type of every variable but the image, whose samples are bytes.
TypeOK ==
  /\ stage \in {"idle", "classify", "equalize", "save", "copy"}
  /\ job \in 0 .. MaxUploads
  /\ name \in Name
  /\ color \in ColorDirs \cup {"undefined"}
  /\ disk \in [Dir -> [Name -> [job : 1 .. MaxUploads, encoding : {"PNG", "JPG"}]
                                \cup {NoFile}]]
  /\ result \in Seq([name : Name, success : BOOLEAN])
  /\ stage = "copy" => color # "undefined"
  /\ Len(result) = IF stage = "idle" THEN job ELSE job - 1

\* The definition of histogram equalisation: a sample goes to the share of the
\* pixels that are not brighter than it.
Formula(img) ==
  Mapped(img, [l \in Level |->
    (Cardinality({i \in Pixels(img) : Luminance(img, i) <= l}) * MaxLevel)
      \div Total(img)])

\* What is saved goes by the image as uploaded, although equalisation changes it
\* in place: the samples are the equalised ones, alpha untouched, by the formula
\* of image_processor.c:86, as long as an int holds MaxLevel times its pixels;
\* the directory is that of the colour before equalisation.
SavedFromOriginal ==
  stage \in {"save", "copy"} =>
    /\ Total(original) * MaxLevel <= IntMax => image = Formula(original)
    /\ color = PredominantColor(original)

\* A success left its image in processed/, where only a later upload of the same
\* name can have replaced it.
SuccessesHaveFiles ==
  \A j \in DOMAIN result :
    result[j].success =>
      /\ disk["processed"][result[j].name] # NoFile
      /\ disk["processed"][result[j].name].job >= j

\* A failure left nothing: a file is that of a success, or of the upload that is
\* about to be copied.
FilesHaveSuccesses ==
  \A d \in Dir, n \in Name :
    disk[d][n] # NoFile =>
      \/ /\ disk[d][n].job \in DOMAIN result
         /\ result[disk[d][n].job] = [name |-> n, success |-> TRUE]
      \/ disk[d][n].job = Len(result) + 1 /\ n = name /\ d = "processed"

\* A copy by colour is never newer than the equalised image.
CopiesHaveImages ==
  \A d \in Dir, n \in Name :
    disk[d][n] # NoFile =>
      disk["processed"][n] # NoFile /\ disk[d][n].job <= disk["processed"][n].job

\* An upload has at most one copy by colour.
OneColor ==
  \A d, e \in ColorDirs, n \in Name :
    d # e /\ disk[d][n] # NoFile /\ disk[e][n] # NoFile =>
      disk[d][n].job # disk[e][n].job

\* What process_image_complete has reported and what is on the disk agree.
OutputsMatchResults ==
  SuccessesHaveFiles /\ FilesHaveSuccesses /\ CopiesHaveImages /\ OneColor
=============================================================================

------------------------ MODULE ImageProcessingProofs ------------------------
(***************************************************************************)
(* The output files of ImageProcessing and what they are made from, for    *)
(* any images, names, levels and number of uploads.                        *)
(***************************************************************************)
EXTENDS EqualizationProofs

\* Only an upload that is about to be copied has a file before its result.
CopyInv ==
  /\ stage = "copy" =>
       /\ disk["processed"][name] # NoFile
       /\ disk["processed"][name].job = job
  /\ stage # "copy" =>
       \A d \in Dir, n \in Name :
         disk[d][n] # NoFile => disk[d][n].job \in DOMAIN result

OutputInv == TypeOK /\ OutputsMatchResults /\ CopyInv

Output == [job : 1 .. MaxUploads, encoding : {"PNG", "JPG"}]

-----------------------------------------------------------------------------
LEMMA ElementLemma ==
  ASSUME NEW S, NEW s \in Seq(S), NEW j \in DOMAIN s
  PROVE  s[j] \in S
  OBVIOUS

\* A new result is the last one.
LEMMA ResultLemma ==
  ASSUME TypeOK, NEW n \in Name, NEW success \in BOOLEAN,
         result' = Append(result, [name |-> n, success |-> success])
  PROVE  /\ result' \in Seq([name : Name, success : BOOLEAN])
         /\ Len(result) \in Nat /\ DOMAIN result = 1 .. Len(result)
         /\ Len(result') = Len(result) + 1
         /\ DOMAIN result' = 1 .. Len(result) + 1
         /\ \A j \in DOMAIN result : result'[j] = result[j]
         /\ result'[Len(result) + 1] = [name |-> n, success |-> success]
<1>1. result \in Seq([name : Name, success : BOOLEAN])
  BY DEF TypeOK
<1>2. [name |-> n, success |-> success] \in [name : Name, success : BOOLEAN]
  OBVIOUS
<1>3. QED
  BY <1>1, <1>2

\* Saving replaces one file.
LEMMA WriteLemma ==
  ASSUME TypeOK, NEW dir \in Dir, Write(dir), job \in 1 .. MaxUploads
  PROVE  /\ disk' \in [Dir -> [Name -> Output \cup {NoFile}]]
         /\ disk'[dir][name] # NoFile /\ disk'[dir][name].job = job
         /\ \A d \in Dir, n \in Name :
              d # dir \/ n # name => disk'[d][n] = disk[d][n]
<1>1. Encoding(name) \in {"PNG", "JPG"}
  BY DEF Encoding
<1> DEFINE new == [job |-> job, encoding |-> Encoding(name)]
<1>2. new \in Output
  BY <1>1 DEF Output
<1>3. new \in [job : Nat, encoding : {"PNG", "JPG"}]
  BY <1>1, ImageAssumption
<1>4. new # NoFile /\ new.job = job
  BY <1>3, ImageAssumption
<1> HIDE DEF new
<1>5. /\ disk \in [Dir -> [Name -> Output \cup {NoFile}]] /\ name \in Name
      /\ disk' = [disk EXCEPT ![dir][name] = new]
  BY DEF TypeOK, Output, Write, new
<1>6. QED
  BY <1>2, <1>4, <1>5

\* The number of the upload while it is processed.
LEMMA JobLemma ==
  ASSUME TypeOK
  PROVE  /\ job \in Nat /\ DOMAIN result = 1 .. Len(result) /\ Len(result) \in Nat
         /\ stage = "idle" => Len(result) = job
         /\ stage # "idle" => job \in 1 .. MaxUploads /\ job = Len(result) + 1
<1>1. Len(result) \in Nat /\ DOMAIN result = 1 .. Len(result)
  BY DEF TypeOK
<1>2. QED
  BY <1>1, ImageAssumption DEF TypeOK

\* The image of this upload is in processed/ and so are those of the others.
LEMMA SuccessesLemma ==
  ASSUME OutputInv, stage \in {"save", "copy"},
         disk'["processed"][name] # NoFile, disk'["processed"][name].job = job,
         \A n \in Name \ {name} : disk'["processed"][n] = disk["processed"][n],
         \A j \in DOMAIN result' :
           \/ j \in DOMAIN result /\ result'[j] = result[j]
           \/ j = job /\ result'[j].name = name
  PROVE  SuccessesHaveFiles'
<1> SUFFICES ASSUME NEW j \in DOMAIN result', result'[j].success
             PROVE  /\ disk'["processed"][result'[j].name] # NoFile
                    /\ disk'["processed"][result'[j].name].job >= j
  BY DEF SuccessesHaveFiles
<1>1. job \in Nat /\ DOMAIN result = 1 .. job - 1
  BY JobLemma DEF OutputInv
<1>2. CASE j = job /\ result'[j].name = name
  BY <1>1, <1>2
<1>3. CASE j \in DOMAIN result /\ result'[j] = result[j]
  <2>1. result[j].name \in Name
    <3>1. result \in Seq([name : Name, success : BOOLEAN])
      BY DEF OutputInv, TypeOK
    <3>2. result[j] \in [name : Name, success : BOOLEAN]
      BY <1>3, <3>1, ElementLemma
    <3>3. QED
      BY <3>2
  <2>2. CASE result[j].name = name
    BY <1>1, <1>3, <2>2
  <2>3. CASE result[j].name # name
    <3>1. disk'["processed"][result[j].name] = disk["processed"][result[j].name]
      BY <2>1, <2>3
    <3>2. /\ disk["processed"][result[j].name] # NoFile
          /\ disk["processed"][result[j].name].job >= j
      BY <1>3 DEF OutputInv, OutputsMatchResults, SuccessesHaveFiles
    <3>3. QED
      BY <1>3, <3>1, <3>2
  <2>4. QED
    BY <2>2, <2>3
<1>4. QED
  BY <1>2, <1>3

-----------------------------------------------------------------------------
\* The next upload, or one that cannot be loaded.
LEMMA LoadKeepsOutputInv ==
  ASSUME OutputInv, Load \/ LoadFails
  PROVE  OutputInv'
<1>1. /\ stage = "idle" /\ job < MaxUploads /\ job' = job + 1 /\ name' \in Name
      /\ color' = color /\ disk' = disk
  BY DEF Load, LoadFails
<1>2. /\ job \in Nat /\ DOMAIN result = 1 .. Len(result) /\ Len(result) = job
      /\ job' \in 0 .. MaxUploads
  BY <1>1, JobLemma, ImageAssumption DEF OutputInv
<1>3. \A d \in Dir, n \in Name : disk[d][n] # NoFile => disk[d][n].job \in 1 .. job
  BY <1>1, <1>2 DEF OutputInv, CopyInv
<1>4. CASE Load
  <2>1. result' = result /\ stage' = "classify"
    BY <1>4 DEF Load
  <2>2. TypeOK'
    BY <1>1, <1>2, <2>1 DEF OutputInv, TypeOK
  <2>3. OutputsMatchResults'
    BY <1>1, <1>2, <1>3, <2>1
       DEF OutputInv, OutputsMatchResults, SuccessesHaveFiles, FilesHaveSuccesses,
           CopiesHaveImages, OneColor
  <2>4. CopyInv'
    BY <1>1, <1>2, <1>3, <2>1 DEF CopyInv
  <2>5. QED
    BY <2>2, <2>3, <2>4 DEF OutputInv
<1>5. CASE LoadFails
  <2>1. /\ result' = Append(result, [name |-> name', success |-> FALSE])
        /\ stage' = stage
    BY <1>5 DEF LoadFails
  <2>2. /\ result' \in Seq([name : Name, success : BOOLEAN])
        /\ Len(result') = job + 1
        /\ DOMAIN result' = 1 .. job + 1
        /\ \A j \in DOMAIN result : result'[j] = result[j]
        /\ result'[job + 1] = [name |-> name', success |-> FALSE]
    BY <1>1, <1>2, <2>1, ResultLemma DEF OutputInv
  <2>3. TypeOK'
    BY <1>1, <1>2, <2>1, <2>2 DEF OutputInv, TypeOK
  <2>4. OutputsMatchResults'
    BY <1>1, <1>2, <1>3, <2>2
       DEF OutputInv, OutputsMatchResults, SuccessesHaveFiles, FilesHaveSuccesses,
           CopiesHaveImages, OneColor
  <2>5. CopyInv'
    BY <1>1, <1>2, <1>3, <2>1, <2>2 DEF CopyInv
  <2>6. QED
    BY <2>3, <2>4, <2>5 DEF OutputInv
<1>6. QED
  BY <1>4, <1>5

LEMMA ColorLemma == PredominantColor(image) \in ColorDirs \cup {"undefined"}
  BY DEF PredominantColor, ColorDirs

\* The steps in memory.
LEMMA MemoryKeepsOutputInv ==
  ASSUME OutputInv, Classify \/ Equalize
  PROVE  OutputInv'
<1>1. /\ stage \in {"classify", "equalize"} /\ stage' \in {"equalize", "save"}
      /\ color' \in ColorDirs \cup {"undefined"}
      /\ UNCHANGED <<job, name, disk, result>>
  BY ColorLemma DEF Classify, Equalize, OutputInv, TypeOK
<1>2. TypeOK'
  BY <1>1 DEF OutputInv, TypeOK
<1>3. OutputsMatchResults'
  BY <1>1
     DEF OutputInv, OutputsMatchResults, SuccessesHaveFiles, FilesHaveSuccesses,
         CopiesHaveImages, OneColor
<1>4. CopyInv'
  BY <1>1 DEF OutputInv, CopyInv
<1>5. QED
  BY <1>2, <1>3, <1>4 DEF OutputInv

\* Saving the equalised image: the file of its name is this upload's now.
LEMMA SaveKeepsOutputInv ==
  ASSUME OutputInv, SaveEqualized
  PROVE  OutputInv'
<1>1. /\ stage = "save" /\ Write("processed") /\ UNCHANGED <<job, name>>
      /\ "processed" \in Dir /\ "processed" \notin ColorDirs
  BY DEF SaveEqualized, Dir, ColorDirs
<1>2. /\ job \in 1 .. MaxUploads /\ DOMAIN result = 1 .. Len(result)
      /\ Len(result) \in Nat /\ job = Len(result) + 1
  BY <1>1, JobLemma DEF OutputInv
<1>3. /\ disk' \in [Dir -> [Name -> Output \cup {NoFile}]]
      /\ disk'["processed"][name] # NoFile /\ disk'["processed"][name].job = job
      /\ \A d \in Dir, n \in Name :
           d # "processed" \/ n # name => disk'[d][n] = disk[d][n]
  BY <1>1, <1>2, WriteLemma DEF OutputInv
<1>4. \A d \in Dir, n \in Name :
        disk[d][n] # NoFile => disk[d][n].job \in DOMAIN result
  BY <1>1 DEF OutputInv, CopyInv
<1>5. \A d \in Dir, n \in Name : disk'[d][n] # NoFile =>
        \/ d = "processed" /\ n = name /\ disk'[d][n].job = job
        \/ disk'[d][n] = disk[d][n]
  BY <1>3
<1>6. CopiesHaveImages'
  <2> SUFFICES ASSUME NEW d \in Dir, NEW n \in Name, disk'[d][n] # NoFile
               PROVE  /\ disk'["processed"][n] # NoFile
                      /\ disk'[d][n].job <= disk'["processed"][n].job
    BY DEF CopiesHaveImages
  <2>1. CASE n # name
    BY <1>1, <1>3, <2>1 DEF OutputInv, OutputsMatchResults, CopiesHaveImages
  <2>2. CASE n = name /\ disk'[d][n] = disk[d][n]
    <3>1. disk'[d][n].job \in DOMAIN result
      BY <1>4, <2>2
    <3>2. disk'[d][n].job <= job
      BY <1>2, <3>1
    <3>3. QED
      BY <1>3, <2>2, <3>2
  <2>3. CASE n = name /\ disk'[d][n].job = job
    BY <1>2, <1>3, <2>3
  <2>4. QED
    BY <1>5, <2>1, <2>2, <2>3
<1>7. OneColor'
  <2>1. \A d \in ColorDirs, n \in Name : disk'[d][n] = disk[d][n]
    BY <1>1, <1>3 DEF Dir
  <2>2. QED
    BY <2>1 DEF OutputInv, OutputsMatchResults, OneColor
<1>8. \A d \in Dir, n \in Name : disk[d][n] # NoFile =>
        /\ disk[d][n].job \in DOMAIN result
        /\ result[disk[d][n].job] = [name |-> n, success |-> TRUE]
  <2>1. job \notin DOMAIN result
    BY <1>2
  <2>2. QED
    BY <1>2, <1>4, <2>1 DEF OutputInv, OutputsMatchResults, FilesHaveSuccesses
<1>9. CASE color = "undefined"
  <2>1. /\ stage' = "idle" /\ color' = "undefined"
        /\ result' = Append(result, [name |-> name, success |-> TRUE])
    BY <1>9 DEF SaveEqualized, Return
  <2>2. name \in Name
    BY DEF OutputInv, TypeOK
  <2>3. /\ result' \in Seq([name : Name, success : BOOLEAN])
        /\ Len(result') = job
        /\ DOMAIN result' = 1 .. job
        /\ \A j \in DOMAIN result : result'[j] = result[j]
        /\ result'[job] = [name |-> name, success |-> TRUE]
    BY <1>2, <2>1, <2>2, ResultLemma DEF OutputInv
  <2>4. TypeOK'
    BY <1>1, <1>3, <2>1, <2>3 DEF OutputInv, TypeOK, Output
  <2>5. DOMAIN result' = DOMAIN result \cup {job}
    BY <1>2, <2>3
  <2>6. /\ \A j \in DOMAIN result : j \in DOMAIN result' /\ result'[j] = result[j]
        /\ result'[job] = [name |-> name, success |-> TRUE]
        /\ job \in DOMAIN result'
    BY <2>3, <2>5
  <2>7. SuccessesHaveFiles'
    <3>1. \A j \in DOMAIN result' :
            \/ j \in DOMAIN result /\ result'[j] = result[j]
            \/ j = job /\ result'[j].name = name
      BY <2>5, <2>6
    <3>2. \A n \in Name \ {name} : disk'["processed"][n] = disk["processed"][n]
      BY <1>1, <1>3
    <3>3. QED
      BY <1>1, <1>3, <3>1, <3>2, SuccessesLemma
  <2>8. FilesHaveSuccesses'
    <3> SUFFICES ASSUME NEW d \in Dir, NEW n \in Name, disk'[d][n] # NoFile
                 PROVE  /\ disk'[d][n].job \in DOMAIN result'
                        /\ result'[disk'[d][n].job] = [name |-> n, success |-> TRUE]
      BY DEF FilesHaveSuccesses
    <3>1. CASE disk'[d][n].job = job /\ n = name
      BY <2>6, <3>1
    <3>2. CASE disk'[d][n] = disk[d][n]
      BY <1>8, <2>6, <3>2
    <3>3. QED
      BY <1>5, <3>1, <3>2
  <2>9. CopyInv'
    BY <1>4, <1>5, <2>1, <2>6 DEF CopyInv
  <2>10. QED
    BY <1>6, <1>7, <2>4, <2>7, <2>8, <2>9 DEF OutputInv, OutputsMatchResults
<1>10. CASE color # "undefined"
  <2>1. stage' = "copy" /\ UNCHANGED <<color, result>>
    BY <1>10 DEF SaveEqualized
  <2>2. TypeOK'
    BY <1>1, <1>2, <1>3, <1>10, <2>1 DEF OutputInv, TypeOK, Output
  <2>3. SuccessesHaveFiles'
    BY <1>1, <1>3, <2>1, SuccessesLemma
  <2>4. FilesHaveSuccesses'
    BY <1>1, <1>2, <1>5, <1>8, <2>1 DEF FilesHaveSuccesses
  <2>5. CopyInv'
    BY <1>1, <1>3, <2>1 DEF CopyInv
  <2>6. QED
    BY <1>6, <1>7, <2>2, <2>3, <2>4, <2>5 DEF OutputInv, OutputsMatchResults
<1>11. QED
  BY <1>9, <1>10

\* A failed save leaves no file.
LEMMA FailureKeepsOutputInv ==
  ASSUME OutputInv, SaveFails
  PROVE  OutputInv'
<1>1. /\ stage = "save" /\ UNCHANGED <<job, name, disk>>
      /\ stage' = "idle" /\ color' = "undefined"
      /\ result' = Append(result, [name |-> name, success |-> FALSE])
      /\ name \in Name
  BY DEF SaveFails, Return, OutputInv, TypeOK
<1>2. /\ job \in 1 .. MaxUploads /\ DOMAIN result = 1 .. Len(result)
      /\ Len(result) \in Nat /\ job = Len(result) + 1
  BY <1>1, JobLemma DEF OutputInv
<1>3. /\ result' \in Seq([name : Name, success : BOOLEAN])
      /\ Len(result') = job
      /\ DOMAIN result' = 1 .. job
      /\ \A j \in DOMAIN result : result'[j] = result[j]
      /\ result'[job] = [name |-> name, success |-> FALSE]
  BY <1>1, <1>2, ResultLemma DEF OutputInv
<1>4. \A d \in Dir, n \in Name :
        disk[d][n] # NoFile => disk[d][n].job \in DOMAIN result
  BY <1>1 DEF OutputInv, CopyInv
<1>5. TypeOK'
  BY <1>1, <1>3 DEF OutputInv, TypeOK
<1>6. OutputsMatchResults'
  BY <1>1, <1>2, <1>3, <1>4
     DEF OutputInv, OutputsMatchResults, SuccessesHaveFiles, FilesHaveSuccesses,
         CopiesHaveImages, OneColor
<1>7. CopyInv'
  BY <1>1, <1>2, <1>3, <1>4 DEF CopyInv
<1>8. QED
  BY <1>5, <1>6, <1>7 DEF OutputInv

\* The copy by colour, written or not: the equalised image is there already.
LEMMA CopyKeepsOutputInv ==
  ASSUME OutputInv, SaveClassified \/ CopyFails
  PROVE  OutputInv'
<1>1. /\ stage = "copy" /\ UNCHANGED <<job, name>>
      /\ stage' = "idle" /\ color' = "undefined"
      /\ result' = Append(result, [name |-> name, success |-> TRUE])
      /\ name \in Name /\ color \in ColorDirs
  BY DEF SaveClassified, CopyFails, Return, OutputInv, TypeOK
<1>2. /\ job \in 1 .. MaxUploads /\ DOMAIN result = 1 .. Len(result)
      /\ Len(result) \in Nat /\ job = Len(result) + 1
  BY <1>1, JobLemma DEF OutputInv
<1>3. /\ result' \in Seq([name : Name, success : BOOLEAN])
      /\ Len(result') = job
      /\ DOMAIN result' = 1 .. job
      /\ \A j \in DOMAIN result : result'[j] = result[j]
      /\ result'[job] = [name |-> name, success |-> TRUE]
  BY <1>1, <1>2, ResultLemma DEF OutputInv
<1>4. disk["processed"][name] # NoFile /\ disk["processed"][name].job = job
  BY <1>1 DEF OutputInv, CopyInv
<1>5. /\ disk' \in [Dir -> [Name -> Output \cup {NoFile}]]
      /\ \/ disk' = disk
         \/ disk'[color][name] # NoFile /\ disk'[color][name].job = job
      /\ \A d \in Dir, n \in Name :
           d # color \/ n # name => disk'[d][n] = disk[d][n]
  <2>1. color \in Dir
    BY <1>1 DEF Dir
  <2>2. CASE Write(color)
    BY <1>2, <2>1, <2>2, WriteLemma DEF OutputInv
  <2>3. CASE disk' = disk
    BY <2>3 DEF OutputInv, TypeOK, Output
  <2>4. QED
    BY <2>2, <2>3 DEF SaveClassified, CopyFails
<1>6. "processed" \in Dir /\ color # "processed" /\ color \in Dir
  BY <1>1 DEF Dir, ColorDirs
<1>7. TypeOK'
  BY <1>1, <1>3, <1>5 DEF OutputInv, TypeOK, Output
<1>8. \A d \in Dir, n \in Name : disk[d][n] # NoFile =>
        \/ /\ disk[d][n].job \in DOMAIN result
           /\ result[disk[d][n].job] = [name |-> n, success |-> TRUE]
        \/ disk[d][n].job = job /\ n = name /\ d = "processed"
  BY <1>2 DEF OutputInv, OutputsMatchResults, FilesHaveSuccesses
<1>9. OutputsMatchResults'
  <2>1. \A n \in Name : disk'["processed"][n] = disk["processed"][n]
    BY <1>5, <1>6
  <2>2. SuccessesHaveFiles'
    <3>1. /\ disk'["processed"][name] # NoFile /\ disk'["processed"][name].job = job
          /\ \A n \in Name \ {name} : disk'["processed"][n] = disk["processed"][n]
      BY <1>1, <1>4, <2>1
    <3>2. \A j \in DOMAIN result' :
            \/ j \in DOMAIN result /\ result'[j] = result[j]
            \/ j = job /\ result'[j].name = name
      BY <1>2, <1>3
    <3>3. QED
      BY <1>1, <3>1, <3>2, SuccessesLemma
  <2>3. FilesHaveSuccesses'
    <3> SUFFICES ASSUME NEW d \in Dir, NEW n \in Name, disk'[d][n] # NoFile
                 PROVE  /\ disk'[d][n].job \in DOMAIN result'
                        /\ result'[disk'[d][n].job] = [name |-> n, success |-> TRUE]
      BY DEF FilesHaveSuccesses
    <3>1. CASE disk'[d][n] = disk[d][n]
      <4>1. job \in DOMAIN result' /\ DOMAIN result \subseteq DOMAIN result'
        BY <1>2, <1>3
      <4>2. CASE disk[d][n].job = job /\ n = name
        BY <1>3, <3>1, <4>1, <4>2
      <4>3. CASE /\ disk[d][n].job \in DOMAIN result
                 /\ result[disk[d][n].job] = [name |-> n, success |-> TRUE]
        BY <1>3, <3>1, <4>1, <4>3
      <4>4. QED
        BY <1>8, <3>1, <4>2, <4>3
    <3>2. CASE d = color /\ n = name /\ disk'[d][n].job = job
      BY <1>2, <1>3, <3>2
    <3>3. QED
      BY <1>5, <3>1, <3>2
  <2>4. CopiesHaveImages'
    <3> SUFFICES ASSUME NEW d \in Dir, NEW n \in Name, disk'[d][n] # NoFile
                 PROVE  /\ disk'["processed"][n] # NoFile
                        /\ disk'[d][n].job <= disk'["processed"][n].job
      BY DEF CopiesHaveImages
    <3>1. CASE disk'[d][n] = disk[d][n]
      BY <2>1, <3>1 DEF OutputInv, OutputsMatchResults, CopiesHaveImages
    <3>2. CASE d = color /\ n = name /\ disk'[d][n].job = job
      BY <1>2, <1>4, <2>1, <3>2
    <3>3. QED
      BY <1>5, <3>1, <3>2
  <2>5. OneColor'
    <3> SUFFICES ASSUME NEW d \in ColorDirs, NEW e \in ColorDirs, NEW n \in Name,
                        d # e, disk'[d][n] # NoFile, disk'[e][n] # NoFile
                 PROVE  disk'[d][n].job # disk'[e][n].job
      BY DEF OneColor
    <3>1. d \in Dir /\ e \in Dir /\ d # "processed" /\ e # "processed"
      BY DEF Dir, ColorDirs
    <3>2. job \notin DOMAIN result
      BY <1>2
    <3>3. \A c \in {d, e} : disk[c][n] # NoFile => disk[c][n].job # job
      BY <1>8, <3>1, <3>2
    <3>4. CASE disk'[d][n] = disk[d][n] /\ disk'[e][n] = disk[e][n]
      BY <3>4 DEF OutputInv, OutputsMatchResults, OneColor
    <3>5. CASE d = color /\ disk'[d][n].job = job /\ disk'[e][n] = disk[e][n]
      BY <3>3, <3>5
    <3>6. CASE e = color /\ disk'[e][n].job = job /\ disk'[d][n] = disk[d][n]
      BY <3>3, <3>6
    <3>7. QED
      BY <1>5, <3>1, <3>4, <3>5, <3>6
  <2>6. QED
    BY <2>2, <2>3, <2>4, <2>5 DEF OutputsMatchResults
<1>10. CopyInv'
  <2>1. \A d \in Dir, n \in Name :
          disk'[d][n] # NoFile => disk'[d][n].job \in 1 .. job
    <3>1. job \in 1 .. job /\ DOMAIN result \subseteq 1 .. job
      BY <1>2
    <3>2. \A d \in Dir, n \in Name :
            disk[d][n] # NoFile => disk[d][n].job \in 1 .. job
      BY <1>8, <3>1
    <3>3. QED
      BY <1>5, <3>1, <3>2
  <2>2. QED
    BY <1>1, <1>3, <2>1 DEF CopyInv
<1>11. QED
  BY <1>7, <1>9, <1>10 DEF OutputInv

-----------------------------------------------------------------------------
LEMMA NextKeepsOutputInv ==
  ASSUME OutputInv, [Next]_vars
  PROVE  OutputInv'
<1>1. CASE UNCHANGED vars
  BY <1>1 DEF vars, OutputInv, TypeOK, OutputsMatchResults, SuccessesHaveFiles,
     FilesHaveSuccesses, CopiesHaveImages, OneColor, CopyInv
<1>2. CASE Next
  BY <1>2, LoadKeepsOutputInv, MemoryKeepsOutputInv, SaveKeepsOutputInv,
     FailureKeepsOutputInv, CopyKeepsOutputInv DEF Next
<1>3. QED
  BY <1>1, <1>2

LEMMA InitOutputInv == Init => OutputInv
<1> SUFFICES ASSUME Init PROVE OutputInv
  OBVIOUS
<1>1. <<>> \in Seq([name : Name, success : BOOLEAN]) /\ Len(<<>>) = 0 /\ DOMAIN <<>> = {}
  OBVIOUS
<1>2. /\ stage = "idle" /\ job = 0 /\ name \in Name /\ color = "undefined"
      /\ disk = [dir \in Dir |-> [n \in Name |-> NoFile]] /\ result = <<>>
  BY DEF Init
<1>3. TypeOK
  BY <1>1, <1>2, ImageAssumption DEF TypeOK
<1>4. \A d \in Dir, n \in Name : disk[d][n] = NoFile
  BY <1>2
<1>5. OutputsMatchResults
  BY <1>1, <1>2, <1>4 DEF OutputsMatchResults, SuccessesHaveFiles,
     FilesHaveSuccesses, CopiesHaveImages, OneColor, Dir
<1>6. CopyInv
  BY <1>2, <1>4 DEF CopyInv
<1>7. QED
  BY <1>3, <1>5, <1>6 DEF OutputInv

LEMMA OutputInvariant == Spec => []OutputInv
<1>1. Init => OutputInv
  BY InitOutputInv
<1>2. OutputInv /\ [Next]_vars => OutputInv'
  BY NextKeepsOutputInv
<1> HIDE DEF Init, Next, vars, OutputInv
<1>3. QED
  BY <1>1, <1>2, PTL DEF Spec

\* Every variable of image_processor.c's model has its type, and there is one
\* result for each upload that has been processed.
THEOREM ImageTypeCorrectness == Spec => []TypeOK
<1>1. OutputInv => TypeOK
  BY DEF OutputInv
<1> HIDE DEF OutputInv, TypeOK
<1>2. QED
  BY <1>1, OutputInvariant, PTL

\* For any images and any number of uploads, whichever of them fail and however
\* their names repeat, what process_image_complete returns and the files in
\* processed/ and in the directories of the colours agree.
THEOREM ResultsAgreeWithFiles == Spec => []OutputsMatchResults
<1>1. OutputInv => OutputsMatchResults
  BY DEF OutputInv
<1> HIDE DEF OutputInv, OutputsMatchResults
<1>2. QED
  BY <1>1, OutputInvariant, PTL

-----------------------------------------------------------------------------
(* What the files are made from. *)

\* image_data is the decoded image until it is equalised in place, and the
\* colour is taken from it before that.
SourceInv ==
  /\ stage \in {"idle", "classify", "equalize", "save", "copy"}
  /\ stage # "idle" => original \in Image
  /\ stage \in {"classify", "equalize"} => image = original
  /\ stage \in {"equalize", "save", "copy"} => color = PredominantColor(original)
  /\ stage \in {"save", "copy"} => image = Equalized(original)

LEMMA InitSourceInv == Init => SourceInv
  BY DEF Init, SourceInv

LEMMA NextKeepsSourceInv ==
  ASSUME SourceInv, [Next]_vars
  PROVE  SourceInv'
<1>1. CASE Load
  BY <1>1 DEF Load, SourceInv
<1>2. CASE LoadFails
  BY <1>2 DEF LoadFails, SourceInv
<1>3. CASE Classify
  BY <1>3 DEF Classify, SourceInv
<1>4. CASE Equalize
  BY <1>4 DEF Equalize, SourceInv
<1>5. CASE SaveEqualized
  <2>1. CASE color = "undefined"
    BY <1>5, <2>1 DEF SaveEqualized, Return, SourceInv
  <2>2. CASE color # "undefined"
    BY <1>5, <2>2 DEF SaveEqualized, SourceInv
  <2>3. QED
    BY <2>1, <2>2
<1>6. CASE SaveFails \/ SaveClassified \/ CopyFails
  <2>1. stage' = "idle"
    BY <1>6 DEF SaveFails, SaveClassified, CopyFails, Return
  <2>2. QED
    BY <2>1 DEF SourceInv
<1>7. CASE UNCHANGED vars
  BY <1>7 DEF vars, SourceInv
<1>8. QED
  BY <1>1, <1>2, <1>3, <1>4, <1>5, <1>6, <1>7 DEF Next

LEMMA SourceInvariant == Spec => []SourceInv
<1>1. SourceInv /\ [Next]_vars => SourceInv'
  BY NextKeepsSourceInv
<1>2. Init => SourceInv
  BY InitSourceInv
<1> HIDE DEF Init, Next, vars, SourceInv
<1>3. QED
  BY <1>1, <1>2, PTL DEF Spec

\* Whatever has been processed before, the samples that process_image_complete
\* saves are those of the uploaded image, equalised by the formula if an int
\* holds 255 times its pixels, and the directory is that of the uploaded image's
\* colour and not of the equalised one's.
THEOREM FilesShowTheUpload == Spec => []SavedFromOriginal
<1>1. SourceInv => SavedFromOriginal
  <2> SUFFICES ASSUME SourceInv, stage \in {"save", "copy"}
               PROVE  /\ Total(original) * MaxLevel <= IntMax =>
                           image = Formula(original)
                      /\ color = PredominantColor(original)
    BY DEF SavedFromOriginal
  <2>1. /\ original \in Image /\ image = Equalized(original)
        /\ color = PredominantColor(original)
    BY DEF SourceInv
  <2>2. QED
    BY <2>1, EqualizationByFormula
<1> HIDE DEF SourceInv, SavedFromOriginal
<1>2. QED
  BY <1>1, SourceInvariant, PTL
=============================================================================

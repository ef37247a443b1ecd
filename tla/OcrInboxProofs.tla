--------------------------- MODULE OcrInboxProofs ---------------------------
(***************************************************************************)
(* Theorems about OcrInbox, for any number of jobs at once.                *)
(***************************************************************************)
EXTENDS OcrInbox, TLAPS

\* What r names is whole, if it is the result of job j.
NamesWhole(r, j) ==
    /\ r.output_pdf = "final" => final_pdf[j] = "whole"
    /\ "image" \in {r.output_pdf, r.image_pdf} => image_pdf[j] = "whole"
    /\ r.succeeded => r.output_pdf \in {"image", "final"}

FilesAt(j) ==
    /\ at[j] \in {"start", "jpegs", "write"} => image_pdf[j] = "none"
    /\ at[j] \in {"start", "jpegs", "write", "written"} => final_pdf[j] = "none"
    /\ at[j] = "written" => image_pdf[j] = "partial"
    /\ at[j] = "ocr" => image_pdf[j] = "whole"
    /\ at[j] = "unlink" => final_pdf[j] = "whole"

ResultAt(j) ==
    /\ at[j] = "leave" => result[j] # NoResult
    /\ at[j] = "unlink" =>
          result[j] = Result(TRUE, "final", "none") /\ ~keep_intermediates
    /\ at[j] \in {"leave", "record", "done"} => NamesWhole(result[j], j)
    /\ at[j] \in {"leave", "record", "done"} /\ ~keep_intermediates
          /\ result[j].output_pdf = "final" => image_pdf[j] = "none"
    /\ at[j] \in {"record", "done"} /\ ~keep_intermediates
          /\ result[j].output_pdf \in {"image", "final"} => ~work_dir[j]
    /\ ocr_result[j] = NoResult \/ (at[j] = "done" /\ ocr_result[j] = result[j])

OcrInv == OcrTypeOK /\ \A j \in Jobs : FilesAt(j) /\ ResultAt(j)

(* The fields of a result.                                                    *)
LEMMA ResultFields ==
  ASSUME NEW succeeded \in BOOLEAN,
         NEW output \in {"unset", "none", "image", "final"},
         NEW image \in {"unset", "none", "image"}
  PROVE  /\ Result(succeeded, output, image) \in Results
         /\ Result(succeeded, output, image).succeeded = succeeded
         /\ Result(succeeded, output, image).output_pdf = output
         /\ Result(succeeded, output, image).image_pdf = image
  BY DEF Result, Results

(* What is special about the two results that name no file.                   *)
LEMMA Nameless ==
  /\ NoResult \in Results /\ Error \in Results
  /\ NoResult.output_pdf = "unset" /\ NoResult.image_pdf = "unset"
  /\ Error.output_pdf = "none" /\ Error.image_pdf = "none"
  /\ NoResult # Error /\ NoResult.succeeded = FALSE /\ Error.succeeded = FALSE
  BY DEF NoResult, Error, Result, Results

(* No job has begun.                                                          *)
LEMMA InitOcrInv == Init => OcrInv
  BY Nameless DEF Init, OcrInv, OcrTypeOK, FilesAt, ResultAt

(* A step of one job leaves the files and results of the others alone.        *)
LEMMA OthersUntouched ==
  ASSUME OcrTypeOK, NEW j \in Jobs, SideEffect(j), NEW k \in Jobs, k # j
  PROVE  /\ at'[k] = at[k] /\ result'[k] = result[k]
         /\ ocr_result'[k] = ocr_result[k] /\ image_pdf'[k] = image_pdf[k]
         /\ final_pdf'[k] = final_pdf[k] /\ work_dir'[k] = work_dir[k]
         /\ keep_intermediates' = keep_intermediates
  BY DEF OcrTypeOK, SideEffect, MakeDirs, MakeDirsFails, Prepare, WriteImage,
         ImageWritten, Raises, OcrWrites, OcrEnds, OcrFails, Unlink, Leave,
         LeaveFails, Record, Step, Return, files

(* A step of one job keeps the types.                                         *)
LEMMA SideEffectTypes ==
  ASSUME OcrTypeOK, NEW j \in Jobs, SideEffect(j), FilesAt(j), ResultAt(j)
  PROVE  OcrTypeOK'
  <1> USE DEF OcrTypeOK, Step, Return, files
  <1>1. CASE MakeDirs(j) BY <1>1 DEF MakeDirs
  <1>2. CASE MakeDirsFails(j)
    BY <1>2, Nameless DEF MakeDirsFails
  <1>3. CASE Prepare(j) BY <1>3 DEF Prepare
  <1>4. CASE WriteImage(j) BY <1>4 DEF WriteImage
  <1>5. CASE ImageWritten(j)
    <2>1. result' \in [Jobs -> Results]
      <3>1. CASE enabled BY <1>5, <3>1 DEF ImageWritten
      <3>2. CASE ~enabled
        <4>1. Result(TRUE, "image", "image") \in Results BY ResultFields
        <4>2. result' = [result EXCEPT ![j] = Result(TRUE, "image", "image")]
          BY <1>5, <3>2 DEF ImageWritten
        <4>3. QED BY <4>1, <4>2
      <3>3. QED BY <3>1, <3>2
    <2>2. QED BY <1>5, <2>1 DEF ImageWritten
  <1>6. CASE Raises(j) BY <1>6, Nameless DEF Raises
  <1>7. CASE OcrWrites(j) BY <1>7 DEF OcrWrites
  <1>8. CASE OcrEnds(j)
    <2>1. result' \in [Jobs -> Results] BY <1>8, ResultFields DEF OcrEnds
    <2>2. QED BY <1>8, <2>1 DEF OcrEnds
  <1>9. CASE OcrFails(j)
    <2>1. result' \in [Jobs -> Results] BY <1>9, ResultFields DEF OcrFails
    <2>2. QED BY <1>9, <2>1 DEF OcrFails
  <1>10. CASE Unlink(j) BY <1>10 DEF Unlink
  <1>11. CASE Leave(j)
    <2>1. result[j] # NoResult
      BY <1>11, Nameless DEF Leave, ResultAt
    <2>2. QED BY <1>11, <2>1 DEF Leave
  <1>12. CASE LeaveFails(j) BY <1>12, Nameless DEF LeaveFails
  <1>13. CASE Record(j)
    <2>1. ocr_result' \in [Jobs -> Results] BY <1>13 DEF Record
    <2>2. QED BY <1>13, <2>1 DEF Record
  <1>14. QED
    BY <1>1, <1>2, <1>3, <1>4, <1>5, <1>6, <1>7, <1>8, <1>9, <1>10, <1>11, <1>12,
       <1>13 DEF SideEffect

(* A step of one job keeps its own files and result as the invariant wants.   *)
LEMMA SideEffectKeeps ==
  ASSUME OcrTypeOK, NEW j \in Jobs, FilesAt(j), ResultAt(j), SideEffect(j)
  PROVE  FilesAt(j)' /\ ResultAt(j)'
  <1>1. CASE MakeDirs(j) \/ Prepare(j) \/ WriteImage(j) \/ OcrWrites(j)
    BY <1>1
    DEF MakeDirs, Prepare, WriteImage, OcrWrites, OcrTypeOK, FilesAt, ResultAt,
        Step, files
  <1>2. CASE MakeDirsFails(j)
    <2>1. /\ at[j] = "start" /\ at'[j] = "record" /\ result'[j] = Error
          /\ UNCHANGED files /\ ocr_result' = ocr_result
      BY <1>2 DEF MakeDirsFails, OcrTypeOK, Step, Return
    <2>2. NamesWhole(result[j], j)' BY <2>1, Nameless DEF NamesWhole
    <2>3. QED BY <2>1, <2>2, Nameless DEF FilesAt, ResultAt
  <1>3. CASE ImageWritten(j)
    <2>1. /\ at[j] = "written" /\ at'[j] = IF enabled THEN "ocr" ELSE "leave"
          /\ image_pdf'[j] = "whole" /\ final_pdf'[j] = final_pdf[j]
          /\ ~enabled => result'[j] = Result(TRUE, "image", "image")
          /\ UNCHANGED <<keep_intermediates, ocr_result>>
      BY <1>3 DEF ImageWritten, OcrTypeOK, Step, Return
    <2>2. ~enabled => NamesWhole(result[j], j)' /\ result'[j].output_pdf = "image"
                      /\ result'[j] # NoResult
      BY <2>1, ResultFields, Nameless DEF NamesWhole
    <2>3. QED BY <2>1, <2>2 DEF FilesAt, ResultAt
  <1>4. CASE Raises(j)
    <2>1. /\ at[j] \in {"jpegs", "write", "written", "unlink"} /\ at'[j] = "leave"
          /\ result'[j] = Error
          /\ UNCHANGED files /\ ocr_result' = ocr_result
      BY <1>4 DEF Raises, OcrTypeOK, Step, Return
    <2>2. NamesWhole(result[j], j)' BY <2>1, Nameless DEF NamesWhole
    <2>3. QED BY <2>1, <2>2, Nameless DEF FilesAt, ResultAt
  <1>5. CASE OcrEnds(j)
    <2> DEFINE image == IF keep_intermediates THEN "image" ELSE "none"
    <2>1. /\ at[j] = "ocr"
          /\ at'[j] = IF keep_intermediates THEN "leave" ELSE "unlink"
          /\ final_pdf'[j] = "whole" /\ image_pdf'[j] = image_pdf[j]
          /\ result'[j] = Result(TRUE, "final", image)
          /\ UNCHANGED <<keep_intermediates, ocr_result>>
      BY <1>5 DEF OcrEnds, OcrTypeOK, Step, Return
    <2>2. image_pdf[j] = "whole" BY <2>1 DEF FilesAt
    <2>3. NamesWhole(result[j], j)' /\ result'[j] # NoResult
      <3>1. image \in {"image", "none"} OBVIOUS
      <3>2. /\ result'[j].output_pdf = "final"
            /\ result'[j].image_pdf = image
        BY <2>1, <3>1, ResultFields
      <3>3. QED BY <2>1, <2>2, <3>2, Nameless DEF NamesWhole
    <2>4. CASE keep_intermediates
      BY <2>1, <2>2, <2>3, <2>4 DEF FilesAt, ResultAt
    <2>5. CASE ~keep_intermediates
      BY <2>1, <2>2, <2>3, <2>5 DEF FilesAt, ResultAt
    <2>6. QED BY <2>4, <2>5
  <1>6. CASE OcrFails(j)
    <2>1. /\ at[j] = "ocr" /\ at'[j] = "leave"
          /\ result'[j] = Result(FALSE, "image", "image")
          /\ UNCHANGED files /\ UNCHANGED <<keep_intermediates, ocr_result>>
      BY <1>6 DEF OcrFails, OcrTypeOK, Step, Return
    <2>2. image_pdf[j] = "whole" BY <2>1 DEF FilesAt
    <2>3. /\ result'[j].output_pdf = "image" /\ result'[j].image_pdf = "image"
          /\ result'[j].succeeded = FALSE
      BY <2>1, ResultFields
    <2>4. NamesWhole(result[j], j)' /\ result'[j] # NoResult
      BY <2>1, <2>2, <2>3, Nameless DEF NamesWhole, files
    <2>5. QED BY <2>1, <2>3, <2>4 DEF FilesAt, ResultAt
  <1>7. CASE Unlink(j)
    <2>1. /\ at[j] = "unlink" /\ at'[j] = "leave"
          /\ image_pdf'[j] = "none" /\ final_pdf'[j] = final_pdf[j]
          /\ UNCHANGED <<keep_intermediates, ocr_result, result>>
      BY <1>7 DEF Unlink, OcrTypeOK, Step
    <2>2. result[j] = Result(TRUE, "final", "none") /\ final_pdf[j] = "whole"
      BY <2>1 DEF FilesAt, ResultAt
    <2>3. /\ result[j].output_pdf = "final" /\ result[j].image_pdf = "none"
          /\ result[j] # NoResult
      BY <2>2, ResultFields, Nameless
    <2>4. NamesWhole(result[j], j)' BY <2>1, <2>2, <2>3 DEF NamesWhole
    <2>5. QED BY <2>1, <2>3, <2>4 DEF FilesAt, ResultAt
  <1>8. CASE Leave(j)
    <2>1. /\ at[j] = "leave" /\ at'[j] = "record" /\ work_dir'[j] = keep_intermediates
          /\ UNCHANGED <<image_pdf, final_pdf, keep_intermediates, ocr_result, result>>
      BY <1>8 DEF Leave, OcrTypeOK, Step
    <2>2. NamesWhole(result[j], j) BY <2>1 DEF ResultAt
    <2>3. NamesWhole(result[j], j)' BY <2>1, <2>2 DEF NamesWhole
    <2>4. QED BY <2>1, <2>3 DEF FilesAt, ResultAt
  <1>9. CASE LeaveFails(j)
    <2>1. /\ at[j] = "leave" /\ at'[j] = "record" /\ result'[j] = Error
          /\ UNCHANGED files /\ ocr_result' = ocr_result
      BY <1>9 DEF LeaveFails, OcrTypeOK, Step, Return
    <2>2. NamesWhole(result[j], j)' BY <2>1, Nameless DEF NamesWhole
    <2>3. QED BY <2>1, <2>2, Nameless DEF FilesAt, ResultAt
  <1>10. CASE Record(j)
    <2>1. /\ at[j] = "record" /\ at'[j] = "done" /\ ocr_result'[j] = result[j]
          /\ UNCHANGED <<keep_intermediates, image_pdf, final_pdf, work_dir, result>>
      BY <1>10 DEF Record, OcrTypeOK, files
    <2>2. NamesWhole(result[j], j) BY <2>1 DEF ResultAt
    <2>3. NamesWhole(result[j], j)' BY <2>1, <2>2 DEF NamesWhole
    <2>4. QED BY <2>1, <2>3 DEF FilesAt, ResultAt
  <1>11. QED
    BY <1>1, <1>2, <1>3, <1>4, <1>5, <1>6, <1>7, <1>8, <1>9, <1>10 DEF SideEffect

(* The invariant is inductive: jobs share no file, and a crash stops them.    *)
LEMMA NextOcrInv == OcrInv /\ [Next]_vars => OcrInv'
  <1> SUFFICES ASSUME OcrInv, [Next]_vars PROVE OcrInv'
    OBVIOUS
  <1>1. CASE Crash \/ UNCHANGED vars
    <2>1. /\ UNCHANGED <<keep_intermediates, enabled, at, files, result, ocr_result>>
          /\ running' \in BOOLEAN
      BY <1>1 DEF Crash, vars, OcrInv, OcrTypeOK
    <2>2. OcrTypeOK' BY <2>1 DEF OcrInv, OcrTypeOK, files
    <2>3. ASSUME NEW j \in Jobs PROVE FilesAt(j)' /\ ResultAt(j)'
      <3>1. FilesAt(j) /\ ResultAt(j) BY <2>3 DEF OcrInv
      <3>2. QED BY <2>1, <3>1 DEF files, FilesAt, ResultAt, NamesWhole
    <2>4. QED BY <2>2, <2>3 DEF OcrInv
  <1>2. ASSUME NEW j \in Jobs, SideEffect(j) PROVE OcrInv'
    <2>1. OcrTypeOK' BY <1>2, SideEffectTypes DEF OcrInv
    <2>2. FilesAt(j)' /\ ResultAt(j)' BY <1>2, SideEffectKeeps DEF OcrInv
    <2>3. ASSUME NEW k \in Jobs, k # j PROVE FilesAt(k)' /\ ResultAt(k)'
      <3>1. FilesAt(k) /\ ResultAt(k) BY <2>3 DEF OcrInv
      <3>2. OcrTypeOK BY DEF OcrInv
      <3>3. QED
        BY <1>2, <2>3, <3>1, <3>2, OthersUntouched DEF FilesAt, ResultAt, NamesWhole
    <2>4. QED BY <2>1, <2>2, <2>3 DEF OcrInv
  <1>3. QED BY <1>1, <1>2 DEF Next

(* The inductive invariant of the side effect: which files are whole at which *)
(* point, and what the result about to be returned may name.                  *)
THEOREM OcrInvariant == Spec => []OcrInv
  BY InitOcrInv, NextOcrInv, PTL DEF Spec

(* A file the job's ocr_result names is in the inbox and whole.               *)
THEOREM ResultsHonest == Spec => []ResultNamesWholeFiles
  <1>1. OcrInv => ResultNamesWholeFiles
    BY Nameless DEF OcrInv, ResultAt, NamesWhole, ResultNamesWholeFiles
  <1>2. QED BY <1>1, OcrInvariant, PTL

(* Unless they are to be kept, no intermediates outlive a result that names   *)
(* an output.                                                                 *)
THEOREM NothingLeft == Spec => []IntermediatesGone
  <1>1. OcrInv => IntermediatesGone
    BY Nameless DEF OcrInv, ResultAt, IntermediatesGone
  <1>2. QED BY <1>1, OcrInvariant, PTL

(* A scan that is in the inbox as a whole PDF stays there as a whole PDF, for *)
(* any number of jobs, any failure and a crash at any point.                  *)
THEOREM ScanKept == Spec => ScanStaysSaved
  <1>1. ASSUME OcrInv, [Next]_vars, NEW j \in Jobs, Saved(j) PROVE Saved(j)'
    <2>1. CASE Crash \/ UNCHANGED vars
      BY <1>1, <2>1 DEF Crash, vars, files, Saved
    <2>2. ASSUME NEW k \in Jobs, SideEffect(k), k # j PROVE Saved(j)'
      BY <1>1, <2>2, OthersUntouched DEF OcrInv, Saved
    <2>3. CASE SideEffect(j)
      BY <1>1, <2>3
      DEF OcrInv, OcrTypeOK, FilesAt, Saved, SideEffect, MakeDirs, MakeDirsFails,
          Prepare, WriteImage, ImageWritten, Raises, OcrWrites, OcrEnds, OcrFails,
          Unlink, Leave, LeaveFails, Record, Step, Return, files
    <2>4. QED BY <1>1, <2>1, <2>2, <2>3 DEF Next
  <1>2. OcrInv /\ [Next]_vars => [\A j \in Jobs : Saved(j) => Saved(j)']_vars
    BY <1>1
  <1>3. QED BY <1>2, OcrInvariant, PTL DEF Spec, ScanStaysSaved
=============================================================================

------------------------------ MODULE OcrInbox ------------------------------
(***************************************************************************)
(* The OCR side effect of completed jobs: _run_ocr_side_effect             *)
(* (src/airscan_adapter/jobs.py) and OcrInboxWriter.write_job_pdf          *)
(* (src/airscan_adapter/ocr.py).  It runs in the worker's thread after the *)
(* slot has been given back, so several jobs may be at it; any file        *)
(* operation can fail, and the process can die in the middle (the threads  *)
(* are daemons).  The name of a PDF holds the second and the job's id, so  *)
(* no two jobs share a file.  The server makes a writer only with OCR      *)
(* enabled; the class itself also serves a caller that wants no OCR.       *)
(***************************************************************************)
CONSTANT Jobs    \* completed jobs with retained pages

VARIABLES
    keep_intermediates, enabled,   \* paths.keep_intermediates, ocr.enabled
    running,      \* the process lives
    at,           \* of a job's thread
    work_dir,     \* does its directory exist
    image_pdf, final_pdf,          \* "none", "partial" or "whole"
    result,       \* what write_job_pdf is about to return
    ocr_result    \* what the job has been given

files == <<work_dir, image_pdf, final_pdf>>
vars  == <<keep_intermediates, enabled, running, at, files, result, ocr_result>>

\* OcrResult: which file it names, if any; NoResult is None.
Result(succeeded, output, image) ==
    [succeeded |-> succeeded, output_pdf |-> output, image_pdf |-> image]
Results ==
    [succeeded : BOOLEAN, output_pdf : {"unset", "none", "image", "final"},
     image_pdf : {"unset", "none", "image"}]
NoResult == Result(FALSE, "unset", "unset")
Error    == Result(FALSE, "none", "none")

Init ==
    /\ keep_intermediates \in BOOLEAN /\ enabled \in BOOLEAN
    /\ running = TRUE
    /\ at = [j \in Jobs |-> "start"]
    /\ work_dir  = [j \in Jobs |-> FALSE]
    /\ image_pdf = [j \in Jobs |-> "none"]
    /\ final_pdf = [j \in Jobs |-> "none"]
    /\ result = [j \in Jobs |-> NoResult] /\ ocr_result = [j \in Jobs |-> NoResult]

----------------------------------------------------------------------------
\* write_job_pdf

Step(j, from, to) ==
    /\ running /\ at[j] = from
    /\ at' = [at EXCEPT ![j] = to]
    /\ UNCHANGED <<keep_intermediates, enabled, running, ocr_result>>

Return(j, what) == result' = [result EXCEPT ![j] = what]

\* The inbox and the work directory are made.
MakeDirs(j) ==
    /\ Step(j, "start", "jpegs")
    /\ work_dir' = [work_dir EXCEPT ![j] = TRUE]
    /\ UNCHANGED <<image_pdf, final_pdf, result>>

MakeDirsFails(j) ==
    /\ Step(j, "start", "record")
    /\ Return(j, Error)
    /\ UNCHANGED files

\* _write_jpegs, and img2pdf's conversion, which is in memory.
Prepare(j) ==
    /\ Step(j, "jpegs", "write")
    /\ UNCHANGED <<files, result>>

\* The file is there before its contents are.
WriteImage(j) ==
    /\ Step(j, "write", "written")
    /\ image_pdf' = [image_pdf EXCEPT ![j] = "partial"]
    /\ UNCHANGED <<work_dir, final_pdf, result>>

ImageWritten(j) ==
    /\ Step(j, "written", IF enabled THEN "ocr" ELSE "leave")
    /\ image_pdf' = [image_pdf EXCEPT ![j] = "whole"]
    /\ IF enabled THEN UNCHANGED result ELSE Return(j, Result(TRUE, "image", "image"))
    /\ UNCHANGED <<work_dir, final_pdf>>

\* An exception leaves the with block and write_job_pdf.
Raises(j) ==
    /\ \E from \in {"jpegs", "write", "written", "unlink"} : Step(j, from, "leave")
    /\ Return(j, Error)
    /\ UNCHANGED files

\* The OCR program (external) has begun to write its output.
OcrWrites(j) ==
    /\ Step(j, "ocr", "ocr")
    /\ final_pdf' = [final_pdf EXCEPT ![j] = "partial"]
    /\ UNCHANGED <<work_dir, image_pdf, result>>

OcrEnds(j) ==
    /\ Step(j, "ocr", IF keep_intermediates THEN "leave" ELSE "unlink")
    /\ final_pdf' = [final_pdf EXCEPT ![j] = "whole"]
    /\ Return(j, Result(TRUE, "final", IF keep_intermediates THEN "image" ELSE "none"))
    /\ UNCHANGED <<work_dir, image_pdf>>

\* Variant: a failed OCR run is cleaned up after like any other.
OcrFailsUnlinks(j) ==
    /\ Step(j, "ocr", "unlink")
    /\ Return(j, Result(FALSE, "image", "image"))
    /\ UNCHANGED files
\* Variant: the final file is taken for the output whatever became of the run.
OcrFailsIgnored(j) ==
    /\ Step(j, "ocr", "leave")
    /\ Return(j, Result(FALSE, "final", "image"))
    /\ UNCHANGED files
\* Whatever OCR has left of its output stays.
OcrFails(j) ==
    /\ Step(j, "ocr", "leave")
    /\ Return(j, Result(FALSE, "image", "image"))
    /\ UNCHANGED files

Unlink(j) ==
    /\ Step(j, "unlink", "leave")
    /\ image_pdf' = [image_pdf EXCEPT ![j] = "none"]
    /\ UNCHANGED <<work_dir, final_pdf, result>>

\* Variant: a directory that cannot be removed is nobody's problem.
LeaveFailsQuietly(j) ==
    /\ ~keep_intermediates
    /\ Step(j, "leave", "record")
    /\ UNCHANGED <<files, result>>
\* The temporary directory cannot be removed: an error instead of the result.
LeaveFails(j) ==
    /\ ~keep_intermediates
    /\ Step(j, "leave", "record")
    /\ Return(j, Error)
    /\ UNCHANGED files

\* A directory that is to be kept stays.
Leave(j) ==
    /\ Step(j, "leave", "record")
    /\ work_dir' = [work_dir EXCEPT ![j] = keep_intermediates]
    /\ UNCHANGED <<image_pdf, final_pdf, result>>

\* _run_ocr_side_effect gives the job its result.
Record(j) ==
    /\ running /\ at[j] = "record"
    /\ at' = [at EXCEPT ![j] = "done"]
    /\ ocr_result' = [ocr_result EXCEPT ![j] = result[j]]
    /\ UNCHANGED <<keep_intermediates, enabled, running, files, result>>

\* The server is stopped or killed; its threads go with it, the files stay.
Crash ==
    /\ running /\ running' = FALSE
    /\ UNCHANGED <<keep_intermediates, enabled, at, files, result, ocr_result>>

----------------------------------------------------------------------------
SideEffect(j) ==
    \/ MakeDirs(j) \/ MakeDirsFails(j) \/ Prepare(j) \/ WriteImage(j)
    \/ ImageWritten(j) \/ Raises(j) \/ OcrWrites(j) \/ OcrEnds(j) \/ OcrFails(j)
    \/ Unlink(j) \/ Leave(j) \/ LeaveFails(j) \/ Record(j)

Next == Crash \/ \E j \in Jobs : SideEffect(j)

Spec == Init /\ [][Next]_vars

----------------------------------------------------------------------------
(* Type invariant: among others, a side effect that has ended has a result to *)
(* give, an error if nothing else.                                            *)
OcrTypeOK ==
    /\ keep_intermediates \in BOOLEAN /\ enabled \in BOOLEAN /\ running \in BOOLEAN
    /\ at \in [Jobs -> {"start", "jpegs", "write", "written", "ocr", "unlink",
                        "leave", "record", "done"}]
    /\ work_dir \in [Jobs -> BOOLEAN]
    /\ image_pdf \in [Jobs -> {"none", "partial", "whole"}]
    /\ final_pdf \in [Jobs -> {"none", "partial", "whole"}]
    /\ result \in [Jobs -> Results] /\ ocr_result \in [Jobs -> Results]
    /\ \A j \in Jobs : at[j] \in {"record", "done"} => result[j] # NoResult

Saved(j) == image_pdf[j] = "whole" \/ final_pdf[j] = "whole"

(* Once a scan is in the inbox as a whole PDF it stays there as a whole PDF,  *)
(* whatever fails and whenever the process dies: the image PDF goes only when *)
(* the searchable one is complete.                                            *)
ScanStaysSaved == [][\A j \in Jobs : Saved(j) => Saved(j)']_vars

(* A file the job's ocr_result names is in the inbox and whole: success means *)
(* its output, and a failed OCR its preserved image PDF.                      *)
ResultNamesWholeFiles ==
    \A j \in Jobs :
        /\ ocr_result[j].output_pdf = "final" => final_pdf[j] = "whole"
        /\ "image" \in {ocr_result[j].output_pdf, ocr_result[j].image_pdf} =>
              image_pdf[j] = "whole"
        /\ ocr_result[j].succeeded => ocr_result[j].output_pdf \in {"image", "final"}

(* Unless they are to be kept, no intermediates of a job remain once its      *)
(* result names an output: neither its directory of pages nor, next to the    *)
(* final PDF, the image PDF.                                                  *)
IntermediatesGone ==
    \A j \in Jobs :
        ~keep_intermediates /\ ocr_result[j].output_pdf \in {"image", "final"} =>
            /\ ~work_dir[j]
            /\ ocr_result[j].output_pdf = "final" => image_pdf[j] = "none"
=============================================================================

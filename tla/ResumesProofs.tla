---------------------------- MODULE ResumesProofs ----------------------------
(* For any number of resumes, documents, keys and attempts, and however     *)
(* often a process dies: every row has its file, a tailored resume is       *)
(* approved only as it was shown, and a key makes one document.             *)
EXTENDS Resumes, TLAPS

\* An import owns its file until its rows are written; ids are drawn once.
ImportInv ==
  \A n \in Imports :
    /\ imports[n] # None =>
         n <= drawn /\ sources[n] = None /\ SourceFile(n) \in files \ artifacts
    /\ sources[n] # None =>
         /\ n <= drawn /\ SourceFile(n) \in artifacts
         /\ sources[n].approved => sources[n].snapshot # 0
    /\ SourceFile(n) \in artifacts => n <= drawn

\* Documents are made in order, and only a document is rendered.
DocsInv ==
  \A d \in Docs :
    /\ docs[d] # None => \A c \in 1..(d - 1) : docs[c] # None
    /\ docs[d] = None => /\ renders[d] = None /\ tailored[d] = None
                         /\ \A r \in Runs : runs[d][r] = "none"

\* How far an attempt is says what it has stored; deleting the local data takes the row of
\* the queue with the rows of the artifacts, so that no later result names them.
RunInv ==
  \A d \in Docs, r \in Runs :
    /\ renders[d] # None /\ renders[d].run < r => runs[d][r] = "none"
    /\ runs[d][r] = "printed" => Rendered(d, r) \in files
    /\ Rendered(d, r) \in artifacts => runs[d][r] \in {"saved", "ended"}
    /\ renders[d] # None /\ runs[d][r] = "saved" => Rendered(d, r) \in artifacts

\* What is attached, or about to be, was stored by an attempt that has ended.
AttachInv ==
  \A d \in Docs :
    /\ Waiting(d) /\ renders[d] # None =>
         (renders[d].status = "completed" =>
            /\ renders[d].run \in Runs /\ Rendered(d, renders[d].run) \in artifacts
            /\ runs[d][renders[d].run] = "ended")
    /\ tailored[d] # None =>
         /\ Waiting(d) => tailored[d].pdf = 0
         /\ tailored[d].pdf # 0 => runs[d][tailored[d].pdf] = "ended"

\* A removal that has read its ids: nobody attaches to them any more.
RemovalInv ==
  removal # None =>
    /\ removal.resume <= drawn /\ imports[removal.resume] = None
    /\ \A x \in removal.rendered : \E d \in Docs, r \in Runs :
         /\ x = Rendered(d, r) /\ runs[d][r] = "ended"
         /\ docs[d] # None /\ ~Waiting(d) /\ docs[d].resume = removal.resume

\* While nothing was deleted, the document of a key that has not failed has its record.
KeyInv ==
  /\ \A d \in Docs : docs[d] # None =>
       /\ docs[d].era <= deletions
       /\ deletions = 0 /\ docs[d].key # None /\ docs[d].outcome # "failed"
            => keys[docs[d].key] # None
  /\ KeyMakesOneDocument

IInv ==
  /\ ImportInv /\ DocsInv /\ RunInv /\ AttachInv /\ RemovalInv /\ KeyInv
  /\ RowsHaveFiles /\ ApprovedAsShown

-----------------------------------------------------------------------------
(* Types. *)

RenderRow == [status : {"queued", "running", "completed", "failed"}, run : 0..MaxRuns]
TailoredRow == [approved : BOOLEAN, pdf : 0..MaxRuns]

LEMMA ArtifactTypes ==
  ASSUME NEW d \in Docs, NEW r \in Runs
  PROVE  Rendered(d, r) \in Artifact
  BY DEF Artifact, Rendered

LEMMA RowTypes ==
  ASSUME ResumesTypeOK, NEW d \in Docs
  PROVE  /\ docs[d] # None => docs[d] \in Document
         /\ tailored[d] # None => tailored[d] \in TailoredRow
         /\ renders[d] # None => renders[d] \in RenderRow
         /\ \A r \in Runs : runs[d][r] \in {"none", "printing", "printed", "saved", "ended"}
  BY DEF ResumesTypeOK, TailoredRow, RenderRow

LEMMA InitType == ResumesInit => ResumesTypeOK
<1> SUFFICES ASSUME ResumesInit PROVE ResumesTypeOK
  OBVIOUS
<1>1. 0 \in 0..MaxImports /\ 0 \in 0..MaxSnapshots /\ 0 \in 0..MaxFaults /\ 0 \in 0..MaxDeletions
  BY ResumesAssumption
<1> QED
  BY <1>1 DEF ResumesInit, ResumesTypeOK

LEMMA ImportType ==
  ASSUME ResumesTypeOK, NEW n \in Imports,
         (\E c \in Contents : ImportStarts(n, c)) \/ ImportFails(n) \/ ImportEnds(n)
         \/ ApproveSource(n) \/ RemoveReads(n)
  PROVE  ResumesTypeOK'
<1> USE ResumesAssumption
<1>0. SourceFile(n) \in Artifact
  BY DEF Artifact, SourceFile
<1>1. ASSUME NEW c \in Contents, ImportStarts(n, c)
      PROVE  ResumesTypeOK'
  <2>1. drawn' \in 0..MaxImports
    BY <1>1 DEF ImportStarts, Imports
  <2> QED
    BY <1>0, <1>1, <2>1 DEF ImportStarts, rowVars, ResumesTypeOK
<1>2. CASE ImportFails(n)
  <2>1. faults' \in 0..MaxFaults
    BY <1>2 DEF ImportFails, Fault, ResumesTypeOK
  <2> QED
    BY <1>2, <2>1 DEF ImportFails, rowVars, ResumesTypeOK
<1>3. CASE ImportEnds(n)
  <2>1. imports[n] \in Contents
    BY <1>3 DEF ImportEnds, ResumesTypeOK
  <2>2. [content |-> imports[n], approved |-> FALSE, snapshot |-> 0] \in Source
    BY <2>1 DEF Source
  <2>3. sources' \in [Imports -> Source \cup {None}]
    BY <1>3, <2>2 DEF ImportEnds, ResumesTypeOK
  <2>4. files' \subseteq Artifact /\ artifacts' \subseteq Artifact
    BY <1>0, <1>3 DEF ImportEnds, ResumesTypeOK
  <2>5. imports' \in [Imports -> Contents \cup {None}]
    BY <1>3 DEF ImportEnds, ResumesTypeOK
  <2> QED
    BY <1>3, <2>3, <2>4, <2>5 DEF ImportEnds, ResumesTypeOK
<1>4. CASE ApproveSource(n)
  <2>1. sources[n] \in Source
    BY <1>4 DEF ApproveSource, ResumesTypeOK
  <2>2. snapshots + 1 \in 0..MaxSnapshots
    BY <1>4 DEF ApproveSource, ResumesTypeOK
  <2>3. [sources[n] EXCEPT !.approved = TRUE, !.snapshot = snapshots + 1] \in Source
    BY <2>1, <2>2 DEF Source
  <2>4. sources' = [sources EXCEPT ![n] = [sources[n] EXCEPT !.approved = TRUE, !.snapshot = snapshots + 1]]
    BY <1>4, <2>1 DEF ApproveSource, ResumesTypeOK, Source
  <2> QED
    BY <1>4, <2>2, <2>3, <2>4 DEF ApproveSource, ResumesTypeOK
<1>5. CASE RemoveReads(n)
  <2>1. \A d \in RowsOf(n) : tailored[d].pdf # 0 => d \in Docs /\ tailored[d].pdf \in Runs
    BY RowTypes DEF RowsOf, TailoredRow, Runs
  <2>2. removal'.resume = n /\ removal'.rendered \subseteq Artifact
    BY <1>5, <2>1 DEF RemoveReads, Artifact, Rendered
  <2>3. removal' \in [resume : Imports, rendered : SUBSET Artifact]
    BY <1>5, <2>1 DEF RemoveReads, Artifact, Rendered
  <2> QED
    BY <1>5, <2>3 DEF RemoveReads, rowVars, ResumesTypeOK
<1> QED
  BY <1>1, <1>2, <1>3, <1>4, <1>5

\* The document that a tailoring makes.
Made(n, j, k) ==
  [resume |-> n, snapshot |-> sources[n].snapshot, job |-> j, key |-> k, era |-> deletions,
   outcome |-> IF HasWorker THEN "waiting" ELSE "answered"]

LEMMA MadeType ==
  ASSUME ResumesTypeOK, ImportInv, NEW n \in Imports, NEW j \in Jobs, NEW k \in Keys \cup {None},
         Tailor(n, j, k)
  PROVE  Made(n, j, k) \in Document
<1>1. sources[n] \in Source /\ sources[n].approved /\ sources[n].snapshot # 0
  BY DEF Tailor, ImportInv, ResumesTypeOK
<1>2. sources[n].snapshot \in 1..MaxSnapshots
  BY <1>1, ResumesAssumption DEF Source
<1>3. deletions \in 0..MaxDeletions
  BY DEF ResumesTypeOK
<1> QED
  BY <1>2, <1>3 DEF Made, Document

LEMMA TailorTypes ==
  ASSUME ResumesTypeOK, ImportInv, NEW n \in Imports, NEW j \in Jobs, NEW k \in Keys \cup {None},
         Tailor(n, j, k)
  PROVE  ResumesTypeOK'
<1> USE ResumesAssumption
<1>1. PICK d \in Docs :
        /\ docs' = [docs EXCEPT ![d] = Made(n, j, k)]
        /\ tailored' = SaveTailored(d, n, sources[n].snapshot, j)
        /\ renders' = IF HasWorker THEN [renders EXCEPT ![d] = [status |-> "queued", run |-> 0]]
                                  ELSE renders
  BY DEF Tailor, Made
<1>2. docs' \in [Docs -> Document \cup {None}]
  BY <1>1, MadeType DEF ResumesTypeOK
<1>3. tailored' \in [Docs -> [approved : BOOLEAN, pdf : 0..MaxRuns] \cup {None}]
  BY <1>1 DEF SaveTailored, ResumesTypeOK
<1>4. renders' \in [Docs -> [status : {"queued", "running", "completed", "failed"},
                             run : 0..MaxRuns] \cup {None}]
  BY <1>1 DEF ResumesTypeOK
<1>5. keys' \in [Keys -> KeyRecord \cup {None}]
  BY DEF Tailor, ResumesTypeOK, KeyRecord
<1> QED
  BY <1>2, <1>3, <1>4, <1>5 DEF Tailor, ResumesTypeOK

LEMMA OperationType ==
  ASSUME ResumesTypeOK, NEW d \in Docs,
         TailorEnds(d) \/ TailorFails(d) \/ TailorTimesOut(d) \/ ApproveTailored(d) \/ RenderStarts(d)
  PROVE  ResumesTypeOK'
<1> USE ResumesAssumption
<1>1. ASSUME Waiting(d), NEW outcome \in {"answered", "failed"},
             docs' = [docs EXCEPT ![d].outcome = outcome]
      PROVE  docs' \in [Docs -> Document \cup {None}]
  <2>1. docs[d] \in Document
    BY <1>1, RowTypes DEF Waiting
  <2>2. [docs[d] EXCEPT !.outcome = outcome] \in Document
    BY <2>1 DEF Document
  <2> QED
    BY <1>1, <2>2 DEF ResumesTypeOK
<1>2. ASSUME Waiting(d), keys' = Finish(d) \/ keys' = Clear(d)
      PROVE  keys' \in [Keys -> KeyRecord \cup {None}]
  <2>1. docs[d].key \in Keys \cup {None}
    BY <1>2, RowTypes DEF Waiting, Document
  <2>2. CASE keys' = Clear(d)
    BY <2>1, <2>2 DEF Clear, ResumesTypeOK
  <2>3. CASE keys' = Finish(d)
    <3>1. CASE docs[d].key # None /\ keys[docs[d].key] # None
      <4>1. keys[docs[d].key] \in KeyRecord
        BY <2>1, <3>1 DEF ResumesTypeOK
      <4>2. [keys[docs[d].key] EXCEPT !.status = "succeeded"] \in KeyRecord
        BY <4>1 DEF KeyRecord
      <4> QED
        BY <2>3, <3>1, <4>2 DEF Finish, ResumesTypeOK
    <3>2. CASE ~(docs[d].key # None /\ keys[docs[d].key] # None)
      BY <2>3, <3>2 DEF Finish, ResumesTypeOK
    <3> QED
      BY <3>1, <3>2
  <2> QED
    BY <1>2, <2>2, <2>3
<1>3. ASSUME Fault
      PROVE  faults' \in 0..MaxFaults
  BY <1>3 DEF Fault, ResumesTypeOK
<1>4. CASE TailorEnds(d)
  <2>1. docs' \in [Docs -> Document \cup {None}] /\ keys' \in [Keys -> KeyRecord \cup {None}]
    BY <1>1, <1>2, <1>4 DEF TailorEnds
  <2>2. renders[d].run \in 0..MaxRuns
    BY <1>4, RowTypes DEF TailorEnds, RenderRow
  <2>3. tailored' \in [Docs -> [approved : BOOLEAN, pdf : 0..MaxRuns] \cup {None}]
    <3>1. CASE tailored[d] = None
      BY <1>4, <3>1 DEF TailorEnds, ResumesTypeOK
    <3>2. CASE tailored[d] # None
      <4>1. [tailored[d] EXCEPT !.pdf = renders[d].run] \in TailoredRow
        BY <2>2, <3>2, RowTypes DEF TailoredRow
      <4> QED
        BY <1>4, <3>2, <4>1 DEF TailorEnds, TailoredRow, ResumesTypeOK
    <3> QED
      BY <3>1, <3>2
  <2> QED
    BY <1>4, <2>1, <2>3 DEF TailorEnds, ResumesTypeOK
<1>5. CASE TailorFails(d)
  <2>1. docs' \in [Docs -> Document \cup {None}] /\ keys' \in [Keys -> KeyRecord \cup {None}]
    BY <1>1, <1>2, <1>5 DEF TailorFails
  <2> QED
    BY <1>5, <2>1 DEF TailorFails, rowVars, ResumesTypeOK
<1>6. CASE TailorTimesOut(d)
  <2>1. /\ docs' \in [Docs -> Document \cup {None}] /\ keys' \in [Keys -> KeyRecord \cup {None}]
        /\ faults' \in 0..MaxFaults
    BY <1>1, <1>2, <1>3, <1>6 DEF TailorTimesOut
  <2>2. renders[d] # None => [renders[d] EXCEPT !.status = "failed"] \in RenderRow
    BY RowTypes DEF RenderRow
  <2>3. renders' \in [Docs -> RenderRow \cup {None}]
    BY <1>6, <2>2 DEF TailorTimesOut, ResumesTypeOK, RenderRow
  <2> QED
    BY <1>6, <2>1, <2>3 DEF TailorTimesOut, rowVars, ResumesTypeOK, RenderRow
<1>7. CASE ApproveTailored(d)
  <2>1. [tailored[d] EXCEPT !.approved = TRUE] \in TailoredRow
    BY <1>7, RowTypes DEF ApproveTailored, TailoredRow
  <2> QED
    BY <1>7, <2>1 DEF ApproveTailored, TailoredRow, ResumesTypeOK
<1>8. CASE RenderStarts(d)
  <2>1. renders[d].run + 1 \in Runs
    BY <1>8, RowTypes DEF RenderStarts, RenderRow, Runs
  <2>2. [status |-> "running", run |-> renders[d].run + 1] \in RenderRow
    BY <2>1 DEF RenderRow, Runs
  <2>3. faults' \in 0..MaxFaults
    BY <1>3, <1>8 DEF RenderStarts, ResumesTypeOK
  <2>4. renders' \in [Docs -> RenderRow \cup {None}]
    BY <1>8, <2>2 DEF RenderStarts, ResumesTypeOK, RenderRow
  <2>5. runs' \in [Docs -> [Runs -> {"none", "printing", "printed", "saved", "ended"}]]
    BY <1>8, <2>1 DEF RenderStarts, ResumesTypeOK
  <2> QED
    BY <1>8, <2>3, <2>4, <2>5 DEF RenderStarts, rowVars, ResumesTypeOK, RenderRow
<1> QED
  BY <1>4, <1>5, <1>6, <1>7, <1>8

LEMMA RunType ==
  ASSUME ResumesTypeOK, NEW d \in Docs, NEW r \in Runs,
         Prints(d, r) \/ SavesRows(d, r) \/ RenderEnds(d, r) \/ RenderStops(d, r)
  PROVE  ResumesTypeOK'
<1> USE ResumesAssumption
<1>1. ASSUME NEW state \in {"printed", "saved", "ended"}, runs' = [runs EXCEPT ![d][r] = state]
      PROVE  runs' \in [Docs -> [Runs -> {"none", "printing", "printed", "saved", "ended"}]]
  BY <1>1 DEF ResumesTypeOK
<1>2. ASSUME NEW status \in {"queued", "failed", "completed"}, renders[d] # None,
             renders' = [renders EXCEPT ![d].status = status]
      PROVE  renders' \in [Docs -> RenderRow \cup {None}]
  <2>1. [renders[d] EXCEPT !.status = status] \in RenderRow
    BY <1>2, RowTypes DEF RenderRow
  <2> QED
    BY <1>2, <2>1 DEF ResumesTypeOK, RenderRow
<1>3. CASE Prints(d, r)
  <2>1. runs' \in [Docs -> [Runs -> {"none", "printing", "printed", "saved", "ended"}]]
    BY <1>1, <1>3 DEF Prints
  <2> QED
    BY <1>3, <2>1, ArtifactTypes DEF Prints, rowVars, ResumesTypeOK
<1>4. CASE SavesRows(d, r)
  <2>1. runs' \in [Docs -> [Runs -> {"none", "printing", "printed", "saved", "ended"}]]
    BY <1>1, <1>4 DEF SavesRows
  <2> QED
    BY <1>4, <2>1, ArtifactTypes DEF SavesRows, ResumesTypeOK
<1>5. CASE RenderEnds(d, r)
  <2>1. renders' \in [Docs -> RenderRow \cup {None}]
    BY <1>2, <1>5 DEF RenderEnds, Holds, ResumesTypeOK, RenderRow
  <2> QED
    BY <1>1, <1>5, <2>1 DEF RenderEnds, rowVars, ResumesTypeOK, RenderRow
<1>6. CASE RenderStops(d, r)
  <2>1. renders' \in [Docs -> RenderRow \cup {None}]
    BY <1>2, <1>6 DEF RenderStops, Holds, ResumesTypeOK, RenderRow
  <2>2. faults' \in 0..MaxFaults
    BY <1>6 DEF RenderStops, Fault, ResumesTypeOK
  <2> QED
    BY <1>1, <1>6, <2>1, <2>2 DEF RenderStops, rowVars, ResumesTypeOK, RenderRow
<1> QED
  BY <1>3, <1>4, <1>5, <1>6

LEMMA RemovalType ==
  ASSUME ResumesTypeOK, RemoveCommits \/ DeleteRefused \/ DeleteData \/ Crash
  PROVE  ResumesTypeOK'
<1> USE ResumesAssumption
<1>1. ASSUME NEW ids, Sweep(ids)
      PROVE  files' \subseteq Artifact /\ faults' \in 0..MaxFaults
  BY <1>1 DEF Sweep, Fault, ResumesTypeOK
<1>2. CASE RemoveCommits
  <2>1. files' \subseteq Artifact /\ faults' \in 0..MaxFaults
    BY <1>1, <1>2 DEF RemoveCommits
  <2>2. /\ tailored' \in [Docs -> [approved : BOOLEAN, pdf : 0..MaxRuns] \cup {None}]
        /\ sources' \in [Imports -> Source \cup {None}] /\ artifacts' \subseteq Artifact
    BY <1>2 DEF RemoveCommits, ResumesTypeOK
  <2> QED
    BY <1>2, <2>1, <2>2 DEF RemoveCommits, ResumesTypeOK
<1>3. CASE DeleteRefused
  <2>1. \A d \in Docs : renders[d] # None => [renders[d] EXCEPT !.status = "failed"] \in RenderRow
    BY RowTypes DEF RenderRow
  <2>2. renders' \in [Docs -> RenderRow \cup {None}]
    BY <1>3, <2>1 DEF DeleteRefused, ResumesTypeOK, RenderRow
  <2> QED
    BY <1>3, <2>2 DEF DeleteRefused, rowVars, ResumesTypeOK, RenderRow
<1>4. CASE DeleteData
  <2>1. files' \subseteq Artifact /\ faults' \in 0..MaxFaults
    BY <1>1, <1>4 DEF DeleteData
  <2>2. deletions' \in 0..MaxDeletions
    BY <1>4 DEF DeleteData, ResumesTypeOK
  <2> QED
    BY <1>4, <2>1, <2>2 DEF DeleteData, ResumesTypeOK
<1>5. CASE Crash
  <2>1. \A d \in Docs : docs[d] # None => [docs[d] EXCEPT !.outcome = "lost"] \in Document
    BY RowTypes DEF Document
  <2>2. docs' \in [Docs -> Document \cup {None}]
    BY <1>5, <2>1 DEF Crash, Waiting, ResumesTypeOK
  <2>3. faults' \in 0..MaxFaults
    BY <1>5 DEF Crash, Fault, ResumesTypeOK
  <2> QED
    BY <1>5, <2>2, <2>3 DEF Crash, rowVars, ResumesTypeOK
<1> QED
  BY <1>2, <1>3, <1>4, <1>5

LEMMA StutterType ==
  ASSUME ResumesTypeOK, UNCHANGED resumesVars
  PROVE  ResumesTypeOK'
  BY DEF resumesVars, rowVars, ResumesTypeOK

LEMMA TypeStep ==
  ASSUME ResumesTypeOK, ImportInv, [ResumesNext]_resumesVars
  PROVE  ResumesTypeOK'
  BY ImportType, TailorTypes, OperationType, RunType, RemovalType, StutterType DEF ResumesNext

-----------------------------------------------------------------------------
(* What a step may do.  Only Tailor makes a document; every other step ends *)
(* a waiting operation or leaves it.                                        *)

LEMMA Names ==
  ASSUME NEW n \in Imports, NEW m \in Imports, NEW d \in Docs, NEW e \in Docs,
         NEW r \in Runs, NEW q \in Runs
  PROVE  /\ SourceFile(n) # Rendered(d, r)
         /\ SourceFile(n) = SourceFile(m) => n = m
         /\ Rendered(d, r) = Rendered(e, q) => d = e /\ r = q
         /\ Rendered(d, r).of = d /\ Rendered(d, r).run = r
<1>1. SourceFile(n).kind = "source" /\ SourceFile(n).of = n /\ SourceFile(m).of = m
  BY DEF SourceFile
<1>2. /\ Rendered(d, r).kind = "rendered" /\ Rendered(d, r).of = d /\ Rendered(d, r).run = r
      /\ Rendered(e, q).of = e /\ Rendered(e, q).run = q
  BY DEF Rendered
<1> QED
  BY <1>1, <1>2

Goes(d) ==
  \/ docs'[d] = docs[d]
  \/ Waiting(d) /\ \E outcome \in {"answered", "failed", "lost"} :
                      docs'[d] = [docs[d] EXCEPT !.outcome = outcome]

\* A step that tailors nothing.
Onward ==
  \/ \E n \in Imports : \/ \E c \in Contents : ImportStarts(n, c)
                        \/ ImportFails(n) \/ ImportEnds(n) \/ ApproveSource(n) \/ RemoveReads(n)
  \/ \E d \in Docs : \/ TailorEnds(d) \/ TailorFails(d) \/ TailorTimesOut(d)
                     \/ ApproveTailored(d) \/ RenderStarts(d)
  \/ \E d \in Docs, r \in Runs : \/ Prints(d, r) \/ SavesRows(d, r)
                                 \/ RenderEnds(d, r) \/ RenderStops(d, r)
  \/ RemoveCommits \/ DeleteRefused \/ DeleteData \/ Crash \/ UNCHANGED resumesVars

LEMMA TwoKinds ==
  ASSUME [ResumesNext]_resumesVars
  PROVE  \/ Onward
         \/ \E n \in Imports, j \in Jobs, k \in Keys \cup {None} : Tailor(n, j, k)
  BY DEF ResumesNext, Onward

LEMMA DocsGo ==
  ASSUME ResumesTypeOK, Onward, NEW d \in Docs
  PROVE  Goes(d)
<1>1. CASE UNCHANGED docs
  BY <1>1 DEF Goes
<1>2. ASSUME NEW e \in Docs, Waiting(e), NEW outcome \in {"answered", "failed"},
             docs' = [docs EXCEPT ![e].outcome = outcome]
      PROVE  Goes(d)
  BY <1>2 DEF Goes, ResumesTypeOK
<1>3. ASSUME NEW e \in Docs, TailorEnds(e) \/ TailorFails(e) \/ TailorTimesOut(e)
      PROVE  Goes(d)
  BY <1>2, <1>3 DEF TailorEnds, TailorFails, TailorTimesOut
<1>4. CASE Crash
  BY <1>4 DEF Crash, Goes
<1> QED
  BY <1>1, <1>3, <1>4
  DEF Onward, ImportStarts, ImportFails, ImportEnds, ApproveSource, RemoveReads,
      ApproveTailored, RenderStarts, Prints, SavesRows, RenderEnds, RenderStops, RemoveCommits,
      DeleteRefused, DeleteData, resumesVars

\* What does not change of a document, and how it comes to fail.
LEMMA DocsKept ==
  ASSUME ResumesTypeOK, Onward, NEW d \in Docs
  PROVE  /\ docs[d] = None <=> docs'[d] = None
         /\ docs[d] # None =>
              /\ docs'[d].resume = docs[d].resume /\ docs'[d].snapshot = docs[d].snapshot
              /\ docs'[d].job = docs[d].job /\ docs'[d].key = docs[d].key
              /\ docs'[d].era = docs[d].era
              /\ docs[d].outcome # "waiting" => docs'[d] = docs[d]
         /\ Waiting(d)' => Waiting(d) /\ docs'[d] = docs[d]
<1>1. docs[d] # None => docs[d] \in Document
  BY RowTypes
<1>2. CASE docs'[d] = docs[d]
  BY <1>2 DEF Waiting
<1>3. ASSUME Waiting(d), NEW outcome \in {"answered", "failed", "lost"},
             docs'[d] = [docs[d] EXCEPT !.outcome = outcome]
      PROVE  /\ docs[d] # None /\ docs'[d] # None /\ docs'[d].outcome = outcome
             /\ docs'[d].resume = docs[d].resume /\ docs'[d].snapshot = docs[d].snapshot
             /\ docs'[d].job = docs[d].job /\ docs'[d].key = docs[d].key
             /\ docs'[d].era = docs[d].era /\ docs[d].outcome = "waiting"
  <2>1. docs[d] \in Document
    BY <1>1, <1>3 DEF Waiting
  <2>2. docs'[d] \in Document
    BY <1>3, <2>1 DEF Document
  <2> QED
    BY <1>3, <2>1, <2>2, NoneAssumption DEF Document, Waiting
<1> QED
  BY <1>2, <1>3, DocsGo DEF Goes, Waiting

\* A tailoring makes one document, the next one.
Makes(d, n, j, k) ==
  /\ docs[d] = None /\ (\A e \in 1..(d - 1) : docs[e] # None)
  /\ docs'[d] = Made(n, j, k) /\ docs'[d] # None
  /\ \A e \in Docs : e # d => docs'[e] = docs[e]
  /\ tailored' = SaveTailored(d, n, sources[n].snapshot, j)
  /\ renders'[d] # None => renders'[d].run = 0 /\ renders'[d].status = "queued"
  /\ \A e \in Docs : e # d => renders'[e] = renders[e]

LEMMA TailorMakes ==
  ASSUME ResumesTypeOK, ImportInv, DocsInv,
         NEW n \in Imports, NEW j \in Jobs, NEW k \in Keys \cup {None}, Tailor(n, j, k)
  PROVE  \E d \in Docs : Makes(d, n, j, k)
<1>1. PICK d \in Docs :
        /\ docs[d] = None /\ \A e \in 1..(d - 1) : docs[e] # None
        /\ docs' = [docs EXCEPT ![d] = Made(n, j, k)]
        /\ tailored' = SaveTailored(d, n, sources[n].snapshot, j)
        /\ renders' = IF HasWorker THEN [renders EXCEPT ![d] = [status |-> "queued", run |-> 0]]
                                  ELSE renders
  BY DEF Tailor, Made
<1>2. docs'[d] = Made(n, j, k) /\ \A e \in Docs : e # d => docs'[e] = docs[e]
  BY <1>1 DEF ResumesTypeOK
<1>3. docs'[d] # None
  BY <1>2, MadeType, NoneAssumption
<1>4. /\ renders'[d] # None => renders'[d].run = 0 /\ renders'[d].status = "queued"
      /\ \A e \in Docs : e # d => renders'[e] = renders[e]
  BY <1>1 DEF ResumesTypeOK, DocsInv
<1> QED
  BY <1>1, <1>2, <1>3, <1>4 DEF Makes

-----------------------------------------------------------------------------
(* Imports. *)

LEMMA InitInv == ResumesInit => IInv
<1> SUFFICES ASSUME ResumesInit PROVE IInv
  OBVIOUS
<1> USE DEF ResumesInit
<1>1. ImportInv /\ DocsInv /\ RemovalInv
  BY DEF ImportInv, DocsInv, RemovalInv
<1>2. RunInv /\ AttachInv
  BY DEF RunInv, AttachInv, Waiting
<1>3. KeyInv
  BY DEF KeyInv, KeyMakesOneDocument
<1>4. RowsHaveFiles /\ ApprovedAsShown
  BY DEF RowsHaveFiles, ApprovedAsShown
<1> QED
  BY <1>1, <1>2, <1>3, <1>4 DEF IInv

LEMMA ImportsUntouched ==
  ASSUME ImportInv, UNCHANGED <<drawn, imports, sources>>,
         \A n \in Imports : /\ SourceFile(n) \in files => SourceFile(n) \in files'
                            /\ SourceFile(n) \in artifacts <=> SourceFile(n) \in artifacts'
  PROVE  ImportInv'
  BY DEF ImportInv

LEMMA ImportsStep ==
  ASSUME ResumesTypeOK, ImportInv, RemovalInv, [ResumesNext]_resumesVars
  PROVE  ImportInv'
<1>1. CASE UNCHANGED <<drawn, imports, sources, files, artifacts>>
  BY <1>1, ImportsUntouched
<1>2. ASSUME NEW n \in Imports, NEW c \in Contents, ImportStarts(n, c)
      PROVE  ImportInv'
  <2>1. drawn \in Nat /\ drawn' = drawn + 1 /\ n = drawn + 1
    BY <1>2, ResumesAssumption DEF ImportStarts, ResumesTypeOK
  <2>2. imports' = [imports EXCEPT ![n] = c] /\ files' = files \cup {SourceFile(n)}
        /\ UNCHANGED <<sources, artifacts>>
    BY <1>2 DEF ImportStarts, rowVars
  <2>3. sources[n] = None /\ SourceFile(n) \notin artifacts
    BY <2>1 DEF ImportInv
  <2>4. \A m \in Imports : m \in Nat /\ (m <= drawn => m <= drawn')
    BY <2>1 DEF Imports
  <2> QED
    BY <2>1, <2>2, <2>3, <2>4 DEF ImportInv, ResumesTypeOK
<1>3. ASSUME NEW n \in Imports, ImportFails(n)
      PROVE  ImportInv'
  BY <1>3 DEF ImportFails, rowVars, ImportInv, ResumesTypeOK
<1>4. ASSUME NEW n \in Imports, ImportEnds(n)
      PROVE  ImportInv'
  <2>1. /\ imports[n] # None /\ imports' = [imports EXCEPT ![n] = None] /\ UNCHANGED drawn
        /\ n <= drawn /\ sources[n] = None /\ SourceFile(n) \in files
    BY <1>4 DEF ImportEnds, ImportInv
  <2>2. \A m \in Imports : SourceFile(m) = SourceFile(n) => m = n
    BY DEF SourceFile
  <2>3. CASE /\ sources' = [sources EXCEPT ![n] = [content |-> imports[n], approved |-> FALSE, snapshot |-> 0]]
             /\ artifacts' = artifacts \cup {SourceFile(n)}
             /\ UNCHANGED files
    <3>1. \A m \in Imports : m # n =>
            sources'[m] = sources[m] /\ imports'[m] = imports[m]
            /\ (SourceFile(m) \in artifacts' <=> SourceFile(m) \in artifacts)
      BY <2>1, <2>2, <2>3 DEF ResumesTypeOK
    <3>2. ~(sources'[n].approved) /\ imports'[n] = None /\ SourceFile(n) \in artifacts'
      BY <2>1, <2>3 DEF ResumesTypeOK
    <3> QED
      BY <2>1, <2>3, <3>1, <3>2 DEF ImportInv
  <2>4. CASE files' = files \ {SourceFile(n)} /\ UNCHANGED <<sources, artifacts>>
    BY <2>1, <2>2, <2>4 DEF ImportInv, ResumesTypeOK
  <2> QED
    BY <1>4, <2>3, <2>4 DEF ImportEnds
<1>5. ASSUME NEW n \in Imports, ApproveSource(n)
      PROVE  ImportInv'
  <2>1. sources[n] \in Source /\ snapshots + 1 # 0
    BY <1>5, ResumesAssumption DEF ApproveSource, ResumesTypeOK
  <2>2. /\ sources[n] # None /\ \A m \in Imports : m # n => sources'[m] = sources[m]
        /\ sources'[n].snapshot # 0
    BY <1>5, <2>1 DEF ApproveSource, ResumesTypeOK, Source
  <2>3. UNCHANGED <<drawn, imports, files, artifacts>>
    BY <1>5 DEF ApproveSource
  <2> QED
    BY <2>2, <2>3 DEF ImportInv
<1>6. ASSUME NEW d \in Docs, NEW r \in Runs, Prints(d, r) \/ SavesRows(d, r)
      PROVE  ImportInv'
  <2>1. \A n \in Imports : SourceFile(n) # Rendered(d, r)
    BY DEF SourceFile, Rendered
  <2>2. UNCHANGED <<drawn, imports, sources>>
    BY <1>6 DEF Prints, SavesRows, rowVars
  <2>3. /\ files' \in {files, files \cup {Rendered(d, r)}}
        /\ artifacts' \in {artifacts, artifacts \cup {Rendered(d, r)}}
    BY <1>6 DEF Prints, SavesRows, rowVars
  <2> QED
    BY <2>1, <2>2, <2>3, ImportsUntouched
<1>7. CASE RemoveCommits
  <2> DEFINE n == removal.resume
  <2>1. /\ n \in Imports /\ imports[n] = None /\ UNCHANGED <<drawn, imports>>
        /\ sources' = [sources EXCEPT ![n] = None]
    BY <1>7 DEF RemoveCommits, RemovalInv, ResumesTypeOK
  <2>2. \A m \in Imports : m # n => SourceFile(m) \notin removal.rendered \cup {SourceFile(n)}
    BY <1>7, Names DEF RemoveCommits, RemovalInv, SourceFile, Rendered
  <2>3. /\ artifacts' = artifacts \ (removal.rendered \cup {SourceFile(n)})
        /\ files' = files \/ files' = files \ (removal.rendered \cup {SourceFile(n)})
    BY <1>7 DEF RemoveCommits, Sweep
  <2> HIDE DEF n
  <2> QED
    BY <2>1, <2>2, <2>3 DEF ImportInv, ResumesTypeOK
<1>8. CASE DeleteData
  <2>1. /\ UNCHANGED <<drawn, imports>> /\ artifacts' = {}
        /\ \A m \in Imports : sources'[m] = None
        /\ files' = files \/ files' = files \ artifacts
    BY <1>8 DEF DeleteData, Sweep
  <2> QED
    BY <2>1 DEF ImportInv
<1>9. CASE Crash
  BY <1>9 DEF Crash, rowVars, ImportInv
<1> QED
  BY <1>1, <1>2, <1>3, <1>4, <1>5, <1>6, <1>7, <1>8, <1>9
  DEF ResumesNext, RemoveReads, Tailor, TailorEnds, TailorFails, TailorTimesOut, ApproveTailored,
      RenderStarts, RenderEnds, RenderStops, DeleteRefused, rowVars, resumesVars

-----------------------------------------------------------------------------
(* Documents and their attempts. *)

\* The step touches no attempt, no rendered file and no row of one, and at most fails a row
\* of the queue.
Quiet ==
  /\ UNCHANGED runs
  /\ \A d \in Docs, r \in Runs : /\ Rendered(d, r) \in files <=> Rendered(d, r) \in files'
                                 /\ Rendered(d, r) \in artifacts <=> Rendered(d, r) \in artifacts'
  /\ \A d \in Docs :
       \/ renders'[d] = renders[d]
       \/ renders[d] # None /\ renders'[d].run = renders[d].run /\ renders'[d].status = "failed"

LEMMA QuietSteps ==
  ASSUME ResumesTypeOK, Onward
  PROVE  \/ Quiet
         \/ \E d \in Docs : RenderStarts(d)
         \/ \E d \in Docs, r \in Runs :
              Prints(d, r) \/ SavesRows(d, r) \/ RenderEnds(d, r) \/ RenderStops(d, r)
         \/ RemoveCommits \/ DeleteData
<1>1. CASE UNCHANGED <<runs, files, artifacts, renders>>
  BY <1>1 DEF Quiet
<1>2. ASSUME NEW n \in Imports, (\E c \in Contents : ImportStarts(n, c)) \/ ImportEnds(n)
      PROVE  Quiet
  <2>1. \A d \in Docs, r \in Runs : SourceFile(n) # Rendered(d, r)
    BY DEF SourceFile, Rendered
  <2>2. /\ files' \in {files, files \cup {SourceFile(n)}, files \ {SourceFile(n)}}
        /\ artifacts' \in {artifacts, artifacts \cup {SourceFile(n)}}
        /\ UNCHANGED <<runs, renders>>
    BY <1>2 DEF ImportStarts, ImportEnds, rowVars
  <2> QED
    BY <2>1, <2>2 DEF Quiet
<1>3. ASSUME NEW d \in Docs, TailorTimesOut(d)
      PROVE  Quiet
  <2>1. UNCHANGED <<runs, files, artifacts>>
    BY <1>3 DEF TailorTimesOut, rowVars
  <2>2. CASE renders[d] # None /\ renders[d].status = "queued"
    <3>1. renders[d] \in RenderRow
      BY <2>2, RowTypes
    <3>2. renders'[d] = [renders[d] EXCEPT !.status = "failed"]
          /\ \A e \in Docs : e # d => renders'[e] = renders[e]
      BY <1>3, <2>2 DEF TailorTimesOut, ResumesTypeOK
    <3>3. renders'[d].run = renders[d].run /\ renders'[d].status = "failed"
      BY <3>1, <3>2 DEF RenderRow
    <3>4. \A e \in Docs :
            \/ renders'[e] = renders[e]
            \/ renders[e] # None /\ renders'[e].run = renders[e].run /\ renders'[e].status = "failed"
      BY <2>2, <3>2, <3>3
    <3> QED
      BY <2>1, <3>4 DEF Quiet
  <2>3. CASE ~(renders[d] # None /\ renders[d].status = "queued")
    BY <1>3, <2>1, <2>3 DEF TailorTimesOut, Quiet
  <2> QED
    BY <2>2, <2>3
<1>4. CASE DeleteRefused
  <2>1. UNCHANGED <<runs, files, artifacts>>
    BY <1>4 DEF DeleteRefused, rowVars
  <2>2. ASSUME NEW d \in Docs
        PROVE  \/ renders'[d] = renders[d]
               \/ renders[d] # None /\ renders'[d].run = renders[d].run
                  /\ renders'[d].status = "failed"
    <3>1. CASE renders[d] # None /\ renders[d].status = "queued"
      <4>1. renders[d] \in RenderRow
        BY <3>1, RowTypes
      <4>2. renders'[d] = [renders[d] EXCEPT !.status = "failed"]
        BY <1>4, <3>1 DEF DeleteRefused
      <4> QED
        BY <3>1, <4>1, <4>2 DEF RenderRow
    <3>2. CASE ~(renders[d] # None /\ renders[d].status = "queued")
      BY <1>4, <3>2 DEF DeleteRefused
    <3> QED
      BY <3>1, <3>2
  <2> QED
    BY <2>1, <2>2 DEF Quiet
<1> QED
  BY <1>1, <1>2, <1>3, <1>4
  DEF Onward, ImportFails, ApproveSource, RemoveReads, TailorEnds, TailorFails,
      ApproveTailored, Crash, resumesVars, rowVars

\* One attempt moves.
Moves(d, r, from, state) ==
  /\ runs[d][r] \in from /\ runs'[d][r] = state
  /\ \A e \in Docs, q \in Runs : e # d \/ q # r => runs'[e][q] = runs[e][q]

LEMMA MovesStep ==
  ASSUME ResumesTypeOK, NEW d \in Docs, NEW r \in Runs, NEW from, NEW state,
         runs[d][r] \in from, runs' = [runs EXCEPT ![d][r] = state]
  PROVE  Moves(d, r, from, state)
  BY DEF Moves, ResumesTypeOK

LEMMA StartMoves ==
  ASSUME ResumesTypeOK, RunInv, NEW d \in Docs, RenderStarts(d)
  PROVE  \E r \in Runs :
           /\ renders[d] # None /\ r = renders[d].run + 1 /\ renders[d].run \in Nat
           /\ renders[d].status \in {"queued", "running"}
           /\ Moves(d, r, {"none"}, "printing")
           /\ renders'[d] = [status |-> "running", run |-> r]
           /\ \A e \in Docs : e # d => renders'[e] = renders[e]
           /\ UNCHANGED <<rowVars, docs, files>>
<1>1. renders[d] # None /\ renders[d] \in RenderRow
  BY RowTypes DEF RenderStarts
<1>2. PICK r : r = renders[d].run + 1
  OBVIOUS
<1>3. r \in Runs /\ renders[d].run \in Nat
  BY <1>1, <1>2, ResumesAssumption DEF RenderStarts, RenderRow, Runs
<1>4. runs[d][r] = "none"
  BY <1>1, <1>2, <1>3 DEF RunInv
<1>5. Moves(d, r, {"none"}, "printing")
  BY <1>2, <1>3, <1>4 DEF RenderStarts, Moves, ResumesTypeOK
<1>6. /\ renders'[d] = [status |-> "running", run |-> r]
      /\ \A e \in Docs : e # d => renders'[e] = renders[e]
  BY <1>2 DEF RenderStarts, ResumesTypeOK
<1> QED
  BY <1>1, <1>2, <1>3, <1>5, <1>6 DEF RenderStarts

\* What an attempt's step does to its document's row.
LEMMA AttemptRows ==
  ASSUME ResumesTypeOK, NEW d \in Docs, NEW r \in Runs, RenderEnds(d, r) \/ RenderStops(d, r)
  PROVE  /\ \A e \in Docs : e # d => renders'[e] = renders[e]
         /\ \/ renders'[d] = renders[d]
            \/ /\ renders[d] # None /\ renders[d].run = r /\ renders'[d].run = r
               /\ renders'[d].status = "completed" => RenderEnds(d, r)
<1>1. CASE renders' = renders
  BY <1>1
<1>2. ASSUME Holds(d, r), NEW status \in {"completed", "queued", "failed"},
             renders' = [renders EXCEPT ![d].status = status]
      PROVE  /\ \A e \in Docs : e # d => renders'[e] = renders[e]
             /\ renders[d] # None /\ renders[d].run = r /\ renders'[d].run = r
             /\ renders'[d].status = status
  <2>1. renders[d] # None /\ renders[d] = [status |-> "running", run |-> r]
    BY <1>2 DEF Holds
  <2>2. renders'[d] = [renders[d] EXCEPT !.status = status]
    BY <1>2 DEF ResumesTypeOK
  <2> QED
    BY <1>2, <2>1, <2>2 DEF ResumesTypeOK
<1>3. CASE RenderEnds(d, r)
  BY <1>1, <1>2, <1>3 DEF RenderEnds
<1>4. CASE RenderStops(d, r)
  BY <1>1, <1>2, <1>4 DEF RenderStops
<1> QED
  BY <1>3, <1>4

LEMMA RunsStep ==
  ASSUME ResumesTypeOK, ImportInv, DocsInv, RunInv, RemovalInv, [ResumesNext]_resumesVars
  PROVE  RunInv'
<1>0. \A d \in Docs, e \in Docs, r \in Runs, q \in Runs :
        Rendered(d, r) = Rendered(e, q) => d = e /\ r = q
  BY DEF Rendered
<1>1. CASE Quiet
  BY <1>1 DEF Quiet, RunInv
<1>2. ASSUME NEW d \in Docs, RenderStarts(d)
      PROVE  RunInv'
  <2>1. PICK r \in Runs :
           /\ renders[d] # None /\ r = renders[d].run + 1 /\ renders[d].run \in Nat
           /\ Moves(d, r, {"none"}, "printing")
           /\ renders'[d] = [status |-> "running", run |-> r]
           /\ \A e \in Docs : e # d => renders'[e] = renders[e]
           /\ UNCHANGED <<rowVars, docs, files>>
    BY <1>2, StartMoves
  <2>2. UNCHANGED <<files, artifacts>> /\ Rendered(d, r) \notin artifacts
    BY <2>1 DEF rowVars, Moves, RunInv
  <2>3. \A q \in Runs : renders'[d].run < q => runs'[d][q] = "none"
    BY <2>1 DEF Moves, RunInv, Runs
  <2> QED
    BY <2>1, <2>2, <2>3 DEF Moves, RunInv
<1>3. ASSUME NEW d \in Docs, NEW r \in Runs, Prints(d, r)
      PROVE  RunInv'
  <2>1. Moves(d, r, {"printing"}, "printed")
    BY <1>3 DEF Prints, Moves, ResumesTypeOK
  <2>2. files' = files \cup {Rendered(d, r)} /\ UNCHANGED <<renders, artifacts>>
    BY <1>3 DEF Prints, rowVars
  <2> QED
    BY <2>1, <2>2 DEF Moves, RunInv
<1>4. ASSUME NEW d \in Docs, NEW r \in Runs, SavesRows(d, r)
      PROVE  RunInv'
  <2>1. Moves(d, r, {"printed"}, "saved")
    BY <1>4 DEF SavesRows, Moves, ResumesTypeOK
  <2>2. artifacts' = artifacts \cup {Rendered(d, r)} /\ UNCHANGED <<renders, files>>
    BY <1>4 DEF SavesRows
  <2> QED
    BY <1>0, <2>1, <2>2 DEF Moves, RunInv
<1>5. ASSUME NEW d \in Docs, NEW r \in Runs, RenderEnds(d, r) \/ RenderStops(d, r)
      PROVE  RunInv'
  <2>1. Moves(d, r, {"printing", "printed", "saved"}, "ended")
    BY <1>5, MovesStep DEF RenderEnds, RenderStops
  <2>2. UNCHANGED <<files, artifacts>>
    BY <1>5 DEF RenderEnds, RenderStops, rowVars
  <2>3. \A e \in Docs : \/ renders'[e] = renders[e]
                        \/ renders[e] # None /\ renders'[e].run = renders[e].run
    BY <1>5, AttemptRows
  <2>4. \A e \in Docs, q \in Runs :
          renders[e] # None /\ renders[e].run < q => runs'[e][q] = "none"
    BY <2>1 DEF Moves, RunInv
  <2> QED
    BY <2>1, <2>2, <2>3, <2>4 DEF Moves, RunInv
<1>6. CASE RemoveCommits
  <2>1. PICK n \in Imports : n = removal.resume
    BY <1>6 DEF RemoveCommits, ResumesTypeOK
  <2>2. \A d \in Docs, r \in Runs :
          runs[d][r] # "ended" => Rendered(d, r) \notin removal.rendered \cup {SourceFile(n)}
    BY <1>0, <1>6 DEF RemoveCommits, RemovalInv, SourceFile, Rendered
  <2>3. /\ artifacts' = artifacts \ (removal.rendered \cup {SourceFile(n)})
        /\ files' = files \/ files' = files \ (removal.rendered \cup {SourceFile(n)})
        /\ UNCHANGED <<runs, renders>>
    BY <1>6, <2>1 DEF RemoveCommits, Sweep
  <2> QED
    BY <2>2, <2>3 DEF RunInv
<1>7. CASE DeleteData
  <2>1. /\ artifacts' = {} /\ UNCHANGED runs /\ \A d \in Docs : renders'[d] = None
        /\ files' = files \/ files' = files \ artifacts
    BY <1>7 DEF DeleteData, Sweep
  <2> QED
    BY <2>1 DEF RunInv
<1>8. ASSUME NEW n \in Imports, NEW j \in Jobs, NEW k \in Keys \cup {None}, Tailor(n, j, k)
      PROVE  RunInv'
  <2>1. PICK d \in Docs : Makes(d, n, j, k)
    BY <1>8, TailorMakes
  <2>2. UNCHANGED <<runs, files, artifacts>>
    BY <1>8 DEF Tailor
  <2>3. \A r \in Runs : runs[d][r] = "none"
    BY <2>1 DEF Makes, DocsInv
  <2> QED
    BY <2>1, <2>2, <2>3 DEF Makes, RunInv
<1> QED
  BY <1>1, <1>2, <1>3, <1>4, <1>5, <1>6, <1>7, <1>8, TwoKinds, QuietSteps

LEMMA EndedStays ==
  ASSUME ResumesTypeOK, RunInv, [ResumesNext]_resumesVars, NEW d \in Docs, NEW r \in Runs,
         runs[d][r] = "ended"
  PROVE  runs'[d][r] = "ended"
<1>1. CASE UNCHANGED runs
  BY <1>1
<1>2. ASSUME NEW e \in Docs, NEW q \in Runs, NEW from, NEW state, Moves(e, q, from, state),
             "ended" \notin from
      PROVE  runs'[d][r] = "ended"
  BY <1>2 DEF Moves
<1>3. ASSUME NEW e \in Docs, RenderStarts(e)
      PROVE  runs'[d][r] = "ended"
  BY <1>2, <1>3, StartMoves
<1>4. ASSUME NEW e \in Docs, NEW q \in Runs,
             Prints(e, q) \/ SavesRows(e, q) \/ RenderEnds(e, q) \/ RenderStops(e, q)
      PROVE  runs'[d][r] = "ended"
  <2>1. \E state : Moves(e, q, {"printing", "printed", "saved"}, state)
    BY <1>4, MovesStep DEF Prints, SavesRows, RenderEnds, RenderStops
  <2> QED
    BY <1>2, <2>1
<1>5. CASE RemoveCommits \/ DeleteData
  BY <1>1, <1>5 DEF RemoveCommits, DeleteData
<1>6. ASSUME NEW n \in Imports, NEW j \in Jobs, NEW k \in Keys \cup {None}, Tailor(n, j, k)
      PROVE  runs'[d][r] = "ended"
  BY <1>1, <1>6 DEF Tailor
<1> QED
  BY <1>1, <1>3, <1>4, <1>5, <1>6, TwoKinds, QuietSteps DEF Quiet

LEMMA DocsStep ==
  ASSUME ResumesTypeOK, ImportInv, DocsInv, RunInv, [ResumesNext]_resumesVars
  PROVE  DocsInv'
<1>0. \A d \in Docs : d \in Nat /\ 1..(d - 1) \subseteq Docs
  BY ResumesAssumption DEF Docs
<1>1. CASE Onward
  <2>1. ASSUME NEW d \in Docs, docs[d] = None
        PROVE  renders'[d] = None
    <3>1. renders[d] = None
      BY <2>1 DEF DocsInv
    <3>2. CASE Quiet
      BY <3>1, <3>2 DEF Quiet
    <3>3. ASSUME NEW e \in Docs, RenderStarts(e)
          PROVE  renders'[d] = None
      BY <3>1, <3>3, StartMoves
    <3>4. ASSUME NEW e \in Docs, NEW r \in Runs, RenderEnds(e, r) \/ RenderStops(e, r)
          PROVE  renders'[d] = None
      BY <3>1, <3>4, AttemptRows
    <3>5. ASSUME NEW e \in Docs, NEW r \in Runs, Prints(e, r) \/ SavesRows(e, r)
          PROVE  renders'[d] = None
      BY <3>1, <3>5 DEF Prints, SavesRows
    <3>6. CASE RemoveCommits \/ DeleteData
      BY <3>1, <3>6 DEF RemoveCommits, DeleteData
    <3> QED
      BY <1>1, <3>2, <3>3, <3>4, <3>5, <3>6, QuietSteps
  <2>2. ASSUME NEW d \in Docs, docs[d] = None
        PROVE  tailored'[d] = None
    <3>1. tailored[d] = None
      BY <2>2 DEF DocsInv
    <3> QED
      BY <1>1, <3>1
      DEF Onward, ImportStarts, ImportFails, ImportEnds, ApproveSource, RemoveReads, TailorEnds,
          TailorFails, TailorTimesOut, ApproveTailored, RenderStarts, Prints, SavesRows, RenderEnds,
          RenderStops, RemoveCommits, DeleteRefused, DeleteData, Crash, resumesVars, rowVars,
          ResumesTypeOK
  <2>3. ASSUME NEW d \in Docs, docs[d] = None, NEW r \in Runs
        PROVE  runs'[d][r] = "none"
    <3>1. runs[d][r] = "none" /\ renders[d] = None
      BY <2>3 DEF DocsInv
    <3>2. CASE UNCHANGED runs
      BY <3>1, <3>2
    <3>3. ASSUME NEW e \in Docs, RenderStarts(e)
          PROVE  runs'[d][r] = "none"
      BY <3>1, <3>3, StartMoves DEF Moves
    <3>4. ASSUME NEW e \in Docs, NEW q \in Runs,
                 Prints(e, q) \/ SavesRows(e, q) \/ RenderEnds(e, q) \/ RenderStops(e, q)
          PROVE  runs'[d][r] = "none"
      <4>1. \E state : Moves(e, q, {"printing", "printed", "saved"}, state)
        BY <3>4, MovesStep DEF Prints, SavesRows, RenderEnds, RenderStops
      <4> QED
        BY <3>1, <4>1 DEF Moves
    <3> QED
      BY <1>1, <3>2, <3>3, <3>4, QuietSteps DEF Quiet, RemoveCommits, DeleteData
  <2>4. \A d \in Docs : docs[d] = None <=> docs'[d] = None
    BY <1>1, DocsKept
  <2> QED
    BY <1>0, <2>1, <2>2, <2>3, <2>4 DEF DocsInv
<1>2. ASSUME NEW n \in Imports, NEW j \in Jobs, NEW k \in Keys \cup {None}, Tailor(n, j, k)
      PROVE  DocsInv'
  <2>1. PICK d \in Docs : Makes(d, n, j, k)
    BY <1>2, TailorMakes
  <2>2. UNCHANGED runs
    BY <1>2 DEF Tailor
  <2>3. \A e \in Docs : docs[e] # None => docs'[e] # None
    BY <2>1 DEF Makes
  <2>4. \A e \in Docs : e # d /\ tailored[e] = None => tailored'[e] = None
    BY <2>1 DEF Makes, SaveTailored
  <2> QED
    BY <1>0, <2>1, <2>2, <2>3, <2>4 DEF Makes, DocsInv
<1> QED
  BY <1>1, <1>2, TwoKinds

-----------------------------------------------------------------------------
(* What is attached, and what a removal has read. *)

\* Rows of rendered artifacts go only with what names them.
LEMMA RowsStay ==
  ASSUME ResumesTypeOK, RunInv, [ResumesNext]_resumesVars, ~RemoveCommits, ~DeleteData,
         NEW d \in Docs, NEW r \in Runs, Rendered(d, r) \in artifacts
  PROVE  Rendered(d, r) \in artifacts'
<1>1. CASE UNCHANGED artifacts
  BY <1>1
<1>2. CASE Quiet
  BY <1>2 DEF Quiet
<1>3. ASSUME NEW e \in Docs, NEW q \in Runs, SavesRows(e, q)
      PROVE  Rendered(d, r) \in artifacts'
  BY <1>3 DEF SavesRows
<1> QED
  BY <1>1, <1>2, <1>3, TwoKinds, QuietSteps
  DEF RenderStarts, Prints, RenderEnds, RenderStops, Tailor, rowVars

\* The rows of tailored resumes: a tailoring takes one over, an operation attaches what was
\* rendered, and everything else keeps what is attached or drops the row.
AttachedTo(d) ==
  /\ TailorEnds(d)
  /\ tailored'[d].pdf = renders[d].run /\ tailored'[d].approved = tailored[d].approved
  /\ \A e \in Docs : e # d => tailored'[e] = tailored[e]
KeepsRow(d) ==
  tailored'[d] # None => /\ tailored[d] # None /\ tailored'[d].pdf = tailored[d].pdf
                         /\ tailored'[d].approved => tailored[d].approved \/ d \in consented'

LEMMA TailoredRows ==
  ASSUME ResumesTypeOK, Onward
  PROVE  \/ \A d \in Docs : KeepsRow(d)
         \/ \E d \in Docs : AttachedTo(d)
<1>1. CASE UNCHANGED tailored
  BY <1>1 DEF KeepsRow
<1>2. ASSUME NEW d \in Docs, ApproveTailored(d), NEW e \in Docs
      PROVE  KeepsRow(e)
  <2>1. tailored[d] # None /\ tailored[d] \in TailoredRow
    BY <1>2, RowTypes DEF ApproveTailored
  <2>2. tailored'[d] = [tailored[d] EXCEPT !.approved = TRUE]
    BY <1>2 DEF ApproveTailored, ResumesTypeOK
  <2>3. tailored'[d].pdf = tailored[d].pdf
    BY <2>1, <2>2 DEF TailoredRow
  <2>4. d \in consented' /\ (e # d => tailored'[e] = tailored[e])
    BY <1>2 DEF ApproveTailored, ResumesTypeOK
  <2> QED
    BY <2>1, <2>3, <2>4 DEF KeepsRow
<1>3. ASSUME NEW d \in Docs, TailorEnds(d)
      PROVE  (\A e \in Docs : KeepsRow(e)) \/ AttachedTo(d)
  <2>1. CASE tailored[d] = None
    BY <1>3, <2>1 DEF TailorEnds, KeepsRow
  <2>2. CASE tailored[d] # None
    <3>1. tailored[d] \in TailoredRow
      BY <2>2, RowTypes
    <3>2. /\ tailored'[d] = [tailored[d] EXCEPT !.pdf = renders[d].run]
          /\ \A e \in Docs : e # d => tailored'[e] = tailored[e]
      BY <1>3, <2>2 DEF TailorEnds, ResumesTypeOK
    <3>3. tailored'[d].pdf = renders[d].run /\ tailored'[d].approved = tailored[d].approved
      BY <3>1, <3>2 DEF TailoredRow
    <3> QED
      BY <1>3, <3>2, <3>3 DEF AttachedTo
  <2> QED
    BY <2>1, <2>2
<1>4. CASE RemoveCommits \/ DeleteData
  BY <1>4 DEF RemoveCommits, DeleteData, KeepsRow
<1> QED
  BY <1>1, <1>2, <1>3, <1>4
  DEF Onward, ImportStarts, ImportFails, ImportEnds, ApproveSource, RemoveReads, TailorFails,
      TailorTimesOut, RenderStarts, Prints, SavesRows, RenderEnds, RenderStops, DeleteRefused,
      Crash, resumesVars, rowVars

LEMMA PdfType ==
  ASSUME ResumesTypeOK, NEW d \in Docs, tailored[d] # None, tailored[d].pdf # 0
  PROVE  tailored[d].pdf \in Runs
  BY RowTypes, ResumesAssumption DEF TailoredRow, Runs

\* A row that is completed was completed by the attempt that saved its artifacts.
LEMMA CompletedRow ==
  ASSUME ResumesTypeOK, RunInv, AttachInv, RemovalInv, Onward, NEW d \in Docs,
         Waiting(d)', renders'[d] # None, renders'[d].status = "completed"
  PROVE  /\ renders'[d].run \in Runs /\ Rendered(d, renders'[d].run) \in artifacts'
         /\ runs'[d][renders'[d].run] = "ended"
<1>1. Waiting(d) /\ [ResumesNext]_resumesVars
  BY DocsKept DEF Onward, ResumesNext
<1>2. CASE renders'[d] = renders[d]
  <2>1. PICK r \in Runs : /\ r = renders[d].run /\ Rendered(d, r) \in artifacts
                          /\ runs[d][r] = "ended"
    BY <1>1, <1>2 DEF AttachInv
  <2>2. runs'[d][r] = "ended"
    BY <1>1, <2>1, EndedStays
  <2>3. Rendered(d, r) \in artifacts'
    <3>1. CASE RemoveCommits
      <4>1. \A e \in Docs, q \in Runs : Rendered(d, r) = Rendered(e, q) => e = d
        BY DEF Rendered
      <4>2. Rendered(d, r) \notin removal.rendered
        BY <1>1, <3>1, <4>1 DEF RemoveCommits, RemovalInv
      <4>3. Rendered(d, r) # SourceFile(removal.resume)
        BY DEF Rendered, SourceFile
      <4> QED
        BY <2>1, <3>1, <4>2, <4>3 DEF RemoveCommits
    <3>2. CASE DeleteData
      BY <3>2 DEF DeleteData
    <3> QED
      BY <1>1, <2>1, <3>1, <3>2, RowsStay
  <2> QED
    BY <1>2, <2>1, <2>2, <2>3
<1>3. CASE renders'[d] # renders[d]
  <2>1. CASE Quiet
    BY <1>3, <2>1 DEF Quiet
  <2>2. ASSUME NEW e \in Docs, RenderStarts(e)
        PROVE  FALSE
    <3>1. PICK r : /\ renders'[e] = [status |-> "running", run |-> r]
                   /\ \A c \in Docs : c # e => renders'[c] = renders[c]
      BY <2>2, StartMoves
    <3>2. renders'[e].status = "running"
      BY <3>1
    <3> QED
      BY <1>3, <3>1, <3>2
  <2>3. ASSUME NEW e \in Docs, NEW r \in Runs, RenderEnds(e, r) \/ RenderStops(e, r)
        PROVE  /\ renders'[d].run \in Runs /\ Rendered(d, renders'[d].run) \in artifacts'
               /\ runs'[d][renders'[d].run] = "ended"
    <3>1. e = d /\ renders[d] # None /\ renders'[d].run = r /\ RenderEnds(d, r)
      BY <1>3, <2>3, AttemptRows
    <3>2. Rendered(d, r) \in artifacts
      BY <3>1 DEF RenderEnds, RunInv
    <3>3. artifacts' = artifacts /\ runs'[d][r] = "ended"
      BY <3>1 DEF RenderEnds, rowVars, ResumesTypeOK
    <3> QED
      BY <3>1, <3>2, <3>3
  <2>4. ASSUME NEW e \in Docs, NEW r \in Runs, Prints(e, r) \/ SavesRows(e, r)
        PROVE  FALSE
    BY <1>3, <2>4 DEF Prints, SavesRows
  <2>5. CASE RemoveCommits \/ DeleteData
    BY <1>3, <2>5 DEF RemoveCommits, DeleteData
  <2> QED
    BY <2>1, <2>2, <2>3, <2>4, <2>5, QuietSteps
<1> QED
  BY <1>2, <1>3

LEMMA AttachStep ==
  ASSUME ResumesTypeOK, ImportInv, DocsInv, RunInv, AttachInv, RemovalInv,
         [ResumesNext]_resumesVars
  PROVE  AttachInv'
<1>1. CASE Onward
  <2>1. ASSUME NEW d \in Docs, tailored'[d] # None
        PROVE  /\ Waiting(d)' => tailored'[d].pdf = 0
               /\ tailored'[d].pdf # 0 => runs'[d][tailored'[d].pdf] = "ended"
    <3>1. CASE KeepsRow(d)
      <4>1. tailored[d] # None /\ tailored'[d].pdf = tailored[d].pdf
        BY <2>1, <3>1 DEF KeepsRow
      <4>2. Waiting(d)' => Waiting(d)
        BY <1>1, DocsKept
      <4>3. tailored[d].pdf # 0 => tailored[d].pdf \in Runs /\ runs[d][tailored[d].pdf] = "ended"
        BY <4>1, PdfType DEF AttachInv
      <4> QED
        BY <4>1, <4>2, <4>3, EndedStays DEF AttachInv
    <3>2. CASE AttachedTo(d)
      <4>1. Waiting(d) /\ ~Waiting(d)' /\ tailored'[d].pdf = renders[d].run /\ UNCHANGED runs
        BY <3>2 DEF AttachedTo, TailorEnds, Waiting, ResumesTypeOK, Document
      <4>2. runs[d][renders[d].run] = "ended"
        BY <3>2, <4>1 DEF AttachedTo, TailorEnds, AttachInv
      <4> QED
        BY <4>1, <4>2
    <3>3. ASSUME NEW e \in Docs, e # d, AttachedTo(e)
          PROVE  KeepsRow(d)
      BY <2>1, <3>3 DEF AttachedTo, KeepsRow
    <3> QED
      BY <1>1, <3>1, <3>2, <3>3, TailoredRows
  <2>2. \A d \in Docs : Waiting(d)' /\ renders'[d] # None =>
           (renders'[d].status = "completed" =>
              /\ renders'[d].run \in Runs /\ Rendered(d, renders'[d].run) \in artifacts'
              /\ runs'[d][renders'[d].run] = "ended")
    BY <1>1, CompletedRow
  <2> QED
    BY <2>1, <2>2 DEF AttachInv
<1>2. ASSUME NEW n \in Imports, NEW j \in Jobs, NEW k \in Keys \cup {None}, Tailor(n, j, k)
      PROVE  AttachInv'
  <2>1. PICK d \in Docs : Makes(d, n, j, k)
    BY <1>2, TailorMakes
  <2>2. UNCHANGED <<runs, artifacts>>
    BY <1>2 DEF Tailor
  <2>3. /\ tailored'[d].pdf = 0
        /\ \A e \in Docs : e # d => tailored'[e] = tailored[e] \/ tailored'[e] = None
    BY <2>1 DEF Makes, SaveTailored
  <2>4. \A e \in Docs : e # d => (Waiting(e)' <=> Waiting(e))
    BY <2>1 DEF Makes, Waiting
  <2> QED
    BY <2>1, <2>2, <2>3, <2>4 DEF Makes, AttachInv
<1> QED
  BY <1>1, <1>2, TwoKinds

LEMMA RemovalStep ==
  ASSUME ResumesTypeOK, ImportInv, DocsInv, RunInv, AttachInv, RemovalInv,
         [ResumesNext]_resumesVars
  PROVE  RemovalInv'
<1>1. ASSUME NEW n \in Imports, RemoveReads(n)
      PROVE  RemovalInv'
  <2>1. /\ sources[n] # None /\ UNCHANGED <<drawn, imports, docs, runs, tailored>>
        /\ removal' = [resume |-> n, rendered |-> {Rendered(d, tailored[d].pdf) :
                          d \in {e \in RowsOf(n) : tailored[e].pdf # 0}}]
    BY <1>1 DEF RemoveReads, rowVars
  <2>2. n <= drawn /\ imports[n] = None
    BY <2>1 DEF ImportInv
  <2>3. ASSUME NEW d \in RowsOf(n), tailored[d].pdf # 0
        PROVE  /\ d \in Docs /\ tailored[d].pdf \in Runs /\ runs[d][tailored[d].pdf] = "ended"
               /\ docs[d] # None /\ ~Waiting(d) /\ docs[d].resume = n
    BY <2>3, PdfType DEF RowsOf, AttachInv, DocsInv
  <2>4. removal'.resume = n /\ removal'.rendered = {Rendered(d, tailored[d].pdf) :
                          d \in {e \in RowsOf(n) : tailored[e].pdf # 0}}
    BY <2>1
  <2>5. \A x \in removal'.rendered : \E d \in Docs, r \in Runs :
          /\ x = Rendered(d, r) /\ runs[d][r] = "ended"
          /\ docs[d] # None /\ ~Waiting(d) /\ docs[d].resume = n
    BY <2>3, <2>4
  <2> QED
    BY <2>1, <2>2, <2>4, <2>5 DEF RemovalInv, Waiting
<1>2. CASE removal' = None
  BY <1>2 DEF RemovalInv
<1>3. CASE removal' = removal /\ removal # None
  <2> DEFINE n == removal.resume
  <2>1. n \in Imports /\ n <= drawn /\ imports[n] = None
    BY <1>3 DEF RemovalInv, ResumesTypeOK
  <2>2. n <= drawn' /\ imports'[n] = None
    <3>1. CASE UNCHANGED <<drawn, imports>>
      BY <2>1, <3>1
    <3>2. ASSUME NEW m \in Imports, NEW c \in Contents, ImportStarts(m, c)
          PROVE  n <= drawn' /\ imports'[n] = None
      BY <2>1, <3>2, ResumesAssumption DEF ImportStarts, Imports, ResumesTypeOK
    <3>3. ASSUME NEW m \in Imports, ImportFails(m) \/ ImportEnds(m)
          PROVE  n <= drawn' /\ imports'[n] = None
      BY <2>1, <3>3 DEF ImportFails, ImportEnds, ResumesTypeOK
    <3>4. CASE Crash
      BY <2>1, <3>4 DEF Crash
    <3> QED
      BY <3>1, <3>2, <3>3, <3>4
      DEF ResumesNext, ApproveSource, RemoveReads, Tailor, TailorEnds, TailorFails, TailorTimesOut,
          ApproveTailored, RenderStarts, Prints, SavesRows, RenderEnds, RenderStops, RemoveCommits,
          DeleteRefused, DeleteData, resumesVars
  <2>3. ASSUME NEW d \in Docs, docs[d] # None, ~Waiting(d)
        PROVE  docs'[d] # None /\ ~Waiting(d)' /\ docs'[d].resume = docs[d].resume
    <3>1. CASE Onward
      BY <2>3, <3>1, DocsKept
    <3>2. ASSUME NEW m \in Imports, NEW j \in Jobs, NEW k \in Keys \cup {None}, Tailor(m, j, k)
          PROVE  docs'[d] = docs[d]
      BY <2>3, <3>2, TailorMakes DEF Makes
    <3> QED
      BY <2>3, <3>1, <3>2, TwoKinds DEF Waiting
  <2>4. \A d \in Docs, r \in Runs : runs[d][r] = "ended" => runs'[d][r] = "ended"
    BY EndedStays
  <2>5. \A x \in removal.rendered : \E d \in Docs, r \in Runs :
          /\ x = Rendered(d, r) /\ runs[d][r] = "ended"
          /\ docs[d] # None /\ ~Waiting(d) /\ docs[d].resume = removal.resume
    BY <1>3 DEF RemovalInv
  <2>6. \A x \in removal.rendered : \E d \in Docs, r \in Runs :
          /\ x = Rendered(d, r) /\ runs'[d][r] = "ended"
          /\ docs'[d] # None /\ ~Waiting(d)' /\ docs'[d].resume = removal.resume
    BY <2>3, <2>4, <2>5
  <2> QED
    BY <1>3, <2>2, <2>6 DEF RemovalInv
<1>4. \/ removal' \in {removal, None}
      \/ \E n \in Imports : RemoveReads(n)
  BY DEF ResumesNext, ImportStarts, ImportFails, ImportEnds, ApproveSource, Tailor, TailorEnds,
         TailorFails, TailorTimesOut, ApproveTailored, RenderStarts, Prints, SavesRows, RenderEnds,
         RenderStops, RemoveCommits, DeleteRefused, DeleteData, Crash, resumesVars
<1> QED
  BY <1>1, <1>2, <1>3, <1>4

-----------------------------------------------------------------------------
(* Every row has its file. *)

LEMMA FilesStep ==
  ASSUME ResumesTypeOK, ImportInv, DocsInv, RunInv, AttachInv, RemovalInv, RowsHaveFiles,
         ImportInv', [ResumesNext]_resumesVars
  PROVE  RowsHaveFiles'
<1>1. artifacts' \subseteq files'
  <2>1. CASE UNCHANGED <<files, artifacts>>
    BY <2>1 DEF RowsHaveFiles
  <2>2. ASSUME NEW n \in Imports, NEW c \in Contents, ImportStarts(n, c)
        PROVE  artifacts' \subseteq files'
    BY <2>2 DEF ImportStarts, rowVars, RowsHaveFiles
  <2>3. ASSUME NEW n \in Imports, ImportEnds(n)
        PROVE  artifacts' \subseteq files'
    BY <2>3 DEF ImportEnds, ImportInv, RowsHaveFiles
  <2>4. ASSUME NEW d \in Docs, NEW r \in Runs, Prints(d, r)
        PROVE  artifacts' \subseteq files'
    BY <2>4 DEF Prints, rowVars, RowsHaveFiles
  <2>5. ASSUME NEW d \in Docs, NEW r \in Runs, SavesRows(d, r)
        PROVE  artifacts' \subseteq files'
    BY <2>5 DEF SavesRows, RunInv, RowsHaveFiles
  <2>6. CASE RemoveCommits \/ DeleteData
    BY <2>6 DEF RemoveCommits, DeleteData, Sweep, RowsHaveFiles
  <2> QED
    BY <2>1, <2>2, <2>3, <2>4, <2>5, <2>6
    DEF ResumesNext, ImportFails, ApproveSource, RemoveReads, Tailor, TailorEnds, TailorFails,
        TailorTimesOut, ApproveTailored, RenderStarts, RenderEnds, RenderStops, DeleteRefused,
        Crash, rowVars, resumesVars
<1>2. \A n \in Imports : sources'[n] # None => SourceFile(n) \in artifacts'
  BY DEF ImportInv
<1>3. ASSUME NEW d \in Docs, tailored'[d] # None, tailored'[d].pdf # 0
      PROVE  Rendered(d, tailored'[d].pdf) \in artifacts'
  <2>1. ASSUME KeepsRow(d), ~RemoveCommits, ~DeleteData
        PROVE  Rendered(d, tailored'[d].pdf) \in artifacts'
    <3>1. tailored[d] # None /\ tailored'[d].pdf = tailored[d].pdf
      BY <1>3, <2>1 DEF KeepsRow
    <3>2. tailored[d].pdf \in Runs /\ Rendered(d, tailored[d].pdf) \in artifacts
      BY <1>3, <3>1, PdfType DEF RowsHaveFiles
    <3> QED
      BY <2>1, <3>1, <3>2, RowsStay
  <2>2. CASE AttachedTo(d)
    <3>1. Waiting(d) /\ renders[d] # None /\ renders[d].status = "completed"
          /\ tailored'[d].pdf = renders[d].run /\ UNCHANGED artifacts
      BY <2>2 DEF AttachedTo, TailorEnds
    <3> QED
      BY <3>1 DEF AttachInv
  <2>3. CASE RemoveCommits
    <3>1. d \notin RowsOf(removal.resume) /\ tailored'[d] = tailored[d]
          /\ artifacts' = artifacts \ (removal.rendered \cup {SourceFile(removal.resume)})
      BY <1>3, <2>3 DEF RemoveCommits
    <3>2. Rendered(d, tailored[d].pdf) \in artifacts /\ tailored[d].pdf \in Runs
      BY <1>3, <3>1, PdfType DEF RowsHaveFiles
    <3>3. docs[d].resume # removal.resume
      BY <1>3, <3>1 DEF RowsOf
    <3>4. \A e \in Docs, r \in Runs : Rendered(d, tailored[d].pdf) = Rendered(e, r) => e = d
      BY DEF Rendered
    <3>5. Rendered(d, tailored[d].pdf) \notin removal.rendered
      BY <2>3, <3>3, <3>4 DEF RemoveCommits, RemovalInv
    <3>6. Rendered(d, tailored[d].pdf) # SourceFile(removal.resume)
      BY DEF Rendered, SourceFile
    <3> QED
      BY <3>1, <3>2, <3>5, <3>6
  <2>4. CASE DeleteData
    BY <1>3, <2>4 DEF DeleteData
  <2>5. ASSUME NEW n \in Imports, NEW j \in Jobs, NEW k \in Keys \cup {None}, Tailor(n, j, k)
        PROVE  Rendered(d, tailored'[d].pdf) \in artifacts'
    <3>1. PICK e \in Docs : Makes(e, n, j, k)
      BY <2>5, TailorMakes
    <3>2. d # e /\ tailored'[d] = tailored[d]
      BY <1>3, <3>1 DEF Makes, SaveTailored
    <3> QED
      BY <1>3, <2>5, <3>2 DEF RowsHaveFiles, Tailor
  <2>6. ASSUME NEW e \in Docs, e # d, AttachedTo(e)
        PROVE  KeepsRow(d)
    BY <2>6 DEF AttachedTo, KeepsRow
  <2> QED
    BY <2>1, <2>2, <2>3, <2>4, <2>5, <2>6, TwoKinds, TailoredRows
<1> QED
  BY <1>1, <1>2, <1>3 DEF RowsHaveFiles

-----------------------------------------------------------------------------
(* An approval is for the document that was shown. *)

LEMMA ApprovalStep ==
  ASSUME ResumesTypeOK, ImportInv, DocsInv, ApprovedAsShown, [ResumesNext]_resumesVars
  PROVE  ApprovedAsShown'
<1>1. consented \subseteq consented'
  BY DEF ResumesNext, ImportStarts, ImportFails, ImportEnds, ApproveSource, RemoveReads, Tailor,
         TailorEnds, TailorFails, TailorTimesOut, ApproveTailored, RenderStarts, Prints, SavesRows,
         RenderEnds, RenderStops, RemoveCommits, DeleteRefused, DeleteData, Crash, resumesVars
<1>2. CASE Onward
  <2>1. ASSUME NEW d \in Docs, tailored'[d] # None
        PROVE  /\ tailored[d] # None /\ docs[d] # None
               /\ tailored'[d].approved => d \in consented'
    <3>1. CASE KeepsRow(d)
      BY <1>1, <2>1, <3>1 DEF KeepsRow, ApprovedAsShown, DocsInv
    <3>2. ASSUME NEW e \in Docs, AttachedTo(e)
          PROVE  tailored[d] # None /\ (tailored'[d].approved => d \in consented')
      <4>1. tailored'[d] = tailored[d] \/ (d = e /\ tailored'[d].approved = tailored[d].approved)
        BY <3>2 DEF AttachedTo
      <4>2. tailored[d] # None
        BY <2>1, <3>2, <4>1 DEF AttachedTo, TailorEnds
      <4> QED
        BY <1>1, <4>1, <4>2 DEF ApprovedAsShown
    <3> QED
      BY <1>2, <3>1, <3>2, TailoredRows DEF DocsInv
  <2>2. \A d \in Docs : docs[d] # None =>
          /\ docs'[d] # None
          /\ docs'[d].resume = docs[d].resume /\ docs'[d].snapshot = docs[d].snapshot
          /\ docs'[d].job = docs[d].job
    BY <1>2, DocsKept
  <2> QED
    BY <2>1, <2>2 DEF ApprovedAsShown, SameSlot
<1>3. ASSUME NEW n \in Imports, NEW j \in Jobs, NEW k \in Keys \cup {None}, Tailor(n, j, k)
      PROVE  ApprovedAsShown'
  <2>1. PICK d \in Docs : Makes(d, n, j, k)
    BY <1>3, TailorMakes
  <2>2. docs'[d].resume = n /\ docs'[d].snapshot = sources[n].snapshot /\ docs'[d].job = j
    BY <2>1 DEF Makes, Made
  <2>3. tailored'[d] = [approved |-> FALSE, pdf |-> 0]
    BY <2>1 DEF Makes, SaveTailored
  <2>4. \A e \in Docs : e # d /\ tailored'[e] # None =>
          /\ tailored'[e] = tailored[e] /\ docs'[e] = docs[e]
          /\ ~SameSlot(e, n, sources[n].snapshot, j)
    BY <2>1 DEF Makes, SaveTailored
  <2>5. \A e \in Docs : e # d /\ tailored'[e] # None =>
          ~(docs'[e].resume = n /\ docs'[e].snapshot = sources[n].snapshot /\ docs'[e].job = j)
    BY <2>4 DEF SameSlot, DocsInv
  <2> QED
    BY <1>1, <2>2, <2>3, <2>4, <2>5 DEF ApprovedAsShown, SameSlot
<1> QED
  BY <1>2, <1>3, TwoKinds

-----------------------------------------------------------------------------
(* A key makes one document. *)

\* Who gives up a key's record has failed, or all the data is deleted.
LEMMA KeyRecordStays ==
  ASSUME ResumesTypeOK, Onward, ~DeleteData, NEW k \in Keys, keys[k] # None
  PROVE  \/ keys'[k] # None
         \/ \E d \in Docs : Waiting(d) /\ docs[d].key = k /\ docs'[d].outcome = "failed"
<1>1. CASE UNCHANGED keys
  BY <1>1
<1>2. ASSUME NEW d \in Docs, TailorEnds(d)
      PROVE  keys'[k] # None
  <2>1. docs[d].key \in Keys \cup {None}
    BY <1>2, RowTypes DEF TailorEnds, Waiting, Document
  <2>2. CASE keys' = keys
    BY <2>2
  <2>3. CASE docs[d].key = k /\ keys' = [keys EXCEPT ![k].status = "succeeded"]
    <3>1. keys[k] \in KeyRecord
      BY DEF ResumesTypeOK
    <3>2. keys'[k] = [keys[k] EXCEPT !.status = "succeeded"]
      BY <2>3 DEF ResumesTypeOK
    <3>3. keys'[k] \in KeyRecord
      BY <3>1, <3>2 DEF KeyRecord
    <3> QED
      BY <3>3, NoneAssumption
  <2>4. CASE docs[d].key # k /\ docs[d].key \in Keys
             /\ keys' = [keys EXCEPT ![docs[d].key].status = "succeeded"]
    BY <2>4 DEF ResumesTypeOK
  <2> QED
    BY <1>2, <2>1, <2>2, <2>3, <2>4 DEF TailorEnds, Finish
<1>3. ASSUME NEW d \in Docs, TailorFails(d) \/ TailorTimesOut(d), keys'[k] = None
      PROVE  Waiting(d) /\ docs[d].key = k /\ docs'[d].outcome = "failed"
  <2>1. Waiting(d) /\ docs[d] \in Document /\ keys' = Clear(d)
        /\ docs' = [docs EXCEPT ![d].outcome = "failed"]
    BY <1>3, RowTypes DEF TailorFails, TailorTimesOut, Waiting
  <2>2. docs'[d].outcome = "failed"
    BY <2>1 DEF ResumesTypeOK, Document
  <2>3. docs[d].key = k
    BY <1>3, <2>1 DEF Clear, ResumesTypeOK
  <2> QED
    BY <2>1, <2>2, <2>3
<1> QED
  BY <1>1, <1>2, <1>3
  DEF Onward, ImportStarts, ImportFails, ImportEnds, ApproveSource, RemoveReads,
      ApproveTailored, RenderStarts, Prints, SavesRows, RenderEnds, RenderStops, RemoveCommits,
      DeleteRefused, Crash, resumesVars

LEMMA KeyStep ==
  ASSUME ResumesTypeOK, ImportInv, DocsInv, KeyInv, [ResumesNext]_resumesVars
  PROVE  KeyInv'
<1>0. /\ deletions \in Nat /\ deletions' \in {deletions, deletions + 1}
      /\ DeleteData => deletions' = deletions + 1
      /\ ~DeleteData => deletions' = deletions
  <2>1. deletions \in Nat
    BY ResumesAssumption DEF ResumesTypeOK
  <2>2. DeleteData => deletions' = deletions + 1
    BY DEF DeleteData
  <2>3. ~DeleteData => deletions' = deletions
    BY DEF ResumesNext, ImportStarts, ImportFails, ImportEnds, ApproveSource, RemoveReads, Tailor,
           TailorEnds, TailorFails, TailorTimesOut, ApproveTailored, RenderStarts, Prints,
           SavesRows, RenderEnds, RenderStops, RemoveCommits, DeleteRefused, Crash, resumesVars
  <2> QED
    BY <2>1, <2>2, <2>3
<1>1. \A d \in Docs : d \in Nat /\ 1..(d - 1) \subseteq Docs
  BY ResumesAssumption DEF Docs
<1>2. \A d \in Docs : docs[d] # None =>
         docs[d].era \in Nat /\ docs[d].era <= deletions /\ docs[d].key \in Keys \cup {None}
  BY RowTypes, ResumesAssumption DEF KeyInv, Document
<1>3. CASE Onward
  <2>1. \A d \in Docs :
          /\ docs[d] = None <=> docs'[d] = None
          /\ docs[d] # None => /\ docs'[d].key = docs[d].key /\ docs'[d].era = docs[d].era
                               /\ docs[d].outcome = "failed" => docs'[d].outcome = "failed"
    BY <1>3, DocsKept
  <2>2. KeyMakesOneDocument'
    BY <2>1 DEF KeyInv, KeyMakesOneDocument
  <2>3. ASSUME NEW d \in Docs, docs'[d] # None
        PROVE  docs'[d].era <= deletions'
    BY <1>0, <1>2, <2>1, <2>3
  <2>4. ASSUME NEW d \in Docs, docs'[d] # None, deletions' = 0, docs'[d].key # None,
               docs'[d].outcome # "failed"
        PROVE  keys'[docs'[d].key] # None
    <3>1. deletions = 0 /\ ~DeleteData
      BY <1>0, <2>4
    <3>2. PICK k \in Keys : k = docs[d].key /\ k = docs'[d].key /\ keys[k] # None
      BY <1>2, <2>1, <2>4, <3>1 DEF KeyInv
    <3>3. ASSUME NEW e \in Docs, Waiting(e), docs[e].key = k, docs'[e].outcome = "failed"
          PROVE  FALSE
      <4>1. e # d /\ docs[e] # None /\ docs[d] # None
        BY <2>1, <2>4, <3>3 DEF Waiting
      <4>2. docs[e].era = 0 /\ docs[d].era = 0
        BY <1>2, <3>1, <4>1
      <4>3. docs[e].outcome # "failed" /\ docs[d].outcome # "failed"
        BY <2>1, <2>4, <3>3, <4>1 DEF Waiting
      <4>4. docs[e].key = docs[d].key /\ docs[d].key # None
        BY <2>1, <2>4, <3>2, <3>3
      <4>5. e < d \/ d < e
        BY <1>1, <4>1
      <4> QED
        BY <4>1, <4>2, <4>3, <4>4, <4>5 DEF KeyInv, KeyMakesOneDocument
    <3> QED
      BY <1>3, <3>1, <3>2, <3>3, KeyRecordStays
  <2> QED
    BY <2>2, <2>3, <2>4 DEF KeyInv
<1>4. ASSUME NEW n \in Imports, NEW j \in Jobs, NEW k \in Keys \cup {None}, Tailor(n, j, k)
      PROVE  KeyInv'
  <2>1. PICK d \in Docs : Makes(d, n, j, k)
    BY <1>4, TailorMakes
  <2>2. docs'[d].key = k /\ docs'[d].era = deletions
    BY <2>1 DEF Makes, Made
  <2>3. /\ deletions' = deletions
        /\ k # None => keys[k] = None
        /\ k # None => keys'[k] # None
        /\ \A i \in Keys : i # k => keys'[i] = keys[i]
    <3>1. k # None => keys[k] = None
      BY <1>4 DEF Tailor, MayBegin
    <3>2. UNCHANGED deletions
      BY <1>4 DEF Tailor
    <3>3. \A status \in {"running", "succeeded"} : [resume |-> n, job |-> j, status |-> status] # None
      BY NoneAssumption DEF KeyRecord
    <3>4. k # None => keys'[k] # None
      BY <1>4, <3>3 DEF Tailor, ResumesTypeOK
    <3>5. \A i \in Keys : i # k => keys'[i] = keys[i]
      BY <1>4 DEF Tailor, ResumesTypeOK
    <3> QED
      BY <3>1, <3>2, <3>4, <3>5
  <2>4. \A e \in Docs : e # d /\ docs'[e] # None => e < d /\ docs'[e] = docs[e]
    <3>1. ASSUME NEW e \in Docs, docs[e] # None, d < e
          PROVE  FALSE
      <4>1. d \in 1..(e - 1)
        BY <1>1, <3>1, ResumesAssumption DEF Docs
      <4> QED
        BY <2>1, <3>1, <4>1 DEF Makes, DocsInv
    <3> QED
      BY <1>1, <2>1, <3>1 DEF Makes
  <2>5. ASSUME NEW e \in Docs, docs'[e] # None
        PROVE  /\ docs'[e].era <= deletions'
               /\ deletions' = 0 /\ docs'[e].key # None /\ docs'[e].outcome # "failed"
                    => keys'[docs'[e].key] # None
    <3>1. CASE e = d
      BY <1>0, <2>2, <2>3, <3>1
    <3>2. CASE e # d
      <4>1. docs'[e] = docs[e] /\ docs[e] # None
        BY <2>4, <2>5, <3>2
      <4>2. docs[e].era <= deletions /\ docs[e].key \in Keys \cup {None}
        BY <1>2, <4>1
      <4>3. deletions = 0 /\ docs[e].key # None /\ docs[e].outcome # "failed"
              => keys[docs[e].key] # None
        BY <4>1 DEF KeyInv
      <4>4. docs[e].key # None /\ keys[docs[e].key] # None => keys'[docs[e].key] # None
        BY <2>3, <4>2
      <4>5. docs'[e].era <= deletions'
        BY <2>3, <4>1, <4>2
      <4>6. deletions' = 0 /\ docs'[e].key # None /\ docs'[e].outcome # "failed"
              => keys'[docs'[e].key] # None
        BY <2>3, <4>1, <4>3, <4>4
      <4> QED
        BY <4>5, <4>6
    <3> QED
      BY <3>1, <3>2
  <2>6. KeyMakesOneDocument'
    <3>1. SUFFICES ASSUME NEW a \in Docs, NEW b \in Docs, a < b, docs'[a] # None, docs'[b] # None,
                          docs'[a].key = docs'[b].key, docs'[a].key # None, docs'[b].era = 0
                   PROVE  docs'[a].outcome = "failed"
      BY DEF KeyMakesOneDocument
    <3>2. a # d
      <4>1. a \in Nat /\ b \in Nat /\ d \in Nat
        BY <1>1
      <4>2. b # d => b < d
        BY <2>4, <3>1
      <4> QED
        BY <3>1, <4>1, <4>2
    <3>3. docs'[a] = docs[a] /\ docs[a] # None
      BY <2>4, <3>1, <3>2
    <3>4. CASE b = d
      <4>1. deletions = 0
        BY <2>2, <3>1, <3>4
      <4>2. docs[a].key = k /\ k # None
        BY <2>2, <3>1, <3>3, <3>4
      <4>3. keys[k] = None
        BY <2>3, <4>2
      <4>4. docs[a].outcome # "failed" => keys[docs[a].key] # None
        BY <3>3, <4>1, <4>2 DEF KeyInv
      <4> QED
        BY <3>3, <4>2, <4>3, <4>4
    <3>5. CASE b # d
      BY <2>4, <3>1, <3>3, <3>5 DEF KeyInv, KeyMakesOneDocument
    <3> QED
      BY <3>4, <3>5
  <2> QED
    BY <2>5, <2>6 DEF KeyInv
<1> QED
  BY <1>3, <1>4, TwoKinds

-----------------------------------------------------------------------------
(* The theorems. *)

LEMMA ResumesInductive == ResumesSpec => [](ResumesTypeOK /\ IInv)
<1>1. ResumesInit => ResumesTypeOK /\ IInv
  BY InitType, InitInv
<1>2. ResumesTypeOK /\ IInv /\ [ResumesNext]_resumesVars => (ResumesTypeOK /\ IInv)'
  BY TypeStep, ImportsStep, DocsStep, RunsStep, AttachStep, RemovalStep, KeyStep, FilesStep,
     ApprovalStep DEF IInv
<1> QED
  BY <1>1, <1>2, PTL DEF ResumesSpec

\* The types of the rows, the queue and the vault.
THEOREM ResumesTypesCorrect == ResumesSpec => []ResumesTypeOK
  BY ResumesInductive, PTL

\* No process dies, and no removal, import or rendering goes on, in a way that leaves a row
\* without what it names (saveRegisteredResume, attachTailoredResumeArtifacts,
\* removeRegisteredResume).
THEOREM NoRowWithoutFile == ResumesSpec => []RowsHaveFiles
<1>1. IInv => RowsHaveFiles
  BY DEF IInv
<1> QED
  BY <1>1, ResumesInductive, PTL

\* A tailored resume is approved only if the user approved this document, however many
\* tailorings took over its row (saveTailoredResume, approveTailoredResume).
THEOREM ApprovalsAreForOneDocument == ResumesSpec => []ApprovedAsShown
<1>1. IInv => ApprovedAsShown
  BY DEF IInv
<1> QED
  BY <1>1, ResumesInductive, PTL

\* A repeated key makes no second document, whatever crashed and whenever the rendering
\* failed, until the local data is deleted (idempotent).
THEOREM KeysMakeOneDocument == ResumesSpec => []KeyMakesOneDocument
<1>1. IInv => KeyMakesOneDocument
  BY DEF IInv, KeyInv
<1> QED
  BY <1>1, ResumesInductive, PTL
=============================================================================

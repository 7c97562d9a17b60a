------------------------------- MODULE Resumes -------------------------------
(***************************************************************************)
(* Resumes and their files: the import of a source (ResumeVault), its       *)
(* approval and profile snapshots, the tailoring of a resume to a job under *)
(* an idempotency key, the rendering that a worker does for it, and the     *)
(* removal of a resume or of all local data.                                *)
(*                                                                         *)
(* Three processes share the database and the vault of files: the daemon,   *)
(* the command line (`resume add`, `approve`, `remove`), and the worker that *)
(* renders.  A row and its file are written by separate steps, and any      *)
(* process may die between them.                                            *)
(***************************************************************************)
EXTENDS Naturals, FiniteSets

CONSTANTS
  Contents,   \* bytes of resumes, told apart by their hash
  Jobs, Keys, \* idempotency keys a client may use again
  HasWorker,  \* the daemon is configured with a standalone worker
  MaxImports, MaxSnapshots, MaxDocs, MaxRuns, MaxFaults, MaxDeletions,  \* bounds
  None

ASSUME ResumesAssumption ==
  /\ HasWorker \in BOOLEAN
  /\ MaxImports \in Nat /\ MaxSnapshots \in Nat /\ MaxDocs \in Nat
  /\ MaxRuns \in Nat /\ MaxFaults \in Nat /\ MaxDeletions \in Nat

VARIABLES
  drawn,      \* ids drawn so far for sources and their files
  imports,    \* imports awaiting extractText(), numbered as the source they will make
  sources,    \* resume_sources
  snapshots,  \* canonical_profile_snapshots written so far; a larger number is newer
  docs,       \* tailored documents made so far, with the operation that made each
  tailored,   \* tailored_resumes, by id
  keys,       \* operation_idempotency: 'dashboard.resume.tailor'
  renders,    \* resume.render rows of the queue, by document
  runs,       \* the worker's handlers, by document and attempt
  files,      \* the vault
  artifacts,  \* rows of the artifacts table
  removal,    \* removeRegisteredResume() between its reads and its transaction
  faults, deletions,
  consented   \* history: documents the user approved

rowVars == <<sources, snapshots, tailored, artifacts>>
resumesVars == <<drawn, imports, docs, rowVars, keys, renders, runs, files, removal, faults, deletions, consented>>

Imports == 1..MaxImports
Docs == 1..MaxDocs
Runs == 1..MaxRuns
\* "rendered" stands for the five artifacts of a rendering: all their files are in the
\* vault before the first of their rows is written, and the result names them all.
Artifact == [kind : {"source"}, of : Imports, run : {0}]
              \cup [kind : {"rendered"}, of : Docs, run : Runs]
SourceFile(n) == [kind |-> "source", of |-> n, run |-> 0]
Rendered(d, r) == [kind |-> "rendered", of |-> d, run |-> r]

Source == [content : Contents, approved : BOOLEAN, snapshot : 0..MaxSnapshots]
Document == [resume : Imports, snapshot : 1..MaxSnapshots, job : Jobs,
             key : Keys \cup {None}, era : 0..MaxDeletions,
             outcome : {"waiting", "answered", "failed", "lost"}]
KeyRecord == [resume : Imports, job : Jobs, status : {"running", "succeeded"}]

ASSUME NoneAssumption == None \notin Keys /\ None \notin Document /\ None \notin KeyRecord

ResumesTypeOK ==
  /\ drawn \in 0..MaxImports
  /\ imports \in [Imports -> Contents \cup {None}]
  /\ sources \in [Imports -> Source \cup {None}]
  /\ snapshots \in 0..MaxSnapshots
  /\ docs \in [Docs -> Document \cup {None}]
  /\ tailored \in [Docs -> [approved : BOOLEAN, pdf : 0..MaxRuns] \cup {None}]
  /\ keys \in [Keys -> KeyRecord \cup {None}]
  /\ renders \in [Docs -> [status : {"queued", "running", "completed", "failed"},
                           run : 0..MaxRuns] \cup {None}]
  /\ runs \in [Docs -> [Runs -> {"none", "printing", "printed", "saved", "ended"}]]
  /\ files \subseteq Artifact /\ artifacts \subseteq Artifact
  /\ removal \in [resume : Imports, rendered : SUBSET Artifact] \cup {None}
  /\ faults \in 0..MaxFaults /\ deletions \in 0..MaxDeletions
  /\ consented \subseteq Docs

ResumesInit ==
  /\ drawn = 0 /\ imports = [n \in Imports |-> None] /\ sources = [n \in Imports |-> None]
  /\ snapshots = 0
  /\ docs = [d \in Docs |-> None] /\ tailored = [d \in Docs |-> None]
  /\ keys = [k \in Keys |-> None]
  /\ renders = [d \in Docs |-> None] /\ runs = [d \in Docs |-> [r \in Runs |-> "none"]]
  /\ files = {} /\ artifacts = {} /\ removal = None
  /\ faults = 0 /\ deletions = 0 /\ consented = {}

-----------------------------------------------------------------------------
(* Import and approval *)

Fault == faults < MaxFaults /\ faults' = faults + 1

\* importBytes(): the file is in the vault before its text is extracted.
ImportStarts(n, c) ==
  /\ n = drawn + 1 /\ drawn' = n
  /\ imports' = [imports EXCEPT ![n] = c]
  /\ files' = files \cup {SourceFile(n)}
  /\ UNCHANGED <<rowVars, docs, keys, renders, runs, removal, faults, deletions, consented>>

\* No text can be extracted, or the process dies: nobody removes the file.
ImportFails(n) ==
  /\ Fault
  /\ imports[n] # None
  /\ imports' = [imports EXCEPT ![n] = None]
  /\ UNCHANGED <<drawn, rowVars, docs, keys, renders, runs, files, removal, deletions, consented>>

Registered(c) == \E m \in Imports : sources[m] # None /\ sources[m].content = c

\* saveRegisteredResume(): one transaction for both rows; a resume with the same bytes
\* breaks the unique index and the caller removes the file again.
ImportEnds(n) ==
  /\ imports[n] # None
  /\ imports' = [imports EXCEPT ![n] = None]
  /\ \/ /\ ~Registered(imports[n])
        /\ sources' = [sources EXCEPT ![n] = [content |-> imports[n], approved |-> FALSE, snapshot |-> 0]]
        /\ artifacts' = artifacts \cup {SourceFile(n)}
        /\ UNCHANGED files
     \/ /\ Registered(imports[n])
        /\ files' = files \ {SourceFile(n)}
        /\ UNCHANGED <<sources, artifacts>>
  /\ UNCHANGED <<drawn, snapshots, tailored, docs, keys, renders, runs, removal, faults, deletions, consented>>

\* approveRegisteredResume(): every fact is verified at this instant, so that the hash of
\* the facts, and with it the snapshot, is new.
ApproveSource(n) ==
  /\ sources[n] # None /\ snapshots < MaxSnapshots
  /\ snapshots' = snapshots + 1
  /\ sources' = [sources EXCEPT ![n].approved = TRUE, ![n].snapshot = snapshots + 1]
  /\ UNCHANGED <<drawn, imports, tailored, artifacts, docs, keys, renders, runs, files, removal, faults, deletions, consented>>

-----------------------------------------------------------------------------
(* Tailoring *)

SameSlot(d, resume, snapshot, job) ==
  docs[d] # None /\ docs[d].resume = resume /\ docs[d].snapshot = snapshot /\ docs[d].job = job

\* Mutant: the new document inherits the approval of the one it replaces.
SaveTailoredApproved(d, resume, snapshot, job) ==
  [e \in Docs |->
     IF e = d
     THEN [approved |-> \E o \in Docs : SameSlot(o, resume, snapshot, job) /\ tailored[o] # None
                                         /\ tailored[o].approved,
           pdf |-> 0]
     ELSE IF SameSlot(e, resume, snapshot, job) THEN None ELSE tailored[e]]

\* saveTailoredResume(): one row per resume, snapshot and job; a second document takes the
\* row, its id included, and is not approved.
SaveTailored(d, resume, snapshot, job) ==
  [e \in Docs |->
     IF e = d THEN [approved |-> FALSE, pdf |-> 0]
     ELSE IF SameSlot(e, resume, snapshot, job) THEN None ELSE tailored[e]]

\* Mutant: an operation that was left running may start again.
MayBeginUnlessAnswered(k) == keys[k] # None => keys[k].status = "running"

\* beginIdempotent(): only a key without a record starts the operation; otherwise the
\* stored answer, or a refusal.
MayBegin(k) == keys[k] = None

\* The tailoring route up to the first await: without a worker it is the whole route.
Tailor(n, j, k) ==
  /\ sources[n] # None /\ sources[n].approved
  /\ k # None => MayBegin(k)
  /\ \E d \in Docs :
       /\ docs[d] = None /\ \A e \in 1..(d - 1) : docs[e] # None
       /\ LET s == sources[n].snapshot IN
          /\ docs' = [docs EXCEPT ![d] =
                        [resume |-> n, snapshot |-> s, job |-> j, key |-> k, era |-> deletions,
                         outcome |-> IF HasWorker THEN "waiting" ELSE "answered"]]
          /\ tailored' = SaveTailored(d, n, s, j)
       /\ renders' = IF HasWorker THEN [renders EXCEPT ![d] = [status |-> "queued", run |-> 0]]
                                  ELSE renders
  /\ keys' = IF k = None THEN keys
             ELSE [keys EXCEPT ![k] = [resume |-> n, job |-> j,
                                       status |-> IF HasWorker THEN "running" ELSE "succeeded"]]
  /\ UNCHANGED <<drawn, imports, sources, snapshots, artifacts, runs, files, removal, faults,
                 deletions, consented>>

Waiting(d) == docs[d] # None /\ docs[d].outcome = "waiting"

\* finishIdempotent() updates the key's record, if it still stands, whoever began it.
Finish(d) ==
  IF docs[d].key # None /\ keys[docs[d].key] # None
  THEN [keys EXCEPT ![docs[d].key].status = "succeeded"] ELSE keys

Clear(d) == IF docs[d].key # None THEN [keys EXCEPT ![docs[d].key] = None] ELSE keys

\* The rendering is done: attachTailoredResumeArtifacts() finds the row by the document's
\* id, or not at all when another document or a removal has taken it.
TailorEnds(d) ==
  /\ Waiting(d) /\ renders[d] # None /\ renders[d].status = "completed"
  /\ docs' = [docs EXCEPT ![d].outcome = "answered"]
  /\ tailored' = IF tailored[d] = None THEN tailored
                 ELSE [tailored EXCEPT ![d].pdf = renders[d].run]
  /\ keys' = Finish(d)
  /\ UNCHANGED <<drawn, imports, sources, snapshots, artifacts, renders, runs, files, removal, faults, deletions, consented>>

\* The rendering failed or was cancelled.
TailorFails(d) ==
  /\ Waiting(d) /\ renders[d] # None /\ renders[d].status = "failed"
  /\ docs' = [docs EXCEPT ![d].outcome = "failed"]
  /\ keys' = Clear(d)
  /\ UNCHANGED <<drawn, imports, rowVars, renders, runs, files, removal, faults, deletions, consented>>

\* Five minutes without a result: a queued row is cancelled, a running one is asked to stop.
TailorTimesOut(d) ==
  /\ Fault
  /\ Waiting(d)
  /\ docs' = [docs EXCEPT ![d].outcome = "failed"]
  /\ keys' = Clear(d)
  /\ renders' = IF renders[d] # None /\ renders[d].status = "queued"
                THEN [renders EXCEPT ![d].status = "failed"] ELSE renders
  /\ UNCHANGED <<drawn, imports, rowVars, runs, files, removal, deletions, consented>>

\* approveTailoredResume(): by id, so nothing when the id is gone.  The reject route writes
\* only an audit entry.
ApproveTailored(d) ==
  /\ tailored[d] # None
  /\ tailored' = [tailored EXCEPT ![d].approved = TRUE]
  /\ consented' = consented \cup {d}
  /\ UNCHANGED <<drawn, imports, sources, snapshots, artifacts, docs, keys, renders, runs, files, removal,
                 faults, deletions>>

-----------------------------------------------------------------------------
(* The worker *)

\* A poll claims a queued row, or one whose lease lapsed: the worker that held it may be
\* dead or still at work.
RenderStarts(d) ==
  /\ renders[d] # None
  /\ \/ renders[d].status = "queued" /\ UNCHANGED faults
     \/ renders[d].status = "running" /\ Fault
  /\ renders[d].run < MaxRuns
  /\ LET r == renders[d].run + 1 IN
     /\ renders' = [renders EXCEPT ![d] = [status |-> "running", run |-> r]]
     /\ runs' = [runs EXCEPT ![d][r] = "printing"]
  /\ UNCHANGED <<drawn, imports, rowVars, docs, keys, files, removal, deletions, consented>>

\* renderTailoredResume() puts the files.
Prints(d, r) ==
  /\ runs[d][r] = "printing"
  /\ runs' = [runs EXCEPT ![d][r] = "printed"]
  /\ files' = files \cup {Rendered(d, r)}
  /\ UNCHANGED <<drawn, imports, rowVars, docs, keys, renders, removal, faults, deletions, consented>>

\* saveArtifact(): nobody asks who holds the lease.
SavesRows(d, r) ==
  /\ runs[d][r] = "printed"
  /\ runs' = [runs EXCEPT ![d][r] = "saved"]
  /\ artifacts' = artifacts \cup {Rendered(d, r)}
  /\ UNCHANGED <<drawn, imports, sources, snapshots, tailored, docs, keys, renders, files, removal, faults, deletions, consented>>

Holds(d, r) == renders[d] # None /\ renders[d] = [status |-> "running", run |-> r]

\* The result is stored by the attempt that holds the row.
RenderEnds(d, r) ==
  /\ runs[d][r] = "saved"
  /\ runs' = [runs EXCEPT ![d][r] = "ended"]
  /\ renders' = IF Holds(d, r) THEN [renders EXCEPT ![d].status = "completed"] ELSE renders
  /\ UNCHANGED <<drawn, imports, rowVars, docs, keys, files, removal, faults, deletions, consented>>

\* Before its end the handler throws, is aborted, or dies with its process: what it stored
\* stays.  The row fails, is tried again, or waits for its lease to lapse.
RenderStops(d, r) ==
  /\ Fault
  /\ runs[d][r] \in {"printing", "printed"}
  /\ runs' = [runs EXCEPT ![d][r] = "ended"]
  /\ \/ /\ Holds(d, r)
        /\ \E status \in {"queued", "failed"} : renders' = [renders EXCEPT ![d].status = status]
     \/ UNCHANGED renders
  /\ UNCHANGED <<drawn, imports, rowVars, docs, keys, files, removal, deletions, consented>>

-----------------------------------------------------------------------------
(* Removal, deletion, crashes *)

RowsOf(n) == {d \in Docs : tailored[d] # None /\ docs[d].resume = n}

\* Mutant: the files go before their rows.
RemoveFilesFirst(n) ==
  /\ sources[n] # None /\ removal = None
  /\ LET ids == {Rendered(d, tailored[d].pdf) : d \in {e \in RowsOf(n) : tailored[e].pdf # 0}} IN
     /\ removal' = [resume |-> n, rendered |-> ids]
     /\ files' = files \ (ids \cup {SourceFile(n)})
  /\ UNCHANGED <<drawn, imports, rowVars, docs, keys, renders, runs, faults, deletions, consented>>

\* removeRegisteredResume() reads the ids of what was rendered ...
RemoveReads(n) ==
  /\ sources[n] # None /\ removal = None
  /\ LET printed == {d \in RowsOf(n) : tailored[d].pdf # 0} IN
     removal' = [resume |-> n, rendered |-> {Rendered(d, tailored[d].pdf) : d \in printed}]
  /\ UNCHANGED <<drawn, imports, rowVars, docs, keys, renders, runs, files, faults, deletions, consented>>

\* Files whose rows a transaction has deleted are removed next, unless the process dies.
\* In between no step of another process names them.
Sweep(ids) ==
  \/ files' = files \ ids /\ UNCHANGED faults
  \/ Fault /\ UNCHANGED files

\* ... and deletes the rows in one transaction; the command line does so beside the daemon.
RemoveCommits ==
  /\ removal # None /\ removal' = None
  /\ LET n == removal.resume
         ids == removal.rendered \cup {SourceFile(n)} IN
     /\ artifacts' = artifacts \ ids
     /\ tailored' = [d \in Docs |-> IF d \in RowsOf(n) THEN None ELSE tailored[d]]
     /\ sources' = [sources EXCEPT ![n] = None]
     /\ Sweep(ids)
  /\ UNCHANGED <<drawn, imports, snapshots, docs, keys, renders, runs, deletions, consented>>

NothingRuns == \A d \in Docs : renders[d] # None => renders[d].status # "running"

\* POST /v1/data/delete cancels what is queued, and is refused while a row runs.
DeleteRefused ==
  /\ ~NothingRuns /\ deletions < MaxDeletions
  /\ renders' = [d \in Docs |->
       IF renders[d] # None /\ renders[d].status = "queued"
       THEN [renders[d] EXCEPT !.status = "failed"] ELSE renders[d]]
  /\ UNCHANGED <<drawn, imports, rowVars, docs, keys, runs, files, removal, faults, deletions, consented>>

\* deleteUserData(): every table, the records of running operations among them.
DeleteData ==
  /\ NothingRuns /\ deletions < MaxDeletions
  /\ deletions' = deletions + 1
  /\ sources' = [n \in Imports |-> None] /\ tailored' = [d \in Docs |-> None]
  /\ keys' = [k \in Keys |-> None] /\ renders' = [d \in Docs |-> None]
  /\ artifacts' = {} /\ Sweep(artifacts)
  /\ UNCHANGED <<drawn, imports, snapshots, docs, runs, removal, consented>>

\* The daemon dies: operations and imports are lost, their records and files stay.
Crash ==
  /\ Fault
  /\ imports' = [n \in Imports |-> None]
  /\ docs' = [d \in Docs |-> IF Waiting(d) THEN [docs[d] EXCEPT !.outcome = "lost"] ELSE docs[d]]
  /\ removal' = None
  /\ UNCHANGED <<drawn, rowVars, keys, renders, runs, files, deletions, consented>>

ResumesNext ==
  \/ \E n \in Imports : \/ \E c \in Contents : ImportStarts(n, c)
                        \/ ImportFails(n) \/ ImportEnds(n) \/ ApproveSource(n) \/ RemoveReads(n)
  \/ \E n \in Imports, j \in Jobs, k \in Keys \cup {None} : Tailor(n, j, k)
  \/ \E d \in Docs : \/ TailorEnds(d) \/ TailorFails(d) \/ TailorTimesOut(d)
                     \/ ApproveTailored(d) \/ RenderStarts(d)
  \/ \E d \in Docs, r \in Runs : \/ Prints(d, r) \/ SavesRows(d, r)
                                 \/ RenderEnds(d, r) \/ RenderStops(d, r)
  \/ RemoveCommits
  \/ DeleteRefused \/ DeleteData \/ Crash

ResumesSpec == ResumesInit /\ [][ResumesNext]_resumesVars

-----------------------------------------------------------------------------
(* Properties *)

\* What a row promises can be read: the source of every resume and the rendering of every
\* tailored one have a row in artifacts (store.ts saveRegisteredResume,
\* attachTailoredResumeArtifacts), and every such row has its file in the vault, whichever
\* process dies between the steps of an import, a rendering or a removal.
RowsHaveFiles ==
  /\ artifacts \subseteq files
  /\ \A n \in Imports : sources[n] # None => SourceFile(n) \in artifacts
  /\ \A d \in Docs : tailored[d] # None =>
       (tailored[d].pdf # 0 => Rendered(d, tailored[d].pdf) \in artifacts)

\* A tailored resume is approved only if the user approved this very document: a second
\* tailoring of the same resume, snapshot and job takes over the row but never the approval
\* (store.ts saveTailoredResume, approveTailoredResume), and no two rows share those three.
ApprovedAsShown ==
  \A d \in Docs : tailored[d] # None =>
    /\ tailored[d].approved => d \in consented
    /\ \A e \in Docs \ {d} : tailored[e] # None =>
         ~SameSlot(e, docs[d].resume, docs[d].snapshot, docs[d].job)

\* Until the local data is deleted a key makes a second document only after its operation
\* failed: not while it runs, not after it was answered, and not after a crash left its
\* record running (dashboard-api.ts idempotent).
KeyMakesOneDocument ==
  \A d, e \in Docs :
    (/\ d < e /\ docs[d] # None /\ docs[e] # None
     /\ docs[d].key = docs[e].key /\ docs[d].key # None /\ docs[e].era = 0)
      => docs[d].outcome = "failed"
=============================================================================

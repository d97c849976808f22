----------------------------- MODULE Extraction -----------------------------
(***************************************************************************)
(* From an uploaded file to text the tutor can quote.  The API only queues *)
(* a document; a worker polls the queue, reads one document after another  *)
(* and spends the pages the plan includes.                                 *)
(*                                                                         *)
(* The worker's reading is cut where others can come in between: putting   *)
(* stalled rows back and claiming a batch, marking one document running,   *)
(* reading its bytes, committing what was read.  The student may upload    *)
(* again, complete again or delete at any of those points.                 *)
(*                                                                         *)
(* A file is told by its version and its number of pages, 0 for one that   *)
(* cannot be read.  Time only matters to rows left running, so it is kept  *)
(* as their age.  All documents belong to one student: what different      *)
(* students share is the queue.                                            *)
(***************************************************************************)
EXTENDS Naturals, FiniteSets

CONSTANTS
  Docs,
  Workers,
  FileSizes,   \* pages a file may turn out to have, 0 for unreadable
  FilePages,   \* the plan's limit on one file
  LifePool, MonthPool, OcrLimit,   \* the plan's limits on all of them
  OcrConfigured,
  Batch,       \* documents claimed at once
  Stale,       \* age from which a running row counts as abandoned
  Stuck,       \* documents whose provider never answers
  MaxPuts,     \* bound on what the student does to documents
  MaxFaults,   \* bound on restarts and provider failures
  MaxMonths    \* bound on the calendar

Kinds == {"pdf", "image"}
Terminal == {"done", "failed", "skipped"}

ASSUME ExtractionAssumption ==
  /\ IsFiniteSet(Docs) /\ Stuck \subseteq Docs
  /\ FileSizes \subseteq Nat
  /\ {FilePages, LifePool, MonthPool, OcrLimit, Batch, Stale, MaxPuts, MaxFaults,
      MaxMonths} \subseteq Nat
  /\ OcrConfigured \in BOOLEAN

VARIABLES
  row,     \* the materials table
  file,    \* the bucket: version and pages of a document's object, version 0 for none
  index,   \* the version whose passages are in material_chunks, 0 for none
  meter,   \* the usage counters
  job,     \* what each worker is doing
  puts, faults, months,
  \* history
  asked,    \* times the student put a document on the queue
  charged,  \* times its pages were spent
  filed,    \* the version in the bucket when it was last completed while no worker had it
  given     \* pages indexed, ever and this month

world == <<row, file, index, meter>>
history == <<asked, charged, filed, given>>
vars == <<row, file, index, meter, job, puts, faults, months, asked, charged, filed, given>>

NoRow == [born |-> 0, kind |-> "pdf", status |-> "none", deleted |-> FALSE, age |-> 0]
NoJob == [step |-> "poll", batch |-> {}, doc |-> {}, ver |-> 0, pages |-> 0,
          saw |-> [life |-> 0, month |-> 0, ocr |-> 0]]

Init ==
  /\ row = [d \in Docs |-> NoRow]
  /\ file = [d \in Docs |-> [ver |-> 0, pages |-> 0]]
  /\ index = [d \in Docs |-> 0]
  /\ meter = [life |-> 0, month |-> 0, ocr |-> 0]
  /\ job = [w \in Workers |-> NoJob]
  /\ puts = 0 /\ faults = 0 /\ months = 0
  /\ asked = [d \in Docs |-> 0]
  /\ charged = [d \in Docs |-> 0]
  /\ filed = [d \in Docs |-> 0]
  /\ given = [life |-> 0, month |-> 0]

-----------------------------------------------------------------------------
Made(d) == row[d].born > 0
Newest == Cardinality({d \in Docs : Made(d)})

InHand(d) == \E w \in Workers : d \in job[w].doc

Put == puts < MaxPuts /\ puts' = puts + 1
Fault == faults < MaxFaults /\ faults' = faults + 1

\* set_status: every move of the worker stamps the row.
Marked(r, status) == [r EXCEPT !.status = status, !.age = 0]

(***************************************************************************)
(* The student's side.                                                     *)
(***************************************************************************)

\* POST /materials/upload-url: the row is queued before a byte has moved, and
\* one that exists keeps its kind, its age and its tombstone.
StartUpload(d, kind) ==
  /\ Put
  /\ row' = [row EXCEPT ![d] = IF Made(d)
                               THEN [@ EXCEPT !.status = "pending"]
                               ELSE [NoRow EXCEPT !.born = Newest + 1, !.kind = kind,
                                                  !.status = "pending"]]
  /\ asked' = [asked EXCEPT ![d] = @ + 1]
  /\ UNCHANGED <<file, index, meter, job, faults, months, charged, filed, given>>

\* The device writes to the bucket itself, replacing what was there.
PutBytes(d, pages) ==
  /\ Put
  /\ Made(d)
  /\ file' = [file EXCEPT ![d] = [ver |-> @.ver + 1, pages |-> pages]]
  /\ UNCHANGED <<row, index, meter, job, faults, months, asked, charged, filed, given>>

\* POST /materials/complete, whatever the worker is doing with the document.
CompleteUpload(d) ==
  /\ Put
  /\ Made(d)
  /\ row' = [row EXCEPT ![d].status = "pending"]
  /\ asked' = [asked EXCEPT ![d] = @ + 1]
  /\ filed' = [filed EXCEPT ![d] = IF InHand(d) THEN @ ELSE file[d].ver]
  /\ UNCHANGED <<file, index, meter, job, faults, months, charged, given>>

\* A tombstone pushed by the app.
Delete(d) ==
  /\ Put
  /\ Made(d)
  /\ row' = [row EXCEPT ![d].deleted = TRUE]
  /\ UNCHANGED <<file, index, meter, job, faults, months, asked, charged, filed, given>>

(***************************************************************************)
(* The page limits.                                                        *)
(***************************************************************************)

\* Mutant of PagesFit: a file is held against the pools as if it came first.
PagesFitAlone(pages) ==
  pages <= FilePages /\ pages <= LifePool /\ pages <= MonthPool

\* check_pdf_pages.
PagesFit(pages) ==
  /\ pages <= FilePages
  /\ meter.life + pages <= LifePool
  /\ meter.month + pages <= MonthPool

\* check_ocr; a plan without scans has a limit of 0.
ScanFits == meter.ocr + 1 <= OcrLimit

\* record_pdf_pages, and record_usage for a scan, from the counters c it read.
Spend(c, d, pages) ==
  [life  |-> c.life + pages,
   month |-> c.month + pages,
   ocr   |-> IF row[d].kind = "image" THEN c.ocr + 1 ELSE c.ocr]

\* The 1st of a month: those counters start again, the lifetime one does not.
NewMonth ==
  /\ months < MaxMonths
  /\ months' = months + 1
  /\ meter' = [meter EXCEPT !.month = 0, !.ocr = 0]
  /\ given' = [given EXCEPT !.month = 0]
  /\ job' = [w \in Workers |-> [job[w] EXCEPT !.saw.month = 0, !.saw.ocr = 0]]
  /\ UNCHANGED <<row, file, index, puts, faults, asked, charged, filed>>

(***************************************************************************)
(* The worker.                                                             *)
(***************************************************************************)

\* Mutant of Requeued: what a dead worker left behind stays.
RequeuedNever(r) == r

\* requeue_stalled, for one row.
Requeued(r) ==
  IF r.status = "running" /\ r.age > Stale THEN Marked(r, "pending") ELSE r

Runnable == IF OcrConfigured THEN Kinds ELSE Kinds \ {"image"}

Queue(rows) ==
  {d \in Docs : /\ rows[d].status = "pending"
                /\ ~rows[d].deleted
                /\ rows[d].kind \in Runnable}

\* The first n of the queue, oldest first.
Oldest(rows, n) ==
  {d \in Queue(rows) : Cardinality({e \in Queue(rows) : rows[e].born < rows[d].born}) < n}

\* A pass of the loop: stalled rows go back on the queue, then a batch is
\* claimed.  The row locks end with the session that took them, so a claim
\* changes nothing another worker could see.
Poll(w) ==
  /\ job[w].step = "poll" /\ job[w].batch = {}
  /\ LET rows == [d \in Docs |-> Requeued(row[d])]
     IN
     /\ row' = rows
     /\ job' = [job EXCEPT ![w] = [NoJob EXCEPT !.batch = Oldest(rows, Batch)]]
  /\ UNCHANGED <<file, index, meter, puts, faults, months, history>>

\* The next of the batch, which nobody checks is still pending.
Start(w) ==
  /\ job[w].step = "poll"
  /\ \E d \in job[w].batch :
       /\ \A e \in job[w].batch : row[d].born <= row[e].born
       /\ \/ /\ row[d].deleted
             /\ job' = [job EXCEPT ![w].batch = @ \ {d}]
             /\ UNCHANGED row
          \/ /\ ~row[d].deleted
             /\ row' = [row EXCEPT ![d] = Marked(@, "running")]
             /\ job' = [job EXCEPT ![w] = [@ EXCEPT !.step = "read", !.doc = {d},
                                                    !.batch = job[w].batch \ {d}]]
  /\ UNCHANGED <<file, index, meter, puts, faults, months, history>>

Onward(w) == [NoJob EXCEPT !.batch = job[w].batch]

\* The document leaves the worker's hands with this status.
Leave(w, d, status) ==
  /\ row' = [row EXCEPT ![d] = Marked(@, status)]
  /\ job' = [job EXCEPT ![w] = Onward(w)]

\* A scan is one page.
PageCount(d) == IF row[d].kind = "image" THEN 1 ELSE file[d].pages

\* _download finds no object.
Missing(d) == file[d].ver = 0

\* _read_pdf: not a PDF, encrypted, empty, far too long, or without text.
BadPdf(d) == row[d].kind = "pdf" /\ file[d].pages = 0

\* read_image: a format or size nobody reads, refused, or without text.
BadScan(d) == row[d].kind = "image" /\ file[d].pages = 0

\* Why a document is not indexed, in the order in which it is found out.
Refusal(d) ==
  IF Missing(d) THEN {"failed"}
  ELSE IF row[d].kind = "image" /\ ~ScanFits THEN {"skipped"}
  ELSE IF BadPdf(d) \/ BadScan(d) THEN {"failed"}
  ELSE IF ~PagesFit(PageCount(d)) THEN {"skipped"}
  ELSE {}

\* The provider or the bucket does not answer: back on the queue.
ReadUnreachable(w) ==
  \E d \in job[w].doc :
    /\ job[w].step = "read"
    /\ \/ d \in Stuck /\ UNCHANGED faults
       \/ d \notin Stuck /\ Fault
    /\ Leave(w, d, "pending")
    /\ UNCHANGED <<file, index, meter, puts, months, history>>

\* Refused, unreadable, or (a fault) anything else that raises.
ReadRefused(w) ==
  \E d \in job[w].doc \ Stuck :
    /\ job[w].step = "read"
    /\ \/ \E status \in Refusal(d) : Leave(w, d, status) /\ UNCHANGED faults
       \/ Leave(w, d, "failed") /\ Fault
    /\ UNCHANGED <<file, index, meter, puts, months, history>>

ReadText(w) ==
  \E d \in job[w].doc \ Stuck :
    /\ job[w].step = "read"
    /\ Refusal(d) = {}
    /\ job' = [job EXCEPT ![w] = [@ EXCEPT !.step = "write", !.ver = file[d].ver,
                                           !.pages = PageCount(d), !.saw = meter]]
    /\ UNCHANGED <<row, file, index, meter, puts, faults, months, history>>

\* Mutant of Indexed: passages that are there already are kept.
IndexedOnce(old, ver) == IF old = 0 THEN ver ELSE old

\* _replace_chunks.
Indexed(old, ver) == ver

\* Mutant of DoneRow: the status is left to the next pass.
DoneRowRunning(r) == r

DoneRow(r) == Marked(r, "done")

\* Index, status and pages are one transaction.  Its writes go over whatever
\* was committed while it read, and its counters are read then added to, so
\* two workers can lose a count.
WriteIndex(w) ==
  \E d \in job[w].doc :
    /\ job[w].step = "write"
    /\ row' = [row EXCEPT ![d] = DoneRow(@)]
    /\ index' = [index EXCEPT ![d] = Indexed(@, job[w].ver)]
    /\ \E c \in {job[w].saw, meter} : meter' = Spend(c, d, job[w].pages)
    /\ job' = [job EXCEPT ![w] = Onward(w)]
    /\ charged' = [charged EXCEPT ![d] = @ + 1]
    /\ given' = [life |-> given.life + job[w].pages, month |-> given.month + job[w].pages]
    /\ UNCHANGED <<file, puts, faults, months, asked, filed>>

\* The process is stopped or killed, and started again by systemd.  What it
\* was reading stays running, the rest of its batch pending.
Restart(w) ==
  /\ Fault
  /\ job[w] # NoJob
  /\ job' = [job EXCEPT ![w] = NoJob]
  /\ UNCHANGED <<world, puts, months, history>>

\* Time passes for the rows that are running.
Age ==
  /\ \E d \in Docs : row[d].status = "running" /\ row[d].age <= Stale
  /\ row' = [d \in Docs |-> IF row[d].status = "running" /\ row[d].age <= Stale
                            THEN [row[d] EXCEPT !.age = @ + 1] ELSE row[d]]
  /\ UNCHANGED <<file, index, meter, job, puts, faults, months, history>>

-----------------------------------------------------------------------------
Work(w) ==
  Poll(w) \/ Start(w) \/ ReadUnreachable(w) \/ ReadRefused(w) \/ ReadText(w) \/ WriteIndex(w)

Student ==
  \E d \in Docs :
    \/ \E kind \in Kinds : StartUpload(d, kind)
    \/ \E pages \in FileSizes : PutBytes(d, pages)
    \/ CompleteUpload(d)
    \/ Delete(d)

Next ==
  \/ Student
  \/ NewMonth
  \/ Age
  \/ \E w \in Workers : Work(w) \/ Restart(w)

\* The loop never stops while its process runs, a process that died is
\* started again, and time passes.  Nobody has to upload anything.
Fairness == WF_vars(Age) /\ \A w \in Workers : WF_vars(Work(w))

Spec == Init /\ [][Next]_vars /\ Fairness

-----------------------------------------------------------------------------
Counters == [life : Nat, month : Nat, ocr : Nat]
Status == Terminal \cup {"none", "pending", "running"}
RowType == [born : Nat, kind : Kinds, status : Status, deleted : BOOLEAN, age : Nat]
FileType == [ver : Nat, pages : Nat]
JobType == [step : {"poll", "read", "write"}, batch : SUBSET Docs,
            doc : SUBSET Docs, ver : Nat, pages : Nat, saw : Counters]

\* Every variable keeps to its type, and a document in a worker's hands is
\* one that exists.
TypeOK ==
  /\ row \in [Docs -> RowType]
  /\ file \in [Docs -> FileType]
  /\ index \in [Docs -> Nat]
  /\ meter \in Counters
  /\ job \in [Workers -> JobType]
  /\ \A w \in Workers : \A d \in job[w].doc \cup job[w].batch : Made(d)
  /\ puts \in Nat /\ faults \in Nat /\ months \in Nat
  /\ asked \in [Docs -> Nat] /\ charged \in [Docs -> Nat] /\ filed \in [Docs -> Nat]
  /\ given \in [life : Nat, month : Nat]

\* However documents are uploaded, replaced, retried and interrupted, the
\* pages the student has been given stay within the pools of the plan: the
\* lifetime one over all months, the other one within each.
PoolsHold == given.life <= LifePool /\ given.month <= MonthPool

\* A document's pages are spent at most once for every time the student put
\* it on the queue: a crash, a failure or a requeue costs nothing.
ChargedPerRequest == \A d \in Docs : charged[d] <= asked[d]

\* A document that is done shows the file that was there when it was last
\* completed, or a newer one; the exception is an upload completed while the
\* older file was in the worker's hands, which its done overwrites.
DoneShowsTheUpload == \A d \in Docs : row[d].status = "done" => index[d] >= filed[d]

\* Whatever is queued is read or refused, restarts and the documents of an
\* unreachable provider notwithstanding: those fill less than a batch.
EveryDocumentSettles ==
  \A d \in Docs \ Stuck :
    row[d].status \in {"pending", "running"} /\ row[d].kind \in Runnable
      ~> row[d].status \in Terminal \/ row[d].deleted
=============================================================================

-------------------------- MODULE Extraction_proofs --------------------------
(***************************************************************************)
(* What holds of Extraction for any number of documents, any files and any *)
(* limits: with any number of workers, a document that is done shows the   *)
(* file it was completed with; with one worker, the pools of the plan hold *)
(* and no document is charged more often than it was asked for.            *)
(***************************************************************************)
EXTENDS Extraction, FiniteSetTheorems, TLAPS

\* A document was completed with a version the bucket has had, and what shows
\* it or is about to be written as it is at least that version.
Fresh(d) ==
  /\ filed[d] <= file[d].ver
  /\ row[d].status = "done" => index[d] >= filed[d]
  /\ \A w \in Workers : job[w].step = "write" /\ d \in job[w].doc => job[w].ver >= filed[d]

AllFresh == \A d \in Docs : Fresh(d)

\* A document is owed a reading from the moment it is put on the queue until
\* the worker lets it go.
Owed(d) == row[d].status \in {"pending", "running"}

Paid(d) ==
  /\ charged[d] <= asked[d]
  /\ Owed(d) => charged[d] < asked[d]
  /\ \A w \in Workers : d \in job[w].doc \cup job[w].batch => Owed(d)

AllPaid == \A d \in Docs : Paid(d)

\* The counters are what was given, what a worker saw of them is what they
\* are, and what it has yet to write fits.
Metered ==
  /\ given.life = meter.life /\ given.month = meter.month
  /\ meter.life <= LifePool /\ meter.month <= MonthPool
  /\ \A w \in Workers :
       job[w].step = "write" =>
         /\ job[w].saw.life = meter.life /\ job[w].saw.month = meter.month
         /\ meter.life + job[w].pages <= LifePool
         /\ meter.month + job[w].pages <= MonthPool

\* What a worker holds: one document at a time, and none between two.
InOrder(j) ==
  /\ j.step = "poll" => j.doc = {}
  /\ \A d, e \in j.doc : d = e
  /\ j.doc \cap j.batch = {}

Hands == \A w \in Workers : InOrder(job[w])

\* What is on the queue or with a worker has a row.
Rowed == \A d \in Docs : Owed(d) => Made(d)

-----------------------------------------------------------------------------
(* Types.                                                                  *)

\* How many rows there are is a number.
LEMMA NewestIsNumber == Newest \in Nat
<1> DEFINE Rows == {d \in Docs : Made(d)}
<1>1. IsFiniteSet(Rows)
  BY FS_Subset, ExtractionAssumption
<1> QED
  BY <1>1, FS_CardinalityType DEF Newest

\* The limits are numbers.
LEMMA Limits == /\ Stale \in Nat /\ LifePool \in Nat /\ MonthPool \in Nat
                /\ \A pages \in FileSizes : pages \in Nat
  BY ExtractionAssumption

\* Rows and jobs after a step that types them: what is left of TypeOK.
LEMMA TypedStep ==
  ASSUME TypeOK, Rowed,
         row' \in [Docs -> RowType], job' \in [Workers -> JobType],
         \A d \in Docs : row'[d].born >= row[d].born,
         \A d \in Docs : Owed(d)' => Owed(d) \/ Made(d)',
         \A w \in Workers : \A d \in job'[w].doc \cup job'[w].batch : Made(d) \/ Owed(d)'
  PROVE  Rowed' /\ \A w \in Workers : \A d \in job'[w].doc \cup job'[w].batch : Made(d)'
<1>1. \A d \in Docs : Made(d) => Made(d)'
  BY DEF TypeOK, Made, RowType
<1>2. Rowed'
  BY <1>1 DEF Rowed
<1>3. \A w \in Workers : job'[w].doc \cup job'[w].batch \subseteq Docs
  BY DEF JobType
<1> QED
  BY <1>1, <1>2, <1>3 DEF Rowed

\* A row that was marked, or whose status was set.
LEMMA MarkedRow ==
  ASSUME NEW r \in RowType, NEW status \in Status
  PROVE  /\ Marked(r, status) \in RowType
         /\ [r EXCEPT !.status = status] \in RowType
         /\ Marked(r, status).born = r.born /\ Marked(r, status).status = status
         /\ Marked(r, status).deleted = r.deleted
  BY Limits DEF Marked, RowType

\* The student's steps keep the types.
LEMMA TypedStudent ==
  ASSUME TypeOK, Rowed, Student
  PROVE  TypeOK' /\ Rowed'
<1>1. ASSUME NEW d \in Docs, NEW kind \in Kinds, StartUpload(d, kind)
      PROVE  TypeOK' /\ Rowed'
  <2>1. row'[d] \in RowType /\ Made(d)' /\ row'[d].born >= row[d].born
    <3>1. CASE Made(d)
      BY <1>1, <3>1 DEF StartUpload, TypeOK, RowType, Status, Made
    <3>2. CASE ~Made(d)
      <4>1. row'[d] = [born |-> Newest + 1, kind |-> kind, status |-> "pending",
                       deleted |-> FALSE, age |-> 0]
        BY <1>1, <3>2 DEF StartUpload, NoRow, TypeOK
      <4>2. row[d].born = 0
        BY <3>2 DEF TypeOK, RowType, Made
      <4> QED
        BY <4>1, <4>2, NewestIsNumber DEF RowType, Status, Made
    <3> QED
      BY <3>1, <3>2
  <2>2. row' = [row EXCEPT ![d] = row'[d]]
    BY <1>1 DEF StartUpload, TypeOK
  <2>3. /\ row' \in [Docs -> RowType] /\ \A e \in Docs : row'[e].born >= row[e].born
        /\ \A e \in Docs : Owed(e)' => Owed(e) \/ Made(e)'
    BY <2>1, <2>2 DEF TypeOK, RowType, Owed
  <2>4. asked' \in [Docs -> Nat] /\ puts' \in Nat
    BY <1>1 DEF StartUpload, Put, TypeOK
  <2>5. UNCHANGED <<file, index, meter, job, faults, months, charged, filed, given>>
    BY <1>1 DEF StartUpload
  <2> QED
    BY <2>3, <2>4, <2>5, TypedStep DEF TypeOK
<1>2. ASSUME NEW d \in Docs, NEW pages \in FileSizes, PutBytes(d, pages)
      PROVE  TypeOK' /\ Rowed'
  <2>1. file' \in [Docs -> FileType] /\ puts' \in Nat
    BY <1>2, Limits DEF PutBytes, Put, TypeOK, FileType
  <2>2. UNCHANGED <<row, index, meter, job, faults, months, asked, charged, filed, given>>
    BY <1>2 DEF PutBytes
  <2> QED
    BY <2>1, <2>2 DEF TypeOK, Rowed, Owed, Made
<1>3. ASSUME NEW d \in Docs, CompleteUpload(d)
      PROVE  TypeOK' /\ Rowed'
  <2>1. /\ row' \in [Docs -> RowType] /\ \A e \in Docs : row'[e].born = row[e].born
        /\ \A e \in Docs : Owed(e)' => Owed(e) \/ Made(e)'
    BY <1>3 DEF CompleteUpload, TypeOK, RowType, Status, Owed, Made
  <2>2. asked' \in [Docs -> Nat] /\ puts' \in Nat
    BY <1>3 DEF CompleteUpload, Put, TypeOK
  <2>3. filed' \in [Docs -> Nat]
    BY <1>3 DEF CompleteUpload, TypeOK, FileType
  <2>4. UNCHANGED <<file, index, meter, job, faults, months, charged, given>>
    BY <1>3 DEF CompleteUpload
  <2> QED
    BY <2>1, <2>2, <2>3, <2>4, TypedStep DEF TypeOK, RowType
<1>4. ASSUME NEW d \in Docs, Delete(d)
      PROVE  TypeOK' /\ Rowed'
  <2>1. row' \in [Docs -> RowType]
    BY <1>4 DEF Delete, TypeOK, RowType
  <2>2. \A e \in Docs : row'[e].born = row[e].born /\ row'[e].status = row[e].status
    BY <1>4 DEF Delete, TypeOK, RowType
  <2>3. puts' \in Nat
    BY <1>4 DEF Delete, Put, TypeOK
  <2>4. UNCHANGED <<file, index, meter, job, faults, months, asked, charged, filed, given>>
    BY <1>4 DEF Delete
  <2>5. \A e \in Docs : (Made(e)' <=> Made(e)) /\ (Owed(e)' <=> Owed(e))
    BY <2>2 DEF Made, Owed
  <2>6. Rowed'
    BY <2>5 DEF Rowed
  <2>7. \A w \in Workers : \A e \in job'[w].doc \cup job'[w].batch : Made(e)'
    BY <2>4, <2>5 DEF TypeOK, JobType
  <2> QED
    BY <2>1, <2>3, <2>4, <2>6, <2>7 DEF TypeOK
<1> QED
  BY <1>1, <1>2, <1>3, <1>4 DEF Student

\* So do a new month and the age of what runs.
LEMMA TypedCalendar ==
  ASSUME TypeOK, Rowed, NewMonth \/ Age
  PROVE  TypeOK' /\ Rowed'
<1>1. CASE NewMonth
  <2>1. UNCHANGED <<row, file, index, puts, faults, asked, charged, filed>>
    BY <1>1 DEF NewMonth
  <2>2. meter' \in Counters
    BY <1>1 DEF NewMonth, TypeOK, Counters
  <2>3. given' = [given EXCEPT !.month = 0] /\ months' = months + 1
    BY <1>1 DEF NewMonth
  <2>4. job' = [w \in Workers |-> [job[w] EXCEPT !.saw = [@ EXCEPT !.month = 0, !.ocr = 0]]]
    BY <1>1 DEF NewMonth, TypeOK, JobType, Counters
  <2>5. \A w \in Workers : [job[w].saw EXCEPT !.month = 0, !.ocr = 0] \in Counters
    BY DEF TypeOK, JobType, Counters
  <2>6. /\ job' \in [Workers -> JobType]
        /\ \A w \in Workers : job'[w].doc = job[w].doc /\ job'[w].batch = job[w].batch
    BY <2>4, <2>5 DEF TypeOK, JobType
  <2>7. given' \in [life : Nat, month : Nat] /\ months' \in Nat
    BY <2>3 DEF TypeOK
  <2>8. \A w \in Workers : \A d \in job'[w].doc \cup job'[w].batch : Made(d)'
    BY <2>1, <2>6 DEF TypeOK, Made
  <2>9. Rowed'
    BY <2>1 DEF Rowed, Owed, Made
  <2> QED
    BY <2>1, <2>2, <2>6, <2>7, <2>8, <2>9 DEF TypeOK
<1>2. CASE Age
  <2>1. UNCHANGED <<file, index, meter, job, puts, faults, months, history>>
    BY <1>2 DEF Age
  <2>2. \A d \in Docs : /\ row'[d] \in RowType
                        /\ row'[d].born = row[d].born /\ row'[d].status = row[d].status
    BY <1>2 DEF Age, TypeOK, RowType
  <2>3. row' \in [Docs -> RowType]
    BY <1>2, <2>2 DEF Age
  <2>4. \A d \in Docs : (Made(d)' <=> Made(d)) /\ (Owed(d)' <=> Owed(d))
    BY <2>2 DEF Made, Owed
  <2>5. Rowed'
    BY <2>4 DEF Rowed
  <2>6. \A w \in Workers : \A d \in job'[w].doc \cup job'[w].batch : Made(d)'
    BY <2>1, <2>4 DEF TypeOK, JobType
  <2> QED
    BY <2>1, <2>3, <2>5, <2>6 DEF TypeOK, history
<1> QED
  BY <1>1, <1>2

\* What the five kinds of worker's steps have in common: one job, one row.
LEMMA TypedJob ==
  ASSUME TypeOK, Rowed, NEW w \in Workers, NEW j \in JobType,
         job' = [job EXCEPT ![w] = j],
         row' \in [Docs -> RowType],
         \A d \in Docs : row'[d].born = row[d].born,
         \A d \in Docs : Owed(d)' => Owed(d) \/ d \in job[w].doc \cup job[w].batch,
         \A d \in j.doc \cup j.batch : d \in job[w].doc \cup job[w].batch \/ Owed(d)',
         index' \in [Docs -> Nat], meter' \in Counters, charged' \in [Docs -> Nat],
         given' \in [life : Nat, month : Nat], faults' \in Nat,
         UNCHANGED <<file, asked, filed, puts, months>>
  PROVE  TypeOK' /\ Rowed'
<1>1. job' \in [Workers -> JobType]
  BY DEF TypeOK
<1>2. \A v \in Workers : \A d \in job'[v].doc \cup job'[v].batch : Made(d) \/ Owed(d)'
  BY DEF TypeOK
<1>3. \A d \in Docs : Owed(d)' => Owed(d) \/ Made(d)'
  BY DEF TypeOK, Made
<1>4. \A d \in Docs : row'[d].born >= row[d].born
  BY DEF TypeOK, RowType
<1>5. Rowed' /\ \A v \in Workers : \A d \in job'[v].doc \cup job'[v].batch : Made(d)'
  BY <1>1, <1>2, <1>3, <1>4, TypedStep
<1> QED
  BY <1>1, <1>5 DEF TypeOK

\* The document leaves the worker's hands.
LEMMA TypedLeave ==
  ASSUME TypeOK, Rowed, NEW w \in Workers, NEW d \in job[w].doc,
         NEW status \in Status, Leave(w, d, status), faults' \in Nat,
         UNCHANGED <<file, index, meter, puts, months, history>>
  PROVE  TypeOK' /\ Rowed'
<1>1. d \in Docs /\ job[w] \in JobType
  BY DEF TypeOK, JobType
<1>2. /\ row' \in [Docs -> RowType]
      /\ \A e \in Docs : row'[e].born = row[e].born
      /\ \A e \in Docs \ {d} : row'[e] = row[e]
  <2>1. row[d] \in RowType
    BY <1>1 DEF TypeOK
  <2>2. Marked(row[d], status) \in RowType /\ Marked(row[d], status).born = row[d].born
    BY <2>1, MarkedRow
  <2> QED
    BY <1>1, <2>2 DEF Leave, TypeOK
<1>3. Onward(w) \in JobType /\ Onward(w).doc = {} /\ Onward(w).batch = job[w].batch
  BY <1>1 DEF Onward, NoJob, JobType, Counters
<1>4. job' = [job EXCEPT ![w] = Onward(w)]
  BY DEF Leave
<1>5. \A e \in Docs : Owed(e)' => Owed(e) \/ e \in job[w].doc \cup job[w].batch
  BY <1>2 DEF Owed
<1> QED
  BY <1>2, <1>3, <1>4, <1>5, TypedJob DEF history, TypeOK

\* A pass of the loop.
LEMMA PolledRows ==
  ASSUME TypeOK, NEW w \in Workers, Poll(w)
  PROVE  /\ row' \in [Docs -> RowType]
         /\ \A d \in Docs : row'[d].born = row[d].born
         /\ \A d \in Docs : Owed(d)' <=> Owed(d)
         /\ \A d \in Docs : row'[d].status \in {row[d].status, "pending"}
         /\ job' = [job EXCEPT ![w] = [NoJob EXCEPT !.batch = Oldest(row', Batch)]]
         /\ Oldest(row', Batch) \subseteq Docs
         /\ \A d \in Oldest(row', Batch) : Owed(d)'
<1>1. row' = [d \in Docs |-> Requeued(row[d])]
  BY DEF Poll
<1>2. \A d \in Docs : /\ Requeued(row[d]) \in RowType
                      /\ Requeued(row[d]).born = row[d].born
                      /\ \/ Requeued(row[d]) = row[d]
                         \/ row[d].status = "running" /\ Requeued(row[d]).status = "pending"
  BY MarkedRow DEF Requeued, TypeOK, Status
<1>3. \A d \in Oldest(row', Batch) : d \in Docs /\ row'[d].status = "pending"
  BY DEF Oldest, Queue
<1>4. job' = [job EXCEPT ![w] = [NoJob EXCEPT !.batch = Oldest(row', Batch)]]
  BY <1>1 DEF Poll
<1> QED
  BY <1>1, <1>2, <1>3, <1>4 DEF Owed

\* So do the worker's steps.
LEMMA TypedWorker ==
  ASSUME TypeOK, Rowed, NEW w \in Workers, Work(w) \/ Restart(w)
  PROVE  TypeOK' /\ Rowed'
<1>0. job[w] \in JobType
  BY DEF TypeOK
<1>1. CASE Poll(w)
  <2> DEFINE batch == Oldest(row', Batch)
             j == [NoJob EXCEPT !.batch = batch]
  <2>1. j \in JobType /\ j.doc = {} /\ j.batch = batch
    BY <1>1, PolledRows DEF NoJob, JobType, Counters
  <2>2. /\ job' = [job EXCEPT ![w] = j] /\ \A d \in batch : Owed(d)'
        /\ row' \in [Docs -> RowType] /\ \A d \in Docs : row'[d].born = row[d].born
        /\ \A d \in Docs : Owed(d)' => Owed(d)
    BY <1>1, PolledRows
  <2>3. UNCHANGED <<file, index, meter, puts, faults, months, history>>
    BY <1>1 DEF Poll
  <2> HIDE DEF batch, j
  <2> QED
    BY <2>1, <2>2, <2>3, TypedJob DEF history, TypeOK
<1>2. CASE Start(w)
  <2> PICK d \in job[w].batch :
        \/ /\ job' = [job EXCEPT ![w].batch = @ \ {d}]
           /\ UNCHANGED row
        \/ /\ row' = [row EXCEPT ![d] = Marked(@, "running")]
           /\ job' = [job EXCEPT ![w] = [@ EXCEPT !.step = "read", !.doc = {d},
                                                  !.batch = job[w].batch \ {d}]]
    BY <1>2 DEF Start
  <2>1. d \in Docs
    BY DEF TypeOK, JobType
  <2>2. UNCHANGED <<file, index, meter, puts, faults, months, history>>
    BY <1>2 DEF Start
  <2>3. /\ row' \in [Docs -> RowType]
        /\ \A e \in Docs : row'[e].born = row[e].born
        /\ \A e \in Docs \ {d} : row'[e] = row[e]
    <3>1. row[d] \in RowType /\ "running" \in Status
      BY <2>1 DEF TypeOK, Status
    <3>2. Marked(row[d], "running") \in RowType /\ Marked(row[d], "running").born = row[d].born
      BY <3>1, MarkedRow
    <3> QED
      BY <2>1, <3>2 DEF TypeOK
  <2>4. \A e \in Docs : Owed(e)' => Owed(e) \/ e \in job[w].doc \cup job[w].batch
    BY <2>3 DEF Owed
  <2>5. PICK j \in JobType : job' = [job EXCEPT ![w] = j]
                           /\ j.doc \cup j.batch \subseteq job[w].doc \cup job[w].batch
    <3> DEFINE gone == [job[w] EXCEPT !.batch = @ \ {d}]
               read == [job[w] EXCEPT !.step = "read", !.doc = {d}, !.batch = job[w].batch \ {d}]
    <3>1. gone \in JobType /\ gone.doc \cup gone.batch \subseteq job[w].doc \cup job[w].batch
      BY <1>0, <2>1 DEF JobType
    <3>2. read \in JobType /\ read.doc \cup read.batch \subseteq job[w].doc \cup job[w].batch
      BY <1>0, <2>1 DEF JobType
    <3>3. job' = [job EXCEPT ![w] = gone] \/ job' = [job EXCEPT ![w] = read]
      BY DEF TypeOK
    <3> HIDE DEF gone, read
    <3> QED
      BY <3>1, <3>2, <3>3
  <2> QED
    BY <2>2, <2>3, <2>4, <2>5, TypedJob DEF history, TypeOK
<1>3. CASE ReadUnreachable(w)
  <2>1. faults' \in Nat /\ UNCHANGED <<file, index, meter, puts, months, history>>
    BY <1>3 DEF ReadUnreachable, Fault, TypeOK
  <2> PICK d \in job[w].doc : Leave(w, d, "pending")
    BY <1>3 DEF ReadUnreachable
  <2> QED
    BY <2>1, TypedLeave DEF Status
<1>4. CASE ReadRefused(w)
  <2>1. faults' \in Nat /\ UNCHANGED <<file, index, meter, puts, months, history>>
    BY <1>4 DEF ReadRefused, Fault, TypeOK
  <2>2. PICK d \in job[w].doc : \E status \in {"failed", "skipped"} : Leave(w, d, status)
    BY <1>4 DEF ReadRefused, Refusal
  <2> QED
    BY <2>1, <2>2, TypedLeave DEF Status, Terminal
<1>5. CASE ReadText(w)
  <2> PICK d \in job[w].doc \ Stuck :
        job' = [job EXCEPT ![w] = [@ EXCEPT !.step = "write", !.ver = file[d].ver,
                                           !.pages = PageCount(d), !.saw = meter]]
    BY <1>5 DEF ReadText
  <2> DEFINE j == [job[w] EXCEPT !.step = "write", !.ver = file[d].ver,
                                 !.pages = PageCount(d), !.saw = meter]
  <2>1. file[d].ver \in Nat /\ PageCount(d) \in Nat
    BY DEF TypeOK, JobType, FileType, PageCount
  <2>2. j \in JobType /\ j.doc = job[w].doc /\ j.batch = job[w].batch
    BY <1>0, <2>1 DEF JobType, TypeOK
  <2>3. job' = [job EXCEPT ![w] = j]
    BY DEF TypeOK
  <2>4. UNCHANGED <<row, file, index, meter, puts, faults, months, history>>
    BY <1>5 DEF ReadText
  <2> HIDE DEF j
  <2>5. \A e \in Docs : Owed(e)' => Owed(e)
    BY <2>4 DEF Owed
  <2> QED
    BY <2>2, <2>3, <2>4, <2>5, TypedJob DEF history, TypeOK
<1>6. CASE WriteIndex(w)
  <2> PICK d \in job[w].doc :
        /\ row' = [row EXCEPT ![d] = Marked(@, "done")]
        /\ index' = [index EXCEPT ![d] = job[w].ver]
        /\ \E c \in {job[w].saw, meter} : meter' = Spend(c, d, job[w].pages)
        /\ job' = [job EXCEPT ![w] = Onward(w)]
        /\ charged' = [charged EXCEPT ![d] = @ + 1]
        /\ given' = [life |-> given.life + job[w].pages, month |-> given.month + job[w].pages]
    BY <1>6 DEF WriteIndex, Indexed, DoneRow
  <2>1. d \in Docs /\ job[w].pages \in Nat /\ job[w].ver \in Nat
    BY <1>0 DEF JobType
  <2>2. /\ row' \in [Docs -> RowType]
        /\ \A e \in Docs : row'[e].born = row[e].born
        /\ \A e \in Docs \ {d} : row'[e] = row[e]
    <3>1. row[d] \in RowType /\ "done" \in Status
      BY <2>1 DEF TypeOK, Status, Terminal
    <3>2. Marked(row[d], "done") \in RowType /\ Marked(row[d], "done").born = row[d].born
      BY <3>1, MarkedRow
    <3> QED
      BY <2>1, <3>2 DEF TypeOK
  <2>3. \A e \in Docs : Owed(e)' => Owed(e) \/ e \in job[w].doc \cup job[w].batch
    BY <2>2 DEF Owed
  <2>4. index' \in [Docs -> Nat] /\ charged' \in [Docs -> Nat]
        /\ given' \in [life : Nat, month : Nat]
    BY <2>1 DEF TypeOK
  <2>5. meter' \in Counters
    BY <1>0, <2>1 DEF TypeOK, JobType, Counters, Spend
  <2>6. Onward(w) \in JobType /\ Onward(w).doc = {} /\ Onward(w).batch = job[w].batch
    BY <1>0 DEF Onward, NoJob, JobType, Counters
  <2>7. UNCHANGED <<file, puts, faults, months, asked, filed>>
    BY <1>6 DEF WriteIndex
  <2> QED
    BY <2>2, <2>3, <2>4, <2>5, <2>6, <2>7, TypedJob DEF TypeOK
<1>7. CASE Restart(w)
  <2>1. /\ faults' \in Nat /\ job' = [job EXCEPT ![w] = NoJob]
        /\ UNCHANGED <<world, puts, months, history>>
    BY <1>7 DEF Restart, Fault, TypeOK
  <2>2. NoJob \in JobType /\ NoJob.doc = {} /\ NoJob.batch = {}
    BY DEF NoJob, JobType, Counters
  <2>3. \A e \in Docs : Owed(e)' => Owed(e)
    BY <2>1 DEF world, Owed
  <2> QED
    BY <2>1, <2>2, <2>3, TypedJob DEF world, history, TypeOK
<1> QED
  BY <1>1, <1>2, <1>3, <1>4, <1>5, <1>6, <1>7 DEF Work

\* Every variable keeps to its type, for any documents, workers and limits.
THEOREM TypeCorrect == Spec => [](TypeOK /\ Rowed)
<1>1. ASSUME Init PROVE TypeOK /\ Rowed
  <2>1. NoRow \in RowType
    BY DEF NoRow, RowType, Kinds, Status
  <2>2. NoJob \in JobType /\ NoJob.doc = {} /\ NoJob.batch = {}
    BY DEF NoJob, JobType, Counters
  <2>3. row \in [Docs -> RowType] /\ job \in [Workers -> JobType]
    BY <1>1, <2>1, <2>2 DEF Init
  <2>4. \A w \in Workers : job[w].doc \cup job[w].batch = {}
    BY <1>1, <2>2 DEF Init
  <2>5. file \in [Docs -> FileType] /\ meter \in Counters
    BY <1>1 DEF Init, FileType, Counters
  <2>6. Rowed
    BY <1>1 DEF Init, Rowed, Owed, NoRow
  <2> QED
    BY <1>1, <2>3, <2>4, <2>5, <2>6 DEF Init, TypeOK
<1>2. TypeOK /\ Rowed /\ [Next]_vars => TypeOK' /\ Rowed'
  <2> SUFFICES ASSUME TypeOK, Rowed, [Next]_vars PROVE TypeOK' /\ Rowed'
    OBVIOUS
  <2>1. CASE UNCHANGED vars
    BY <2>1 DEF vars, TypeOK, Rowed, Owed, Made
  <2> QED
    BY <2>1, TypedStudent, TypedCalendar, TypedWorker DEF Next
<1> QED
  BY <1>1, <1>2, PTL DEF Spec

-----------------------------------------------------------------------------
(* What a worker holds, and what its steps do.                             *)

\* The steps of the student, of the calendar and of the clock leave the
\* workers' hands and the versions they read alone.
LEMMA HandsAlone ==
  ASSUME TypeOK, Student \/ NewMonth \/ Age, NEW w \in Workers
  PROVE  /\ job'[w].step = job[w].step /\ job'[w].doc = job[w].doc
         /\ job'[w].batch = job[w].batch /\ job'[w].ver = job[w].ver
         /\ job'[w].pages = job[w].pages
<1>1. CASE Student
  BY <1>1 DEF Student, StartUpload, PutBytes, CompleteUpload, Delete
<1>2. CASE NewMonth
  BY <1>2 DEF NewMonth, TypeOK, JobType
<1>3. CASE Age
  BY <1>3 DEF Age
<1> QED
  BY <1>1, <1>2, <1>3

\* Steps of a worker that neither read a document to its end nor write it.
Quiet(w) ==
  \/ Poll(w) \/ Start(w) \/ ReadUnreachable(w) \/ ReadRefused(w) \/ Restart(w)

\* They touch no file, index or counter, leave nobody ready to write, finish
\* no document well, and keep in the worker's hands only what it had.
LEMMA QuietStep ==
  ASSUME TypeOK, Hands, NEW w \in Workers, Quiet(w)
  PROVE  /\ UNCHANGED <<file, index, meter, history>>
         /\ \A v \in Workers \ {w} : job'[v] = job[v]
         /\ job'[w].step # "write"
         /\ InOrder(job'[w])
         /\ \A d \in Docs : row'[d].status = "done" => row[d].status = "done"
<1>0. job[w] \in JobType
  BY DEF TypeOK
<1>1. CASE Poll(w)
  BY <1>1, PolledRows DEF Poll, NoJob, TypeOK, InOrder
<1>2. CASE Start(w)
  <2> PICK d \in job[w].batch :
        \/ /\ job' = [job EXCEPT ![w].batch = @ \ {d}]
           /\ UNCHANGED row
        \/ /\ row' = [row EXCEPT ![d] = Marked(@, "running")]
           /\ job' = [job EXCEPT ![w] = [@ EXCEPT !.step = "read", !.doc = {d},
                                                  !.batch = job[w].batch \ {d}]]
    BY <1>2 DEF Start
  <2>1. job[w].step = "poll" /\ job[w].doc = {}
    BY <1>2 DEF Start, Hands, InOrder
  <2>2. /\ job'[w].step \in {"poll", "read"} /\ job'[w].doc \in {{}, {d}}
        /\ job'[w].step = "poll" => job'[w].doc = {}
        /\ job'[w].batch = job[w].batch \ {d}
    <3>1. CASE job' = [job EXCEPT ![w].batch = @ \ {d}]
      BY <1>0, <2>1, <3>1 DEF TypeOK, JobType
    <3>2. CASE job' = [job EXCEPT ![w] = [@ EXCEPT !.step = "read", !.doc = {d},
                                                  !.batch = job[w].batch \ {d}]]
      BY <1>0, <3>2 DEF TypeOK, JobType
    <3> QED
      BY <3>1, <3>2
  <2>3. \A e \in Docs : row'[e].status = "done" => row[e].status = "done"
    <3>1. row' = row \/ row' = [row EXCEPT ![d] = Marked(row[d], "running")]
      OBVIOUS
    <3>2. d \in Docs /\ row[d] \in RowType
      BY <1>0 DEF TypeOK, JobType
    <3>3. Marked(row[d], "running").status = "running"
      BY <3>2 DEF Marked, RowType
    <3>4. \A e \in Docs : row'[e] = row[e] \/ row'[e] = Marked(row[d], "running")
      BY <3>1, <3>2 DEF TypeOK
    <3> QED
      BY <3>3, <3>4
  <2>4. \A v \in Workers \ {w} : job'[v] = job[v]
    BY DEF TypeOK
  <2>5. UNCHANGED <<file, index, meter, history>>
    BY <1>2 DEF Start
  <2> QED
    BY <2>2, <2>3, <2>4, <2>5 DEF InOrder
<1>3. CASE ReadUnreachable(w) \/ ReadRefused(w)
  <2>1. PICK d \in job[w].doc : \E status \in {"pending", "failed", "skipped"} : Leave(w, d, status)
    BY <1>3 DEF ReadUnreachable, ReadRefused, Refusal
  <2>2. job' = [job EXCEPT ![w] = Onward(w)] /\ Onward(w).step = "poll" /\ Onward(w).doc = {}
    BY <2>1 DEF Leave, Onward, NoJob
  <2>3. \A e \in Docs : row'[e].status = "done" => row[e].status = "done"
    BY <2>1 DEF Leave, Marked, TypeOK, RowType
  <2>4. UNCHANGED <<file, index, meter, history>>
    BY <1>3 DEF ReadUnreachable, ReadRefused
  <2> QED
    BY <2>2, <2>3, <2>4 DEF TypeOK, InOrder
<1>4. CASE Restart(w)
  BY <1>4 DEF Restart, NoJob, world, TypeOK, InOrder
<1> QED
  BY <1>1, <1>2, <1>3, <1>4 DEF Quiet

\* Reading a document to its end: the version and the counters of that moment.
LEMMA ReadTextStep ==
  ASSUME TypeOK, Hands, NEW w \in Workers, ReadText(w)
  PROVE  \E d \in Docs :
           /\ job[w].doc = {d} /\ job'[w].doc = {d} /\ job'[w].batch = job[w].batch
           /\ job'[w].step = "write" /\ job'[w].ver = file[d].ver
           /\ job'[w].pages = PageCount(d) /\ job'[w].saw = meter
           /\ PagesFit(PageCount(d)) /\ PageCount(d) \in Nat
           /\ \A v \in Workers \ {w} : job'[v] = job[v]
           /\ UNCHANGED <<row, file, index, meter, history>>
<1> PICK d \in job[w].doc \ Stuck :
      /\ Refusal(d) = {}
      /\ job' = [job EXCEPT ![w] = [@ EXCEPT !.step = "write", !.ver = file[d].ver,
                                         !.pages = PageCount(d), !.saw = meter]]
  BY DEF ReadText
<1>1. d \in Docs /\ job[w].doc = {d} /\ job[w] \in JobType
  BY DEF TypeOK, JobType, Hands, InOrder
<1>2. PagesFit(PageCount(d))
  BY DEF Refusal
<1>3. PageCount(d) \in Nat
  BY <1>1 DEF PageCount, TypeOK, FileType
<1>4. UNCHANGED <<row, file, index, meter, history>>
  BY DEF ReadText
<1> QED
  BY <1>1, <1>2, <1>3, <1>4 DEF TypeOK, JobType

\* Writing it.
LEMMA WriteIndexStep ==
  ASSUME TypeOK, Hands, NEW w \in Workers, WriteIndex(w)
  PROVE  \E d \in Docs :
           /\ job[w].step = "write" /\ job[w].doc = {d} /\ d \notin job[w].batch
           /\ job'[w].step = "poll" /\ job'[w].doc = {} /\ job'[w].batch = job[w].batch
           /\ row'[d].status = "done" /\ \A e \in Docs \ {d} : row'[e] = row[e]
           /\ index' = [index EXCEPT ![d] = job[w].ver]
           /\ \E c \in {job[w].saw, meter} :
                meter'.life = c.life + job[w].pages /\ meter'.month = c.month + job[w].pages
           /\ charged' = [charged EXCEPT ![d] = @ + 1]
           /\ given' = [life |-> given.life + job[w].pages, month |-> given.month + job[w].pages]
           /\ \A v \in Workers \ {w} : job'[v] = job[v]
           /\ UNCHANGED <<file, asked, filed>>
<1> PICK d \in job[w].doc :
      /\ row' = [row EXCEPT ![d] = Marked(@, "done")]
      /\ index' = [index EXCEPT ![d] = job[w].ver]
      /\ \E c \in {job[w].saw, meter} : meter' = Spend(c, d, job[w].pages)
      /\ job' = [job EXCEPT ![w] = Onward(w)]
      /\ charged' = [charged EXCEPT ![d] = @ + 1]
      /\ given' = [life |-> given.life + job[w].pages, month |-> given.month + job[w].pages]
  BY DEF WriteIndex, Indexed, DoneRow
<1>1. d \in Docs /\ job[w].doc = {d} /\ d \notin job[w].batch
  BY DEF TypeOK, JobType, Hands, InOrder
<1>2. row'[d].status = "done" /\ \A e \in Docs \ {d} : row'[e] = row[e]
  BY <1>1 DEF TypeOK, RowType, Marked
<1>3. job'[w].step = "poll" /\ job'[w].doc = {} /\ job'[w].batch = job[w].batch
      /\ \A v \in Workers \ {w} : job'[v] = job[v]
  BY DEF TypeOK, Onward, NoJob
<1>4. \E c \in {job[w].saw, meter} :
        meter'.life = c.life + job[w].pages /\ meter'.month = c.month + job[w].pages
  BY DEF Spend
<1>5. job[w].step = "write" /\ UNCHANGED <<file, asked, filed>>
  BY DEF WriteIndex
<1> QED
  BY <1>1, <1>2, <1>3, <1>4, <1>5

\* A worker's step is quiet, reads a document or writes one.
LEMMA WorkerStep ==
  ASSUME NEW w \in Workers, Work(w) \/ Restart(w)
  PROVE  Quiet(w) \/ ReadText(w) \/ WriteIndex(w)
  BY DEF Work, Quiet

\* A worker holds one document at a time.
LEMMA HandsStep ==
  ASSUME TypeOK, Hands, [Next]_vars
  PROVE  Hands'
<1>1. CASE Student \/ NewMonth \/ Age
  BY <1>1, HandsAlone DEF Hands, InOrder
<1>2. ASSUME NEW w \in Workers, Work(w) \/ Restart(w) PROVE Hands'
  <2>1. InOrder(job'[w]) /\ \A v \in Workers \ {w} : job'[v] = job[v]
    <3>1. CASE Quiet(w)
      BY <3>1, QuietStep
    <3>2. CASE ReadText(w)
      BY <3>2, ReadTextStep DEF Hands, InOrder
    <3>3. CASE WriteIndex(w)
      BY <3>3, WriteIndexStep DEF Hands, InOrder
    <3> QED
      BY <1>2, <3>1, <3>2, <3>3, WorkerStep
  <2> QED
    BY <2>1 DEF Hands
<1>3. CASE UNCHANGED vars
  BY <1>3 DEF vars, Hands
<1> QED
  BY <1>1, <1>2, <1>3 DEF Next

-----------------------------------------------------------------------------
(* A document that is done shows what was uploaded.                        *)

\* Uploading, completing and deleting hide no version that was completed.
LEMMA FreshStudent ==
  ASSUME TypeOK, AllFresh, Student
  PROVE  AllFresh'
<1>1. ASSUME NEW d \in Docs, NEW kind \in Kinds, StartUpload(d, kind)
      PROVE  AllFresh'
  <2>1. \A e \in Docs : row'[e].status = "done" => row[e].status = "done"
    BY <1>1 DEF StartUpload, TypeOK, RowType, NoRow
  <2>2. UNCHANGED <<file, filed, index, job>>
    BY <1>1 DEF StartUpload
  <2> QED
    BY <2>1, <2>2 DEF AllFresh, Fresh
<1>2. ASSUME NEW d \in Docs, NEW pages \in FileSizes, PutBytes(d, pages)
      PROVE  AllFresh'
  <2>1. \A e \in Docs : file'[e].ver >= file[e].ver
    BY <1>2 DEF PutBytes, TypeOK, FileType
  <2>2. \A e \in Docs : filed[e] <= file'[e].ver
    BY <2>1, <1>2 DEF AllFresh, Fresh, TypeOK, FileType, PutBytes
  <2>3. UNCHANGED <<row, filed, index, job>>
    BY <1>2 DEF PutBytes
  <2> QED
    BY <2>2, <2>3 DEF AllFresh, Fresh
<1>3. ASSUME NEW d \in Docs, CompleteUpload(d)
      PROVE  AllFresh'
  <2>1. row'[d].status = "pending" /\ \A e \in Docs \ {d} : row'[e] = row[e]
    BY <1>3 DEF CompleteUpload, TypeOK, RowType
  <2>2. filed'[d] = (IF InHand(d) THEN filed[d] ELSE file[d].ver)
        /\ \A e \in Docs \ {d} : filed'[e] = filed[e]
    BY <1>3 DEF CompleteUpload, TypeOK
  <2>3. UNCHANGED <<file, index, job>>
    BY <1>3 DEF CompleteUpload
  <2>4. Fresh(d)'
    BY <2>1, <2>2, <2>3 DEF AllFresh, Fresh, InHand, TypeOK, FileType
  <2>5. \A e \in Docs \ {d} : Fresh(e)'
    BY <2>1, <2>2, <2>3 DEF AllFresh, Fresh
  <2> QED
    BY <2>4, <2>5 DEF AllFresh
<1>4. ASSUME NEW d \in Docs, Delete(d)
      PROVE  AllFresh'
  <2>1. \A e \in Docs : row'[e].status = row[e].status
    BY <1>4 DEF Delete, TypeOK, RowType
  <2>2. UNCHANGED <<file, filed, index, job>>
    BY <1>4 DEF Delete
  <2> QED
    BY <2>1, <2>2 DEF AllFresh, Fresh
<1> QED
  BY <1>1, <1>2, <1>3, <1>4 DEF Student

\* Nor does any other step.
LEMMA FreshStep ==
  ASSUME TypeOK, Hands, AllFresh, [Next]_vars
  PROVE  AllFresh'
<1>1. CASE NewMonth \/ Age
  <2>1. \A e \in Docs : row'[e].status = row[e].status
    <3>1. CASE NewMonth
      BY <3>1 DEF NewMonth
    <3>2. CASE Age
      BY <3>2 DEF Age, TypeOK, RowType
    <3> QED
      BY <1>1, <3>1, <3>2
  <2>2. UNCHANGED <<file, filed, index>>
    BY <1>1 DEF NewMonth, Age, history
  <2> QED
    BY <1>1, <2>1, <2>2, HandsAlone DEF AllFresh, Fresh
<1>2. ASSUME NEW w \in Workers, Quiet(w) PROVE AllFresh'
  BY <1>2, QuietStep DEF AllFresh, Fresh, history
<1>3. ASSUME NEW w \in Workers, ReadText(w) PROVE AllFresh'
  BY <1>3, ReadTextStep DEF AllFresh, Fresh, history
<1>4. ASSUME NEW w \in Workers, WriteIndex(w) PROVE AllFresh'
  <2> PICK d \in Docs :
        /\ job[w].step = "write" /\ job[w].doc = {d}
        /\ job'[w].step = "poll"
        /\ \A e \in Docs \ {d} : row'[e] = row[e]
        /\ index' = [index EXCEPT ![d] = job[w].ver]
        /\ \A v \in Workers \ {w} : job'[v] = job[v]
        /\ UNCHANGED <<file, filed>>
    BY <1>4, WriteIndexStep
  <2>1. index'[d] = job[w].ver /\ \A e \in Docs \ {d} : index'[e] = index[e]
    BY DEF TypeOK
  <2> QED
    BY <2>1 DEF AllFresh, Fresh
<1>5. CASE UNCHANGED vars
  BY <1>5 DEF vars, AllFresh, Fresh
<1> QED
  BY <1>1, <1>2, <1>3, <1>4, <1>5, FreshStudent, WorkerStep DEF Next

\* A document that is done shows the file it was completed with, or a newer
\* one, however many workers read the queue.
THEOREM DoneIsFresh == Spec => []DoneShowsTheUpload
<1>1. Init => Hands /\ AllFresh
  BY DEF Init, Hands, InOrder, AllFresh, Fresh, NoRow, NoJob
<1>2. TypeOK /\ Hands /\ AllFresh /\ [Next]_vars => Hands' /\ AllFresh'
  BY HandsStep, FreshStep
<1>3. AllFresh => DoneShowsTheUpload
  BY DEF AllFresh, Fresh, DoneShowsTheUpload
<1> QED
  BY <1>1, <1>2, <1>3, TypeCorrect, PTL DEF Spec

-----------------------------------------------------------------------------
(* With one worker, no document is charged more often than asked for.      *)

\* Only one worker reads the queue, as the service is run.
OneWorker == \A v, w \in Workers : v = w

\* Steps that charge nothing and end no reading that was not asked for.
LEMMA PaidStays ==
  ASSUME TypeOK, AllPaid, UNCHANGED <<charged, asked>>,
         \A d \in Docs : Owed(d)' => Owed(d),
         \A w \in Workers : \A d \in job'[w].doc \cup job'[w].batch : Owed(d)'
  PROVE  AllPaid'
  BY DEF AllPaid, Paid

\* The student asks, and is charged nothing by that.
LEMMA PaidStudent ==
  ASSUME TypeOK, AllPaid, Student
  PROVE  AllPaid'
<1>1. PICK d \in Docs : \/ \E kind \in Kinds : StartUpload(d, kind)
                        \/ \E pages \in FileSizes : PutBytes(d, pages)
                        \/ CompleteUpload(d)
                        \/ Delete(d)
  BY DEF Student
<1>2. UNCHANGED <<charged, job>>
  BY <1>1 DEF StartUpload, PutBytes, CompleteUpload, Delete
<1>3. CASE (\E kind \in Kinds : StartUpload(d, kind)) \/ CompleteUpload(d)
  <2>1. asked' = [asked EXCEPT ![d] = @ + 1]
    BY <1>3 DEF StartUpload, CompleteUpload
  <2>2. row'[d].status = "pending"
    <3>1. CASE \E kind \in Kinds : StartUpload(d, kind)
      BY <3>1 DEF StartUpload, TypeOK, RowType, NoRow
    <3>2. CASE CompleteUpload(d)
      BY <3>2 DEF CompleteUpload, TypeOK, RowType
    <3> QED
      BY <1>3, <3>1, <3>2
  <2>3. \A e \in Docs \ {d} : row'[e] = row[e]
    BY <1>3 DEF StartUpload, CompleteUpload, TypeOK
  <2>4. charged[d] <= asked[d] /\ charged[d] \in Nat /\ asked[d] \in Nat
    BY DEF AllPaid, Paid, TypeOK
  <2>5. Paid(d)'
    BY <1>2, <2>1, <2>2, <2>4 DEF Paid, Owed, TypeOK
  <2>6. \A e \in Docs \ {d} : Paid(e)'
    BY <1>2, <2>1, <2>3 DEF AllPaid, Paid, Owed, TypeOK
  <2> QED
    BY <2>5, <2>6 DEF AllPaid
<1>4. CASE (\E pages \in FileSizes : PutBytes(d, pages)) \/ Delete(d)
  <2>1. \A e \in Docs : row'[e].status = row[e].status
    BY <1>4 DEF PutBytes, Delete, TypeOK, RowType
  <2>2. asked' = asked
    BY <1>4 DEF PutBytes, Delete
  <2> QED
    BY <1>2, <2>1, <2>2 DEF AllPaid, Paid, Owed
<1> QED
  BY <1>1, <1>3, <1>4

\* Polling, starting, giving a document back and restarting charge nothing.
LEMMA PaidQuiet ==
  ASSUME TypeOK, Hands, AllPaid, OneWorker, NEW w \in Workers, Quiet(w)
  PROVE  AllPaid'
<1>0. job[w] \in JobType /\ UNCHANGED <<charged, asked>>
  BY QuietStep DEF TypeOK, history
<1>1. CASE Poll(w)
  <2>1. \A d \in Docs : Owed(d)' <=> Owed(d)
    BY <1>1, PolledRows
  <2>2. job'[w].doc = {} /\ \A d \in job'[w].batch : Owed(d)'
    BY <1>1, PolledRows DEF NoJob, TypeOK
  <2> QED
    BY <1>0, <2>1, <2>2, PaidStays DEF OneWorker
<1>2. CASE Start(w)
  <2> PICK d \in job[w].batch :
        \/ /\ job' = [job EXCEPT ![w].batch = @ \ {d}]
           /\ UNCHANGED row
        \/ /\ row' = [row EXCEPT ![d] = Marked(@, "running")]
           /\ job' = [job EXCEPT ![w] = [@ EXCEPT !.step = "read", !.doc = {d},
                                                  !.batch = job[w].batch \ {d}]]
    BY <1>2 DEF Start
  <2>1. d \in Docs /\ Owed(d) /\ row[d] \in RowType
    BY <1>0 DEF AllPaid, Paid, JobType, TypeOK
  <2>2. Owed(d)' /\ \A e \in Docs \ {d} : row'[e] = row[e]
    <3>1. Marked(row[d], "running").status = "running"
      BY <2>1 DEF Marked, RowType
    <3>2. row' = row \/ row' = [row EXCEPT ![d] = Marked(row[d], "running")]
      OBVIOUS
    <3> QED
      BY <2>1, <3>1, <3>2 DEF Owed, TypeOK
  <2>3. \A e \in Docs : Owed(e)' <=> Owed(e)
    BY <2>1, <2>2 DEF Owed
  <2>4. job'[w].doc \cup job'[w].batch \subseteq job[w].doc \cup job[w].batch
    <3>1. CASE job' = [job EXCEPT ![w].batch = @ \ {d}]
      BY <1>0, <3>1 DEF TypeOK, JobType
    <3>2. CASE job' = [job EXCEPT ![w] = [@ EXCEPT !.step = "read", !.doc = {d},
                                                  !.batch = job[w].batch \ {d}]]
      BY <1>0, <3>2 DEF TypeOK, JobType
    <3> QED
      BY <3>1, <3>2
  <2>5. \A e \in job[w].doc \cup job[w].batch : e \in Docs /\ Owed(e)
    BY <1>0 DEF AllPaid, Paid, JobType
  <2> QED
    BY <1>0, <2>3, <2>4, <2>5, PaidStays DEF OneWorker
<1>3. CASE ReadUnreachable(w) \/ ReadRefused(w)
  <2>1. PICK d \in job[w].doc : \E status \in {"pending", "failed", "skipped"} : Leave(w, d, status)
    BY <1>3 DEF ReadUnreachable, ReadRefused, Refusal
  <2>2. d \in Docs /\ Owed(d) /\ row[d] \in RowType /\ d \notin job[w].batch
    BY <1>0, <2>1 DEF AllPaid, Paid, JobType, TypeOK, Hands, InOrder
  <2>3. \A e \in Docs \ {d} : row'[e] = row[e]
    BY <2>1 DEF Leave, TypeOK
  <2>4. job'[w].doc = {} /\ job'[w].batch = job[w].batch
    BY <2>1 DEF Leave, Onward, NoJob, TypeOK
  <2>5. \A e \in job'[w].batch : Owed(e)'
    BY <1>0, <2>2, <2>3, <2>4 DEF AllPaid, Paid, JobType, Owed
  <2>6. \A e \in Docs : Owed(e)' => Owed(e)
    BY <2>2, <2>3 DEF Owed
  <2> QED
    BY <1>0, <2>4, <2>5, <2>6, PaidStays DEF OneWorker
<1>4. CASE Restart(w)
  <2>1. row' = row /\ job'[w].doc = {} /\ job'[w].batch = {}
    BY <1>4 DEF Restart, world, NoJob, TypeOK
  <2> QED
    BY <1>0, <2>1, PaidStays DEF OneWorker, Owed
<1> QED
  BY <1>1, <1>2, <1>3, <1>4 DEF Quiet

\* A step charges a document only when it is owed a reading, and settles that.
LEMMA PaidStep ==
  ASSUME TypeOK, Hands, AllPaid, OneWorker, [Next]_vars
  PROVE  AllPaid'
<1>1. CASE NewMonth \/ Age
  <2>1. \A e \in Docs : row'[e].status = row[e].status
    <3>1. CASE NewMonth
      BY <3>1 DEF NewMonth
    <3>2. CASE Age
      BY <3>2 DEF Age, TypeOK, RowType
    <3> QED
      BY <1>1, <3>1, <3>2
  <2>2. UNCHANGED <<charged, asked>>
    BY <1>1 DEF NewMonth, Age, history
  <2> QED
    BY <1>1, <2>1, <2>2, HandsAlone DEF AllPaid, Paid, Owed
<1>2. ASSUME NEW w \in Workers, ReadText(w) PROVE AllPaid'
  <2>1. /\ job'[w].doc = job[w].doc /\ job'[w].batch = job[w].batch
        /\ UNCHANGED <<row, history>>
    BY <1>2, ReadTextStep
  <2> QED
    BY <2>1 DEF OneWorker, AllPaid, Paid, Owed, history
<1>3. ASSUME NEW w \in Workers, WriteIndex(w) PROVE AllPaid'
  <2> PICK d \in Docs :
        /\ job[w].doc = {d} /\ d \notin job[w].batch
        /\ job'[w].doc = {} /\ job'[w].batch = job[w].batch
        /\ row'[d].status = "done" /\ \A e \in Docs \ {d} : row'[e] = row[e]
        /\ charged' = [charged EXCEPT ![d] = @ + 1]
        /\ asked' = asked
    BY <1>3, WriteIndexStep
  <2>1. charged[d] < asked[d] /\ charged[d] \in Nat /\ asked[d] \in Nat
    BY DEF AllPaid, Paid, TypeOK
  <2>2. charged'[d] = charged[d] + 1 /\ \A e \in Docs \ {d} : charged'[e] = charged[e]
    BY DEF TypeOK
  <2>3. Paid(d)'
    BY <2>1, <2>2 DEF Paid, Owed, OneWorker
  <2>4. \A e \in Docs \ {d} : Paid(e)'
    BY <2>2 DEF AllPaid, Paid, Owed, OneWorker
  <2> QED
    BY <2>3, <2>4 DEF AllPaid
<1>4. CASE UNCHANGED vars
  BY <1>4 DEF vars, AllPaid, Paid, Owed
<1> QED
  BY <1>1, <1>2, <1>3, <1>4, PaidStudent, PaidQuiet, WorkerStep DEF Next

\* A crash, a failure or a requeue costs the student nothing.
THEOREM ChargedAsAsked ==
  ASSUME OneWorker
  PROVE  Spec => []ChargedPerRequest
<1>1. Init => Hands /\ AllPaid
  BY DEF Init, Hands, InOrder, AllPaid, Paid, Owed, NoRow, NoJob
<1>2. TypeOK /\ Hands /\ AllPaid /\ [Next]_vars => Hands' /\ AllPaid'
  BY HandsStep, PaidStep
<1>3. AllPaid => ChargedPerRequest
  BY DEF AllPaid, Paid, ChargedPerRequest
<1> QED
  BY <1>1, <1>2, <1>3, TypeCorrect, PTL DEF Spec

-----------------------------------------------------------------------------
(* With one worker, the pools hold.                                        *)

\* The counters stay what was given, and within the pools.
LEMMA MeteredStep ==
  ASSUME TypeOK, Hands, Metered, OneWorker, [Next]_vars
  PROVE  Metered'
<1>0. \A w \in Workers : job[w] \in JobType
  BY DEF TypeOK
<1>1. CASE Student
  BY <1>1 DEF Student, StartUpload, PutBytes, CompleteUpload, Delete, Metered
<1>2. CASE NewMonth
  <2>1. /\ given'.life = given.life /\ given'.month = 0
        /\ meter'.life = meter.life /\ meter'.month = 0
    BY <1>2 DEF NewMonth, TypeOK, Counters
  <2>2. \A w \in Workers : job'[w].saw.life = job[w].saw.life /\ job'[w].saw.month = 0
    BY <1>0, <1>2 DEF NewMonth, JobType, Counters
  <2>3. \A w \in Workers : job'[w].step = job[w].step /\ job'[w].pages = job[w].pages
    BY <1>2, HandsAlone
  <2>4. \A w \in Workers : job[w].pages \in Nat
    BY <1>0 DEF JobType
  <2>5. meter.month \in Nat
    BY DEF TypeOK, Counters
  <2> QED
    BY <2>1, <2>2, <2>3, <2>4, <2>5, Limits DEF Metered
<1>3. CASE Age
  BY <1>3 DEF Age, history, Metered
<1>4. ASSUME NEW w \in Workers, Quiet(w) PROVE Metered'
  BY <1>4, QuietStep DEF Metered, OneWorker, history
<1>5. ASSUME NEW w \in Workers, ReadText(w) PROVE Metered'
  <2> PICK d \in Docs :
        /\ job'[w].pages = PageCount(d) /\ job'[w].saw = meter
        /\ PagesFit(PageCount(d)) /\ PageCount(d) \in Nat
        /\ UNCHANGED <<meter, history>>
    BY <1>5, ReadTextStep
  <2>1. meter.life + job'[w].pages <= LifePool /\ meter.month + job'[w].pages <= MonthPool
    BY DEF PagesFit
  <2> QED
    BY <2>1 DEF Metered, OneWorker, history
<1>6. ASSUME NEW w \in Workers, WriteIndex(w) PROVE Metered'
  <2>1. /\ job[w].step = "write" /\ job'[w].step = "poll"
        /\ \E c \in {job[w].saw, meter} :
             meter'.life = c.life + job[w].pages /\ meter'.month = c.month + job[w].pages
        /\ given' = [life |-> given.life + job[w].pages, month |-> given.month + job[w].pages]
    BY <1>6, WriteIndexStep
  <2>2. /\ meter'.life = meter.life + job[w].pages
        /\ meter'.month = meter.month + job[w].pages
    BY <2>1 DEF Metered
  <2>3. given'.life = given.life + job[w].pages /\ given'.month = given.month + job[w].pages
    BY <2>1
  <2> QED
    BY <2>1, <2>2, <2>3 DEF Metered, OneWorker
<1>7. CASE UNCHANGED vars
  BY <1>7 DEF vars, Metered
<1> QED
  BY <1>1, <1>2, <1>3, <1>4, <1>5, <1>6, <1>7, WorkerStep DEF Next

\* The pages given stay within the plan's pools, whatever is uploaded,
\* replaced, retried and interrupted.
THEOREM PoolsAreKept ==
  ASSUME OneWorker
  PROVE  Spec => []PoolsHold
<1>1. Init => Hands /\ Metered
  BY Limits DEF Init, Hands, InOrder, Metered, NoJob
<1>2. TypeOK /\ Hands /\ Metered /\ [Next]_vars => Hands' /\ Metered'
  BY HandsStep, MeteredStep
<1>3. Metered => PoolsHold
  BY DEF Metered, PoolsHold
<1> QED
  BY <1>1, <1>2, <1>3, TypeCorrect, PTL DEF Spec
=============================================================================

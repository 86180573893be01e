----------------------------- MODULE Attachments -----------------------------
(***************************************************************************)
(* How a fetched document's files get to Memos (prepareContent in           *)
(* internal/importer/attachments.go): for each attachment the table          *)
(* attachment_mapping is asked first; a file that is not in it is            *)
(* downloaded from Notion, uploaded to Memos and entered.  Workers, of one   *)
(* run or of several jobs, do so at the same time and may have the same      *)
(* documents.                                                               *)
(*                                                                         *)
(* One action is one statement, one attempt of a remote request, the        *)
(* reading of one answer's body, or one delay before the next attempt.       *)
(***************************************************************************)
EXTENDS Integers, Sequences

CONSTANTS
  Workers,          \* the workers that prepare documents
  Blocks,           \* Notion blocks with a hosted file
  Documents,        \* the attachments a fetched document may have, in order
  Sizes,            \* sizes a file may have
  SizeOptions,      \* values of the option MaxAttachmentBytes
  DefaultLimit,     \* the limit where the option gives none (32 MiB)
  MaxAttempts,      \* attempts of one request (maxRetries + 1)
  MaxPreparations,  \* bound: preparations begun
  MaxCrashes        \* bound: times the process stops and is started again

ASSUME AttachmentsAssumption ==
  /\ Documents \subseteq Seq(Blocks)
  /\ Sizes \subseteq Nat
  /\ SizeOptions \subseteq Int
  /\ {DefaultLimit, MaxAttempts} \subseteq Nat \ {0}
  /\ {MaxPreparations, MaxCrashes} \subseteq Nat

VARIABLES
  hosted,       \* Notion: the size of each block's file
  option,       \* the jobs' option MaxAttachmentBytes
  mapping,      \* attachment_mapping: the file of each block, or NoFile
  files,        \* Memos: the attachments created; a name is a position
  worker,       \* where each worker is in prepareContent, and what it has
  begun,        \* preparations begun so far
  crashes       \* restarts so far

given == <<hosted, option>>
bounds == <<begun, crashes>>
vars == <<given, mapping, files, worker, bounds>>

-----------------------------------------------------------------------------

NoFile == 0

\* The file of a block as Memos has it.
File == [block : Blocks, size : Nat]

Working == {"lookup", "open", "openDelay", "read", "create", "createDelay", "record"}
Ended == {"idle", "done"}

\* links: files of the attachments dealt with; the attachment after is current.
\* data: the size of what was read of it; file: what Memos calls it.
Worker == [pc : Working \cup Ended, doc : Seq(Blocks), links : Seq(Nat), data : Nat,
           file : Nat, attempt : Nat, canceled : BOOLEAN]
Idle == [pc |-> "idle", doc |-> << >>, links |-> << >>, data |-> 0, file |-> NoFile,
         attempt |-> 1, canceled |-> FALSE]

current(r) == r.doc[Len(r.links) + 1]
SetWorker(w, r) == worker' = [worker EXCEPT ![w] = r]
GoTo(w, pc) == SetWorker(w, [worker[w] EXCEPT !.pc = pc])

\* prepareContent returns an error, and the worker is done with the document.
Fail(w) == SetWorker(w, Idle)

\* The statements: with a canceled context, or a store that fails, a query is
\* in vain and a write reports an error although it may have been made.
QueryEnds(w) == IF worker[w].canceled THEN {"error"} ELSE {"ok", "error"}
WriteEnds(w) == {[made |-> FALSE, ok |-> FALSE], [made |-> TRUE, ok |-> FALSE]}
  \cup (IF worker[w].canceled THEN {} ELSE {[made |-> TRUE, ok |-> TRUE]})

\* The ends of one attempt at an upload.  A status 429 or 5xx is retryable; an
\* answer may be lost, or give no name to what was created.
UploadEnds ==
  {e \in [created : BOOLEAN, result : {"ok", "nameless", "retryable", "error"}] :
     e.result \in {"ok", "nameless"} => e.created}

\* An error is taken for an answer.
MutantAnswered(w, result, delay, success) ==
  SetWorker(w,
    IF result = "retryable" /\ worker[w].attempt < MaxAttempts
    THEN [worker[w] EXCEPT !.pc = delay, !.attempt = @ + 1] ELSE success)

\* The retry loops: a retryable error is repeated after a delay, others fail.
AfterAttempt(w, result, delay, success) ==
  SetWorker(w,
    CASE result = "ok" -> success
      [] result = "retryable" /\ worker[w].attempt < MaxAttempts
           -> [worker[w] EXCEPT !.pc = delay, !.attempt = @ + 1]
      [] OTHER -> Idle)

\* The reader ends at the limit, and not one byte after it.
MutantReadBounded(size, limit) == IF size > limit THEN limit ELSE size

\* What io.ReadAll gets of a body: one byte more than allowed, at most.
readBounded(size, limit) == IF size > limit + 1 THEN limit + 1 ELSE size

sizeLimit == IF option <= 0 THEN DefaultLimit ELSE option

-----------------------------------------------------------------------------

Init ==
  /\ hosted \in [Blocks -> Sizes]
  /\ option \in SizeOptions
  /\ mapping = [b \in Blocks |-> NoFile]
  /\ files = << >>
  /\ worker = [w \in Workers |-> Idle]
  /\ begun = 0
  /\ crashes = 0

\* A worker has fetched a document, for the first time or again.
Begin(w) ==
  /\ worker[w].pc \in Ended
  /\ begun < MaxPreparations
  /\ begun' = begun + 1
  /\ \E doc \in Documents : SetWorker(w, [Idle EXCEPT !.pc = "lookup", !.doc = doc])
  /\ UNCHANGED <<given, mapping, files, crashes>>

\* All attachments are dealt with: the tokens are replaced.
Return(w) ==
  /\ worker[w].pc = "lookup"
  /\ Len(worker[w].links) = Len(worker[w].doc)
  /\ SetWorker(w, [Idle EXCEPT !.pc = "done", !.doc = worker[w].doc,
                              !.links = worker[w].links])
  /\ UNCHANGED <<given, mapping, files, bounds>>

\* The token of a block is made of its id: one block, twice, has it twice.
MutantIsRepeated(r) == FALSE
IsRepeated(r) == \E k \in 1..Len(r.links) : r.doc[k] = current(r)

\* GetAttachmentMapping, after the test for a repeated token.
Lookup(w) ==
  LET r == worker[w]
      file == mapping[current(r)]
  IN
  /\ r.pc = "lookup"
  /\ Len(r.links) < Len(r.doc)
  /\ \E end \in QueryEnds(w) :
       IF IsRepeated(r) \/ end = "error" THEN Fail(w)
       ELSE IF file = NoFile THEN GoTo(w, "open")
       ELSE SetWorker(w, [r EXCEPT !.links = Append(@, file)])
  /\ UNCHANGED <<given, mapping, files, bounds>>

\* One attempt to open the file's address.
Open(w) ==
  /\ worker[w].pc = "open"
  /\ \E result \in IF worker[w].canceled THEN {"error"} ELSE {"ok", "retryable", "error"} :
       AfterAttempt(w, result, "openDelay", [worker[w] EXCEPT !.pc = "read", !.attempt = 1])
  /\ UNCHANGED <<given, mapping, files, bounds>>

\* readBounded; the connection may break.
Read(w) ==
  LET data == readBounded(hosted[current(worker[w])], sizeLimit) IN
  /\ worker[w].pc = "read"
  /\ \/ Fail(w)
     \/ /\ data <= sizeLimit
        /\ SetWorker(w, [worker[w] EXCEPT !.pc = "create", !.data = data])
  /\ UNCHANGED <<given, mapping, files, bounds>>

\* A name that is missing is not missed.
MutantCreateAttachment(w) ==
  LET r == worker[w] IN
  /\ r.pc = "create"
  /\ \E end \in UploadEnds :
       /\ files' = IF end.created
                   THEN Append(files, [block |-> current(r), size |-> r.data])
                   ELSE files
       /\ IF end.result = "nameless" THEN GoTo(w, "record")
          ELSE AfterAttempt(w, end.result, "createDelay",
                 [r EXCEPT !.pc = "record", !.file = Len(files) + 1])
  /\ UNCHANGED <<given, mapping, bounds>>

\* One attempt to upload it.  A canceled context keeps no attempt that is
\* under way from being served.
CreateAttachment(w) ==
  LET r == worker[w] IN
  /\ r.pc = "create"
  /\ \E end \in UploadEnds :
       /\ files' = IF end.created
                   THEN Append(files, [block |-> current(r), size |-> r.data])
                   ELSE files
       /\ AfterAttempt(w, end.result, "createDelay",
            [r EXCEPT !.pc = "record", !.file = Len(files) + 1, !.attempt = 1])
  /\ UNCHANGED <<given, mapping, bounds>>

\* The delay before the next attempt is over: of a select that could go either
\* way, this one may be taken with a canceled context too.
Delay(w) ==
  /\ \/ worker[w].pc = "openDelay" /\ SetWorker(w, [worker[w] EXCEPT !.pc = "open"])
     \/ worker[w].pc = "createDelay" /\ SetWorker(w, [worker[w] EXCEPT !.pc = "create"])
  /\ UNCHANGED <<given, mapping, files, bounds>>

\* A sleep in the place of the select.
MutantAbandon(w) == FALSE

\* The other way.
Abandon(w) ==
  /\ worker[w].pc \in {"openDelay", "createDelay"}
  /\ worker[w].canceled
  /\ Fail(w)
  /\ UNCHANGED <<given, mapping, files, bounds>>

\* UpsertAttachmentMapping, and on to the next attachment.
Record(w) ==
  LET r == worker[w] IN
  /\ r.pc = "record"
  /\ \E end \in WriteEnds(w) :
       /\ mapping' = IF end.made THEN [mapping EXCEPT ![current(r)] = r.file] ELSE mapping
       /\ IF end.ok
          THEN SetWorker(w, [r EXCEPT !.pc = "lookup", !.links = Append(@, r.file),
                                      !.data = 0, !.file = NoFile])
          ELSE Fail(w)
  /\ UNCHANGED <<given, files, bounds>>

\* A run is canceled, and with it the context of its workers.
Cancel(w) ==
  /\ worker[w].pc \in Working
  /\ ~worker[w].canceled
  /\ SetWorker(w, [worker[w] EXCEPT !.canceled = TRUE])
  /\ UNCHANGED <<given, mapping, files, bounds>>

\* The process is stopped and started again.
Crash ==
  /\ crashes < MaxCrashes
  /\ crashes' = crashes + 1
  /\ worker' = [w \in Workers |-> Idle]
  /\ UNCHANGED <<given, mapping, files, begun>>

-----------------------------------------------------------------------------

\* The steps prepareContent takes when it need not wait for a delay.
Proceed(w) ==
  \/ Return(w)
  \/ Lookup(w)
  \/ Open(w)
  \/ Read(w)
  \/ CreateAttachment(w)
  \/ Record(w)
  \/ Abandon(w)

WorkerStep(w) == Proceed(w) \/ Delay(w)

Next == (\E w \in Workers : Begin(w) \/ WorkerStep(w) \/ Cancel(w)) \/ Crash

Spec == Init /\ [][Next]_vars

\* Once its context is canceled, a worker waits for no one any more.
StopStep(w) == worker[w].canceled /\ Proceed(w)
FairSpec == Spec /\ \A w \in Workers : WF_vars(StopStep(w))

-----------------------------------------------------------------------------
(* Properties.                                                             *)

\* The type invariant: a worker that has attachments to deal with is at one of
\* them, and one that is about to record a file has a name for it.
AttachmentsTypeOK ==
  /\ hosted \in [Blocks -> Sizes]
  /\ option \in SizeOptions
  /\ mapping \in [Blocks -> Nat]
  /\ files \in Seq(File)
  /\ worker \in [Workers -> Worker]
  /\ \A w \in Workers : LET r == worker[w] IN
       /\ r.pc \in Working => Len(r.links) <= Len(r.doc)
       /\ r.pc \in Working \ {"lookup"} => Len(r.links) < Len(r.doc)
       /\ r.pc = "record" => r.file # NoFile
  /\ begun \in Nat
  /\ crashes \in Nat

IsFileOf(f, b) == f \in 1..Len(files) /\ files[f].block = b

\* attachment_mapping never names a file that Memos does not have or that is
\* another block's, although the upload and its entry are two steps, between
\* which the run may be canceled or die and another worker may upload and
\* enter the same block (attachments.go:33-68).
RecordedFilesExist ==
  \A b \in Blocks : mapping[b] # NoFile => IsFileOf(mapping[b], b)

\* A body that is handed on refers to a file of Memos in the place of every one
\* of its attachments, to that attachment's own file, and to none of them
\* twice, whoever uploaded it and whatever happened to earlier attempts
\* (attachments.go:25-86).
BodiesAreComplete ==
  \A w \in Workers : worker[w].pc = "done" =>
    LET r == worker[w] IN
    /\ Len(r.links) = Len(r.doc)
    /\ \A k \in 1..Len(r.doc) : IsFileOf(r.links[k], r.doc[k])
    /\ \A k, m \in 1..Len(r.doc) : r.links[k] = r.links[m] => k = m

\* Whatever is uploaded, for a memo or in vain, is the whole file and within
\* the limit: one that is too long is refused and never cut
\* (attachments.go:96-122).
UploadsAreWhole ==
  \A f \in 1..Len(files) :
    files[f].size = hosted[files[f].block] /\ files[f].size <= sizeLimit

\* Once canceled, a preparation ends without waiting out a delay, which Notion
\* may have made as long as it likes by Retry-After (attachment_download.go:34-39,
\* transport.go:28-35).
CanceledPreparationsEnd ==
  \A w \in Workers : worker[w].canceled ~> worker[w].pc \in Ended

\* A preparation ends although every request may fail and be repeated, if its
\* requests and delays end (attachment_download.go:32-55, transport.go:26-53).
EveryPreparationEnds ==
  (\A w \in Workers : WF_vars(WorkerStep(w))) =>
    \A w \in Workers : worker[w].pc \in Working ~> worker[w].pc \in Ended

\* Both together.
PreparationsEnd == CanceledPreparationsEnd /\ EveryPreparationEnds
=============================================================================

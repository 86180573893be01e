-------------------------- MODULE AttachmentsProofs --------------------------
(* Proofs about Attachments: types, and what files bodies and rows refer to. *)
EXTENDS Attachments, TLAPS

\* What a worker may have at its position.
WorkerOK(r) ==
  /\ r \in Worker
  /\ r.pc \in Working => Len(r.links) <= Len(r.doc)
  /\ r.pc \in Working \ {"lookup"} => Len(r.links) < Len(r.doc)
  /\ r.pc = "record" => r.file # NoFile

LEMMA IdleOK == WorkerOK(Idle)
  BY DEF Idle, Worker, WorkerOK, Working, Ended, NoFile

\* The invariant one worker at a time.
LEMMA TypeOKByWorker ==
  AttachmentsTypeOK <=>
    /\ hosted \in [Blocks -> Sizes]
    /\ option \in SizeOptions
    /\ mapping \in [Blocks -> Nat]
    /\ files \in Seq(File)
    /\ worker \in [Workers -> Worker]
    /\ \A w \in Workers : WorkerOK(worker[w])
    /\ begun \in Nat
    /\ crashes \in Nat
  BY DEF AttachmentsTypeOK, WorkerOK

\* Another record for one worker, and nothing else.
LEMMA SetWorkerType ==
  ASSUME AttachmentsTypeOK, NEW w \in Workers, NEW r, WorkerOK(r), SetWorker(w, r)
  PROVE  /\ worker' \in [Workers -> Worker]
         /\ \A v \in Workers : WorkerOK(worker'[v])
  BY TypeOKByWorker DEF SetWorker, WorkerOK

\* The current attachment of a document that has one left.
LEMMA CurrentType ==
  ASSUME NEW r \in Worker, Len(r.links) < Len(r.doc)
  PROVE  /\ current(r) \in Blocks
         /\ Len(r.links) + 1 \in 1..Len(r.doc)
  BY DEF Worker, current

LEMMA LimitType ==
  ASSUME option \in SizeOptions
  PROVE  sizeLimit \in Nat \ {0}
  BY AttachmentsAssumption DEF sizeLimit

LEMMA ReadType ==
  ASSUME NEW size \in Nat, NEW limit \in Nat
  PROVE  /\ readBounded(size, limit) \in Nat
         /\ readBounded(size, limit) <= limit => readBounded(size, limit) = size
  BY DEF readBounded

\* The document's next attachment is dealt with.
LEMMA AppendLinkOK ==
  ASSUME NEW r, WorkerOK(r), Len(r.links) < Len(r.doc), NEW f \in Nat
  PROVE  /\ WorkerOK([r EXCEPT !.links = Append(@, f)])
            \/ r.pc # "lookup"
         /\ WorkerOK([r EXCEPT !.pc = "lookup", !.links = Append(@, f),
                                !.data = 0, !.file = NoFile])
  <1>1. /\ Append(r.links, f) \in Seq(Nat)
        /\ Len(Append(r.links, f)) = Len(r.links) + 1
        /\ Len(r.links) \in Nat /\ Len(r.doc) \in Nat
    BY DEF WorkerOK, Worker
  <1>2. Len(Append(r.links, f)) <= Len(r.doc)
    BY <1>1
  <1> QED
    BY <1>1, <1>2 DEF WorkerOK, Worker, Working, Ended, NoFile

-----------------------------------------------------------------------------

LEMMA TypeInit == Init => AttachmentsTypeOK
  <1> SUFFICES ASSUME Init PROVE AttachmentsTypeOK
    OBVIOUS
  <1>1. /\ worker \in [Workers -> Worker]
        /\ \A w \in Workers : WorkerOK(worker[w])
    BY IdleOK DEF Init, WorkerOK
  <1>2. files \in Seq(File)
    BY DEF Init
  <1>3. mapping \in [Blocks -> Nat]
    BY DEF Init, NoFile
  <1> QED
    BY <1>1, <1>2, <1>3, TypeOKByWorker DEF Init

\* What comes of one attempt of a request.
LEMMA AfterAttemptType ==
  ASSUME AttachmentsTypeOK, NEW w \in Workers, NEW result, NEW success,
         NEW delay \in {"openDelay", "createDelay"},
         worker[w].pc \in {"open", "create"},
         WorkerOK(success), AfterAttempt(w, result, delay, success)
  PROVE  /\ worker' \in [Workers -> Worker]
         /\ \A v \in Workers : WorkerOK(worker'[v])
  <1> DEFINE r == worker[w]
             again == [r EXCEPT !.pc = delay, !.attempt = @ + 1]
  <1>1. r \in Worker /\ Len(r.links) < Len(r.doc)
    BY TypeOKByWorker DEF WorkerOK, Working
  <1>2. again \in Worker
    <2>1. r.attempt + 1 \in Nat /\ delay \in Working \cup Ended
      BY <1>1 DEF Worker, Working
    <2> QED
      BY <1>1, <2>1 DEF Worker
  <1>3. again.links = r.links /\ again.doc = r.doc /\ again.pc = delay
    BY <1>1 DEF Worker
  <1>4. Len(r.links) \in Nat /\ Len(r.doc) \in Nat
    BY <1>1 DEF Worker
  <1>5. WorkerOK(again)
    BY <1>1, <1>2, <1>3, <1>4 DEF WorkerOK
  <1> QED
    BY <1>5, IdleOK, SetWorkerType DEF AfterAttempt

\* Every step leaves the variables in their types.
LEMMA NextType ==
  ASSUME AttachmentsTypeOK, [Next]_vars
  PROVE  AttachmentsTypeOK'
  <1> USE DEF given, bounds
  <1> DEFINE WorkersOK == /\ worker' \in [Workers -> Worker]
                          /\ \A v \in Workers : WorkerOK(worker'[v])
  <1>0. SUFFICES /\ UNCHANGED given
                 /\ mapping' \in [Blocks -> Nat]
                 /\ files' \in Seq(File)
                 /\ WorkersOK
                 /\ begun' \in Nat /\ crashes' \in Nat
    BY TypeOKByWorker, TypeOKByWorker' DEF WorkerOK, AttachmentsTypeOK
  <1>1. ASSUME NEW w \in Workers, Begin(w)
        PROVE  WorkersOK /\ begun' \in Nat
    <2>1. PICK doc \in Documents : SetWorker(w, [Idle EXCEPT !.pc = "lookup", !.doc = doc])
      BY <1>1 DEF Begin
    <2>2. doc \in Seq(Blocks)
      BY AttachmentsAssumption
    <2>3. WorkerOK([Idle EXCEPT !.pc = "lookup", !.doc = doc])
      <3> DEFINE r == [Idle EXCEPT !.pc = "lookup", !.doc = doc]
      <3>1. r \in Worker /\ r.links = << >> /\ r.doc = doc /\ r.pc = "lookup"
        <4>1. Idle \in Worker /\ Idle.links = << >>
          BY IdleOK DEF WorkerOK, Idle
        <4>2. "lookup" \in Working
          BY DEF Working
        <4> HIDE DEF Idle
        <4> QED
          BY <2>2, <4>1, <4>2 DEF Worker
      <3>2. Len(doc) \in Nat /\ Len(<< >>) = 0
        BY <2>2
      <3> QED
        BY <3>1, <3>2 DEF WorkerOK
    <2> QED
      BY <1>1, <2>1, <2>3, SetWorkerType DEF Begin, AttachmentsTypeOK
  <1>2. ASSUME NEW w \in Workers, WorkerStep(w)
        PROVE  /\ mapping' \in [Blocks -> Nat]
               /\ files' \in Seq(File)
               /\ WorkersOK
    <2> DEFINE r == worker[w]
    <2>0. r \in Worker /\ WorkerOK(r)
      BY TypeOKByWorker
    <2>1. CASE Return(w)
      <3>1. WorkerOK([Idle EXCEPT !.pc = "done", !.doc = r.doc, !.links = r.links])
        BY <2>0, IdleOK DEF Idle, WorkerOK, Worker, Working, Ended
      <3> QED
        BY <2>1, <3>1, SetWorkerType DEF Return, AttachmentsTypeOK
    <2>2. CASE Lookup(w)
      <3>1. current(r) \in Blocks
        BY <2>0, <2>2, CurrentType DEF Lookup
      <3>2. mapping[current(r)] \in Nat
        BY <3>1 DEF AttachmentsTypeOK
      <3>3. WorkerOK([r EXCEPT !.pc = "open"])
        BY <2>0, <2>2 DEF Lookup, WorkerOK, Worker, Working, Ended
      <3>4. WorkerOK([r EXCEPT !.links = Append(@, mapping[current(r)])])
        BY <2>0, <2>2, <3>2, AppendLinkOK DEF Lookup
      <3> QED
        BY <2>2, <3>3, <3>4, IdleOK, SetWorkerType DEF Lookup, AttachmentsTypeOK, Fail, GoTo
    <2>3. CASE Open(w)
      <3>1. WorkerOK([r EXCEPT !.pc = "read", !.attempt = 1])
        BY <2>0, <2>3 DEF Open, WorkerOK, Worker, Working, Ended
      <3> QED
        BY <2>3, <3>1, AfterAttemptType DEF Open, AttachmentsTypeOK
    <2>4. CASE Read(w)
      <3> DEFINE data == readBounded(hosted[current(r)], sizeLimit)
      <3>1. data \in Nat
        <4>1. current(r) \in Blocks
          BY <2>0, <2>4, CurrentType DEF Read, WorkerOK, Working
        <4>2. hosted[current(r)] \in Nat /\ option \in SizeOptions
          BY <4>1, AttachmentsAssumption DEF AttachmentsTypeOK
        <4> QED
          BY <4>2, LimitType, ReadType
      <3>2. WorkerOK([r EXCEPT !.pc = "create", !.data = data])
        BY <2>0, <2>4, <3>1 DEF Read, WorkerOK, Worker, Working, Ended
      <3> QED
        BY <2>4, <3>2, IdleOK, SetWorkerType DEF Read, AttachmentsTypeOK, Fail
    <2>5. CASE CreateAttachment(w)
      <3>1. current(r) \in Blocks /\ r.data \in Nat /\ Len(files) \in Nat
        BY <2>0, <2>5, CurrentType
           DEF CreateAttachment, WorkerOK, Worker, Working, AttachmentsTypeOK
      <3>2. [block |-> current(r), size |-> r.data] \in File
        BY <3>1 DEF File
      <3>3. WorkerOK([r EXCEPT !.pc = "record", !.file = Len(files) + 1, !.attempt = 1])
        <4> DEFINE named == [r EXCEPT !.pc = "record", !.file = Len(files) + 1, !.attempt = 1]
        <4>1. Len(files) + 1 \in Nat /\ Len(files) + 1 # NoFile
          BY <3>1 DEF NoFile
        <4>2. named \in Worker
          BY <2>0, <4>1 DEF Worker, Working, Ended
        <4>3. named.links = r.links /\ named.doc = r.doc /\ named.file = Len(files) + 1
          BY <2>0 DEF Worker
        <4>4. Len(r.links) < Len(r.doc) /\ Len(r.links) \in Nat /\ Len(r.doc) \in Nat
          BY <2>0, <2>5 DEF CreateAttachment, WorkerOK, Working, Worker
        <4> QED
          BY <4>1, <4>2, <4>3, <4>4 DEF WorkerOK
      <3>4. files' \in Seq(File)
        BY <2>5, <3>2 DEF CreateAttachment, AttachmentsTypeOK
      <3> QED
        BY <2>5, <3>3, <3>4, AfterAttemptType DEF CreateAttachment, AttachmentsTypeOK
    <2>6. CASE Record(w)
      <3>1. r.file \in Nat /\ Len(r.links) < Len(r.doc)
        BY <2>0, <2>6 DEF Record, WorkerOK, Worker, Working
      <3>2. WorkerOK([r EXCEPT !.pc = "lookup", !.links = Append(@, r.file),
                               !.data = 0, !.file = NoFile])
        BY <2>0, <3>1, AppendLinkOK
      <3>3. mapping' \in [Blocks -> Nat]
        BY <2>6, <3>1 DEF Record, AttachmentsTypeOK
      <3> QED
        BY <2>6, <3>2, <3>3, IdleOK, SetWorkerType DEF Record, AttachmentsTypeOK, Fail
    <2>7. CASE Abandon(w)
      BY <2>7, IdleOK, SetWorkerType DEF Abandon, AttachmentsTypeOK, Fail
    <2>8. CASE Delay(w)
      <3>1. \/ r.pc = "openDelay" /\ SetWorker(w, [r EXCEPT !.pc = "open"])
            \/ r.pc = "createDelay" /\ SetWorker(w, [r EXCEPT !.pc = "create"])
        BY <2>8 DEF Delay
      <3>2. r.pc = "openDelay" => WorkerOK([r EXCEPT !.pc = "open"])
        BY <2>0 DEF WorkerOK, Worker, Working, Ended
      <3>3. r.pc = "createDelay" => WorkerOK([r EXCEPT !.pc = "create"])
        BY <2>0 DEF WorkerOK, Worker, Working, Ended
      <3> QED
        BY <2>8, <3>1, <3>2, <3>3, SetWorkerType DEF Delay, AttachmentsTypeOK
    <2> QED
      BY <1>2, <2>1, <2>2, <2>3, <2>4, <2>5, <2>6, <2>7, <2>8 DEF WorkerStep, Proceed
  <1>3. ASSUME NEW w \in Workers, Cancel(w)
        PROVE  WorkersOK
    <2>1. WorkerOK([worker[w] EXCEPT !.canceled = TRUE])
      BY TypeOKByWorker DEF WorkerOK, Worker
    <2> QED
      BY <1>3, <2>1, SetWorkerType DEF Cancel
  <1>4. CASE Crash
    BY <1>4, IdleOK DEF Crash, AttachmentsTypeOK, WorkerOK
  <1>5. CASE UNCHANGED vars
    BY <1>5, TypeOKByWorker DEF vars
  <1>6. ASSUME NEW w \in Workers, WorkerStep(w)
        PROVE  UNCHANGED <<given, bounds>>
    BY <1>6 DEF WorkerStep, Proceed, Return, Lookup, Open, Read, CreateAttachment, Record,
                Abandon, Delay
  <1> QED
    BY <1>1, <1>2, <1>3, <1>4, <1>5, <1>6
       DEF Next, Begin, Cancel, Crash, AttachmentsTypeOK

\* The types hold in every reachable state, for any workers, documents, sizes
\* and limits (attachments.go).
THEOREM AttachmentsTypeCorrect == Spec => []AttachmentsTypeOK
  <1> QED
    BY TypeInit, NextType, PTL DEF Spec

-----------------------------------------------------------------------------
(* Bodies and rows refer to the files they should.                         *)

\* What a worker has dealt with is there, is the right block's and nothing is
\* there twice; so is what it is about to record.
LinksOK(r) ==
  /\ \A k \in 1..Len(r.links) : k <= Len(r.doc) /\ IsFileOf(r.links[k], r.doc[k])
  /\ \A k, m \in 1..Len(r.links) : r.doc[k] = r.doc[m] => k = m
  /\ r.pc \in Working \ {"lookup"} => ~IsRepeated(r)
  /\ r.pc = "record" => IsFileOf(r.file, current(r))
  /\ r.pc = "done" => Len(r.links) = Len(r.doc)

\* The strengthening: a step that records or links a file has it from its
\* worker or from the table.
LinksInv == RecordedFilesExist /\ \A w \in Workers : LinksOK(worker[w])

\* A worker without a document, or with one that it begins.
LEMMA FreshLinksOK ==
  ASSUME NEW doc
  PROVE  LinksOK(Idle) /\ LinksOK([Idle EXCEPT !.pc = "lookup", !.doc = doc])
  BY DEF LinksOK, Idle, Working

\* Files are only ever added.
LEMMA FilesKept ==
  ASSUME AttachmentsTypeOK, [Next]_vars
  PROVE  \A f, b : IsFileOf(f, b) => IsFileOf(f, b)'
  <1> USE DEF IsFileOf
  <1>1. ASSUME NEW w \in Workers, CreateAttachment(w)
        PROVE  \A f, b : IsFileOf(f, b) => IsFileOf(f, b)'
    <2>1. files' = files \/ files' = Append(files, [block |-> current(worker[w]),
                                                  size |-> worker[w].data])
      BY <1>1 DEF CreateAttachment
    <2>2. current(worker[w]) \in Blocks /\ worker[w].data \in Nat
      BY <1>1, TypeOKByWorker, CurrentType DEF CreateAttachment, WorkerOK, Working, Worker
    <2>3. files \in Seq(File) /\ Len(files) \in Nat
      BY DEF AttachmentsTypeOK
    <2>4. ASSUME NEW file \in File, files' = Append(files, file)
          PROVE  \A f, b : IsFileOf(f, b) => IsFileOf(f, b)'
      <3>1. Len(files') = Len(files) + 1 /\ \A f \in 1..Len(files) : files'[f] = files[f]
        BY <2>3, <2>4
      <3> QED
        BY <2>3, <3>1
    <2>5. [block |-> current(worker[w]), size |-> worker[w].data] \in File
      BY <2>2 DEF File
    <2>6. CASE files' = files
      BY <2>6
    <2> QED
      BY <2>1, <2>4, <2>5, <2>6
  <1>2. CASE UNCHANGED files
    BY <1>2
  <1> QED
    BY <1>1, <1>2 DEF Next, Begin, WorkerStep, Proceed, Return, Lookup, Open, Read, Record,
                      Abandon, Delay, Cancel, Crash, vars

\* A record that keeps its document and links keeps them right.
LEMMA SameLinksOK ==
  ASSUME NEW r, NEW s, LinksOK(r), s.doc = r.doc, s.links = r.links,
         r.pc \in Working \ {"lookup"}, s.pc \in Working \ {"lookup", "record"}
  PROVE  LinksOK(s)
  BY DEF LinksOK, IsRepeated, current, Working

\* One more attachment is dealt with.
LEMMA AppendLinksOK ==
  ASSUME NEW r \in Worker, NEW s, LinksOK(r), Len(r.links) < Len(r.doc), ~IsRepeated(r),
         NEW f \in Nat, IsFileOf(f, current(r)),
         s.doc = r.doc, s.links = Append(r.links, f), s.pc = "lookup"
  PROVE  LinksOK(s)
  <1> DEFINE n == Len(r.links)
  <1>1. r.links \in Seq(Nat) /\ n \in Nat /\ Len(r.doc) \in Nat
    BY DEF Worker
  <1>2. Len(s.links) = n + 1 /\ s.links[n + 1] = f
    BY <1>1
  <1>3. \A k \in 1..n : s.links[k] = r.links[k]
    BY <1>1
  <1>4. ASSUME NEW k \in 1..Len(s.links)
        PROVE  k <= Len(s.doc) /\ IsFileOf(s.links[k], s.doc[k])
    <2>1. CASE k = n + 1
      BY <1>1, <1>2, <2>1 DEF current
    <2>2. CASE k \in 1..n
      BY <1>1, <1>3, <2>2 DEF LinksOK
    <2> QED
      BY <1>1, <1>2, <2>1, <2>2
  <1>5. \A k, m \in 1..n : r.doc[k] = r.doc[m] => k = m
    BY DEF LinksOK
  <1>6. \A k \in 1..n : r.doc[k] # r.doc[n + 1]
    BY DEF IsRepeated, current
  <1>7. \A k, m \in 1..Len(s.links) : s.doc[k] = s.doc[m] => k = m
    <2> TAKE k, m \in 1..Len(s.links)
    <2>1. k \in 1..n \/ k = n + 1
      BY <1>1, <1>2
    <2>2. m \in 1..n \/ m = n + 1
      BY <1>1, <1>2
    <2> QED
      BY <2>1, <2>2, <1>5, <1>6
  <1> QED
    BY <1>4, <1>7 DEF LinksOK, Working

\* A step of one worker, with the table as it was.
LEMMA OneWorkerKeepsLinks ==
  ASSUME AttachmentsTypeOK, LinksInv, NEW w \in Workers, NEW r,
         SetWorker(w, r), LinksOK(r)', UNCHANGED mapping,
         \A f, b : IsFileOf(f, b) => IsFileOf(f, b)'
  PROVE  LinksInv'
  <1>1. RecordedFilesExist'
    BY DEF LinksInv, RecordedFilesExist
  <1>2. ASSUME NEW v \in Workers PROVE LinksOK(worker[v])'
    <2>1. CASE v = w
      BY <2>1 DEF SetWorker, AttachmentsTypeOK
    <2>2. CASE v # w
      <3>1. worker'[v] = worker[v]
        BY <2>2 DEF SetWorker, AttachmentsTypeOK
      <3>2. LinksOK(worker[v])
        BY DEF LinksInv
      <3> QED
        BY <3>1, <3>2 DEF LinksOK, IsRepeated, current
    <2> QED
      BY <2>1, <2>2
  <1> QED
    BY <1>1, <1>2 DEF LinksInv

\* No step makes a row or a body refer to a file that is not there, not the
\* block's own, or referred to already.
LEMMA NextLinks ==
  ASSUME AttachmentsTypeOK, AttachmentsTypeOK', LinksInv, [Next]_vars
  PROVE  LinksInv'
  <1>0. \A f, b : IsFileOf(f, b) => IsFileOf(f, b)'
    BY FilesKept
  <1>1. LinksOK(Idle)'
    BY FreshLinksOK, PTL
  <1>2. ASSUME NEW w \in Workers, Begin(w)
        PROVE  LinksInv'
    <2>1. PICK doc \in Documents : SetWorker(w, [Idle EXCEPT !.pc = "lookup", !.doc = doc])
      BY <1>2 DEF Begin
    <2>2. LinksOK([Idle EXCEPT !.pc = "lookup", !.doc = doc])'
      BY DEF LinksOK, Idle, Working
    <2> QED
      BY <1>0, <1>2, <2>1, <2>2, OneWorkerKeepsLinks DEF Begin
  <1>3. ASSUME NEW w \in Workers, WorkerStep(w)
        PROVE  LinksInv'
    <2> DEFINE r == worker[w]
    <2>0. r \in Worker /\ WorkerOK(r) /\ LinksOK(r)
      BY TypeOKByWorker DEF LinksInv, WorkerOK
    <2>1. CASE Return(w)
      <3>0. PICK s : s = [Idle EXCEPT !.pc = "done", !.doc = r.doc, !.links = r.links]
        OBVIOUS
      <3>1. s.pc = "done" /\ s.doc = r.doc /\ s.links = r.links
        BY <3>0 DEF Idle
      <3>2. LinksOK(s)'
        BY <2>0, <2>1, <3>1, <1>0 DEF Return, LinksOK, Working
      <3> QED
        BY <1>0, <2>1, <3>0, <3>2, OneWorkerKeepsLinks DEF Return
    <2>2. CASE Lookup(w)
      <3> DEFINE file == mapping[current(r)]
      <3>1. r.pc = "lookup" /\ Len(r.links) < Len(r.doc)
        BY <2>2 DEF Lookup
      <3>2. CASE Fail(w)
        BY <1>0, <1>1, <2>2, <3>2, OneWorkerKeepsLinks DEF Lookup, Fail
      <3>3. CASE ~IsRepeated(r) /\ GoTo(w, "open")
        <4>0. PICK s : s = [r EXCEPT !.pc = "open"]
          OBVIOUS
        <4>1. s.pc = "open" /\ s.doc = r.doc /\ s.links = r.links
          BY <2>0, <4>0 DEF Worker
        <4>2. LinksOK(s)'
          BY <2>0, <3>3, <4>1, <1>0 DEF LinksOK, IsRepeated, current
        <4> QED
          BY <1>0, <2>2, <3>3, <4>0, <4>2, OneWorkerKeepsLinks DEF Lookup, GoTo
      <3>4. CASE /\ ~IsRepeated(r) /\ file # NoFile
                 /\ SetWorker(w, [r EXCEPT !.links = Append(@, file)])
        <4>0. PICK s : s = [r EXCEPT !.links = Append(@, file)]
          OBVIOUS
        <4>1. current(r) \in Blocks
          BY <2>0, <3>1, CurrentType
        <4>2. file \in Nat /\ IsFileOf(file, current(r))
          BY <3>4, <4>1 DEF LinksInv, RecordedFilesExist, AttachmentsTypeOK
        <4>3. s.pc = "lookup" /\ s.doc = r.doc /\ s.links = Append(r.links, file)
          BY <2>0, <3>1, <4>0 DEF Worker
        <4>4. LinksOK(s)
          BY <2>0, <3>1, <3>4, <4>2, <4>3, AppendLinksOK
        <4>5. LinksOK(s)'
          BY <4>3, <4>4, <1>0 DEF LinksOK, Working
        <4> QED
          BY <1>0, <2>2, <3>4, <4>0, <4>5, OneWorkerKeepsLinks DEF Lookup
      <3> QED
        BY <2>2, <3>2, <3>3, <3>4 DEF Lookup
    <2>3. ASSUME NEW s, SetWorker(w, s), s = Idle \/
                   /\ s.doc = r.doc /\ s.links = r.links
                   /\ r.pc \in Working \ {"lookup"} /\ s.pc \in Working \ {"lookup", "record"},
                 UNCHANGED mapping
          PROVE  LinksInv'
      <3>1. LinksOK(s)'
        <4>1. CASE s = Idle
          BY <1>1, <4>1
        <4>2. CASE s # Idle
          <5>1. LinksOK(s)
            BY <2>0, <2>3, <4>2, SameLinksOK
          <5> QED
            BY <2>3, <4>2, <5>1, <1>0 DEF LinksOK, IsRepeated, current
        <4> QED
          BY <4>1, <4>2
      <3> QED
        BY <1>0, <2>3, <3>1, OneWorkerKeepsLinks
    <2>4. CASE Open(w)
      <3>1. PICK s : /\ SetWorker(w, s)
                     /\ s \in {Idle, [r EXCEPT !.pc = "read", !.attempt = 1],
                               [r EXCEPT !.pc = "openDelay", !.attempt = @ + 1]}
        BY <2>4 DEF Open, AfterAttempt
      <3>2. s # Idle => s.doc = r.doc /\ s.links = r.links /\ s.pc \in {"read", "openDelay"}
        BY <2>0, <3>1 DEF Worker
      <3> QED
        BY <2>3, <2>4, <3>1, <3>2 DEF Open, Working
    <2>5. CASE Read(w)
      <3> DEFINE data == readBounded(hosted[current(r)], sizeLimit)
      <3>1. PICK s : /\ SetWorker(w, s)
                     /\ s \in {Idle, [r EXCEPT !.pc = "create", !.data = data]}
        BY <2>5 DEF Read, Fail
      <3>2. s # Idle => s.doc = r.doc /\ s.links = r.links /\ s.pc = "create"
        BY <2>0, <3>1 DEF Worker
      <3> QED
        BY <2>3, <2>5, <3>1, <3>2 DEF Read, Working
    <2>6. CASE CreateAttachment(w)
      <3>0. PICK named : named = [r EXCEPT !.pc = "record", !.file = Len(files) + 1,
                                          !.attempt = 1]
        OBVIOUS
      <3>1. r.pc = "create" /\ UNCHANGED mapping
        BY <2>6 DEF CreateAttachment
      <3>2. PICK end \in UploadEnds :
              /\ files' = IF end.created
                          THEN Append(files, [block |-> current(r), size |-> r.data])
                          ELSE files
              /\ AfterAttempt(w, end.result, "createDelay", named)
        BY <2>6, <3>0 DEF CreateAttachment
      <3>3. CASE end.result = "ok"
        <4>1. SetWorker(w, named)
          BY <3>2, <3>3 DEF AfterAttempt
        <4>2. /\ named.doc = r.doc /\ named.links = r.links
              /\ named.pc = "record" /\ named.file = Len(files) + 1
          BY <2>0, <3>0 DEF Worker
        <4>3. /\ named.file \in 1..Len(files')
              /\ files'[named.file].block = current(r)
          <5>1. files' = Append(files, [block |-> current(r), size |-> r.data])
            BY <3>2, <3>3 DEF UploadEnds
          <5>2. files \in Seq(File)
            BY DEF AttachmentsTypeOK
          <5>3. Len(files') = Len(files) + 1 /\ Len(files) \in Nat
                /\ files'[Len(files) + 1].block = current(r)
            BY <5>1, <5>2
          <5> QED
            BY <4>2, <5>3
        <4>4. ~IsRepeated(r)
          BY <2>0, <3>1 DEF LinksOK, Working
        <4>5. LinksOK(named)'
          <5>1. IsFileOf(named.file, current(named))'
            BY <4>2, <4>3 DEF IsFileOf, current
          <5>2. ~IsRepeated(named)
            BY <4>2, <4>4 DEF IsRepeated, current
          <5> QED
            BY <2>0, <4>2, <5>1, <5>2, <1>0 DEF LinksOK, IsRepeated, current
        <4> QED
          BY <1>0, <3>1, <4>1, <4>5, OneWorkerKeepsLinks
      <3>4. CASE end.result # "ok"
        <4>1. PICK s : /\ SetWorker(w, s)
                       /\ s \in {Idle, [r EXCEPT !.pc = "createDelay", !.attempt = @ + 1]}
          BY <3>2, <3>4 DEF AfterAttempt
        <4>2. s # Idle => s.doc = r.doc /\ s.links = r.links /\ s.pc = "createDelay"
          BY <2>0, <4>1 DEF Worker
        <4> QED
          BY <2>3, <3>1, <4>1, <4>2 DEF Working
      <3> QED
        BY <3>3, <3>4
    <2>7. CASE Record(w)
      <3>1. r.pc = "record" /\ files' = files
        BY <2>7 DEF Record
      <3>2. Len(r.links) < Len(r.doc) /\ r.file \in Nat /\ current(r) \in Blocks
        BY <2>0, <3>1, CurrentType DEF WorkerOK, Working, Worker
      <3>3. IsFileOf(r.file, current(r)) /\ ~IsRepeated(r)
        BY <2>0, <3>1 DEF LinksOK, Working
      <3>4. RecordedFilesExist'
        <4>1. mapping' = mapping \/ mapping' = [mapping EXCEPT ![current(r)] = r.file]
          BY <2>7 DEF Record
        <4> QED
          BY <3>2, <3>3, <4>1, <1>0 DEF LinksInv, RecordedFilesExist, AttachmentsTypeOK
      <3>0. PICK s : s = [r EXCEPT !.pc = "lookup", !.links = Append(@, r.file),
                                  !.data = 0, !.file = NoFile]
        OBVIOUS
      <3>5. s.pc = "lookup" /\ s.doc = r.doc /\ s.links = Append(r.links, r.file)
        BY <2>0, <3>0 DEF Worker
      <3>6. LinksOK(s)
        BY <2>0, <3>2, <3>3, <3>5, AppendLinksOK
      <3>7. LinksOK(s)'
        BY <3>5, <3>6, <1>0 DEF LinksOK, Working
      <3>8. SetWorker(w, s) \/ SetWorker(w, Idle)
        BY <2>7, <3>0 DEF Record, Fail
      <3>9. ASSUME NEW v \in Workers PROVE LinksOK(worker[v])'
        <4>1. CASE v = w
          BY <3>7, <3>8, <1>1, <4>1 DEF SetWorker, AttachmentsTypeOK
        <4>2. CASE v # w
          <5>1. worker'[v] = worker[v]
            BY <3>8, <4>2 DEF SetWorker, AttachmentsTypeOK
          <5>2. LinksOK(worker[v])
            BY DEF LinksInv
          <5> QED
            BY <5>1, <5>2, <1>0 DEF LinksOK, IsRepeated, current
        <4> QED
          BY <4>1, <4>2
      <3> QED
        BY <3>4, <3>9 DEF LinksInv
    <2>8. CASE Abandon(w)
      BY <2>3, <2>8 DEF Abandon, Fail
    <2>9. CASE Delay(w)
      <3>1. PICK s : /\ SetWorker(w, s)
                     /\ \/ r.pc = "openDelay" /\ s = [r EXCEPT !.pc = "open"]
                        \/ r.pc = "createDelay" /\ s = [r EXCEPT !.pc = "create"]
        BY <2>9 DEF Delay
      <3>2. s.doc = r.doc /\ s.links = r.links /\ s.pc \in {"open", "create"}
        BY <2>0, <3>1 DEF Worker
      <3> QED
        BY <2>3, <2>9, <3>1, <3>2 DEF Delay, Working
    <2> QED
      BY <1>3, <2>1, <2>2, <2>4, <2>5, <2>6, <2>7, <2>8, <2>9 DEF WorkerStep, Proceed
  <1>4. ASSUME NEW w \in Workers, Cancel(w)
        PROVE  LinksInv'
    <2> DEFINE r == worker[w]
    <2>0. PICK s : s = [r EXCEPT !.canceled = TRUE]
      OBVIOUS
    <2>1. r \in Worker /\ LinksOK(r)
      BY DEF LinksInv, AttachmentsTypeOK
    <2>2. s.doc = r.doc /\ s.links = r.links /\ s.pc = r.pc /\ s.file = r.file
      BY <2>0, <2>1 DEF Worker
    <2>3. LinksOK(s)'
      BY <2>1, <2>2, <1>0 DEF LinksOK, IsRepeated, current
    <2> QED
      BY <1>0, <1>4, <2>0, <2>3, OneWorkerKeepsLinks DEF Cancel
  <1>5. CASE Crash
    BY <1>0, <1>1, <1>5 DEF Crash, LinksInv, RecordedFilesExist
  <1>6. CASE UNCHANGED vars
    BY <1>6 DEF vars, LinksInv, RecordedFilesExist, LinksOK, IsFileOf
  <1> QED
    BY <1>2, <1>3, <1>4, <1>5, <1>6 DEF Next

LEMMA LinksInit == Init => LinksInv
  BY FreshLinksOK DEF Init, LinksInv, RecordedFilesExist

\* Nobody is handed the same file in two places: it is one block's.
LEMMA LinksAreEnough == AttachmentsTypeOK /\ LinksInv => BodiesAreComplete
  <1> SUFFICES ASSUME AttachmentsTypeOK, LinksInv,
                      NEW w \in Workers, worker[w].pc = "done"
               PROVE  LET r == worker[w] IN
                      /\ Len(r.links) = Len(r.doc)
                      /\ \A k \in 1..Len(r.doc) : IsFileOf(r.links[k], r.doc[k])
                      /\ \A k, m \in 1..Len(r.doc) : r.links[k] = r.links[m] => k = m
    BY DEF BodiesAreComplete
  <1> DEFINE r == worker[w]
  <1>1. LinksOK(r) /\ Len(r.links) = Len(r.doc)
    BY DEF LinksInv, LinksOK
  <1>2. \A k \in 1..Len(r.doc) : IsFileOf(r.links[k], r.doc[k])
    BY <1>1 DEF LinksOK
  <1>3. \A k, m \in 1..Len(r.doc) : r.links[k] = r.links[m] => r.doc[k] = r.doc[m]
    BY <1>2 DEF IsFileOf
  <1>4. \A k, m \in 1..Len(r.doc) : r.doc[k] = r.doc[m] => k = m
    BY <1>1 DEF LinksOK
  <1> QED
    BY <1>1, <1>2, <1>3, <1>4

\* The table never names a file that is not there or is another block's, for
\* any number of workers, documents, crashes and lost answers
\* (attachments.go:33-68).
THEOREM RecordedFilesAlwaysExist == Spec => []RecordedFilesExist
  <1>1. LinksInv => RecordedFilesExist
    BY DEF LinksInv
  <1> QED
    BY <1>1, TypeInit, NextType, LinksInit, NextLinks, PTL DEF Spec

\* Every body handed on has each of its attachments' own file, once
\* (attachments.go:25-86).
THEOREM BodiesAreAlwaysComplete == Spec => []BodiesAreComplete
  <1> QED
    BY TypeInit, NextType, LinksInit, NextLinks, LinksAreEnough, PTL DEF Spec

-----------------------------------------------------------------------------
(* Files are whole.                                                        *)

\* What a worker is about to upload is all of the current attachment's file.
DataOK(r) ==
  r.pc \in {"create", "createDelay"} =>
    r.data = hosted[current(r)] /\ r.data <= sizeLimit

SizesInv == UploadsAreWhole /\ \A w \in Workers : DataOK(worker[w])

\* The file sizes, the limit and the current attachment stay what they are.
LEMMA NextSizes ==
  ASSUME AttachmentsTypeOK, SizesInv, [Next]_vars
  PROVE  SizesInv'
  <1>0. UNCHANGED given
    BY DEF Next, Begin, WorkerStep, Proceed, Return, Lookup, Open, Read, CreateAttachment,
           Record, Abandon, Delay, Cancel, Crash, vars
  <1>1. ASSUME NEW w \in Workers, NEW s, SetWorker(w, s), DataOK(s), UNCHANGED files
        PROVE  SizesInv'
    <2>1. UploadsAreWhole'
      BY <1>0, <1>1 DEF SizesInv, UploadsAreWhole, given, sizeLimit
    <2>2. ASSUME NEW v \in Workers PROVE DataOK(worker[v])'
      <3>1. DataOK(worker'[v])
        BY <1>1 DEF SizesInv, SetWorker, AttachmentsTypeOK
      <3> QED
        BY <1>0, <3>1 DEF DataOK, given, sizeLimit, current
    <2> QED
      BY <2>1, <2>2 DEF SizesInv
  <1>2. DataOK(Idle)
    BY DEF DataOK, Idle
  <1>3. ASSUME NEW w \in Workers, Begin(w)
        PROVE  SizesInv'
    <2>1. PICK doc \in Documents : SetWorker(w, [Idle EXCEPT !.pc = "lookup", !.doc = doc])
      BY <1>3 DEF Begin
    <2>2. DataOK([Idle EXCEPT !.pc = "lookup", !.doc = doc])
      BY DEF DataOK, Idle
    <2> QED
      BY <1>1, <1>3, <2>1, <2>2 DEF Begin
  <1>4. ASSUME NEW w \in Workers, CreateAttachment(w)
        PROVE  SizesInv'
    <2> DEFINE r == worker[w]
    <2>1. r \in Worker /\ r.pc = "create" /\ Len(r.links) < Len(r.doc)
      BY <1>4, TypeOKByWorker DEF CreateAttachment, WorkerOK, Working
    <2>2. current(r) \in Blocks /\ r.data = hosted[current(r)] /\ r.data <= sizeLimit
      BY <2>1, CurrentType DEF SizesInv, DataOK
    <2>3. files' = files \/ files' = Append(files, [block |-> current(r), size |-> r.data])
      BY <1>4 DEF CreateAttachment
    <2>4. files \in Seq(File) /\ r.data \in Nat
      BY <2>1 DEF AttachmentsTypeOK, Worker
    <2>5. UploadsAreWhole'
      <3> DEFINE new == [block |-> current(r), size |-> r.data]
      <3>1. sizeLimit' = sizeLimit /\ hosted' = hosted
        BY <1>0 DEF given, sizeLimit
      <3>2. CASE files' = files
        BY <3>1, <3>2 DEF SizesInv, UploadsAreWhole
      <3>3. CASE files' = Append(files, new)
        <4>1. new.block = current(r) /\ new.size = r.data
          OBVIOUS
        <4>2. ASSUME NEW f \in 1..Len(files')
              PROVE  files'[f] = new \/ (f \in 1..Len(files) /\ files'[f] = files[f])
          BY <2>2, <2>4, <3>3, <4>2 DEF File
        <4> QED
          BY <2>2, <3>1, <4>1, <4>2 DEF SizesInv, UploadsAreWhole
      <3> QED
        BY <2>3, <3>2, <3>3
    <2>6. PICK s : /\ SetWorker(w, s)
                   /\ \/ s = Idle
                      \/ s = [r EXCEPT !.pc = "createDelay", !.attempt = @ + 1]
                      \/ s = [r EXCEPT !.pc = "record", !.file = Len(files) + 1, !.attempt = 1]
      BY <1>4 DEF CreateAttachment, AfterAttempt
    <2>7. s # Idle => /\ s.pc \in {"createDelay", "record"}
                      /\ s.doc = r.doc /\ s.links = r.links /\ s.data = r.data
      BY <2>1, <2>6 DEF Worker
    <2>8. DataOK(s)
      BY <1>2, <2>2, <2>7 DEF DataOK, current
    <2>9. ASSUME NEW v \in Workers PROVE DataOK(worker[v])'
      <3>1. DataOK(worker'[v])
        BY <2>6, <2>8 DEF SizesInv, SetWorker, AttachmentsTypeOK
      <3> QED
        BY <1>0, <3>1 DEF DataOK, given, sizeLimit, current
    <2> QED
      BY <2>5, <2>9 DEF SizesInv
  <1>5. ASSUME NEW w \in Workers, Read(w)
        PROVE  SizesInv'
    <2> DEFINE r == worker[w]
    <2>1. r \in Worker /\ r.pc = "read" /\ Len(r.links) < Len(r.doc)
      BY <1>5, TypeOKByWorker DEF Read, WorkerOK, Working
    <2>2. hosted[current(r)] \in Nat /\ sizeLimit \in Nat
      BY <2>1, CurrentType, LimitType, AttachmentsAssumption DEF AttachmentsTypeOK
    <2>3. PICK s : /\ SetWorker(w, s)
                   /\ \/ s = Idle
                      \/ /\ readBounded(hosted[current(r)], sizeLimit) <= sizeLimit
                         /\ s = [r EXCEPT !.pc = "create",
                                          !.data = readBounded(hosted[current(r)], sizeLimit)]
      BY <1>5 DEF Read, Fail
    <2>4. s # Idle => /\ s.doc = r.doc /\ s.links = r.links
                      /\ s.data = hosted[current(r)] /\ s.data <= sizeLimit
      BY <2>1, <2>2, <2>3, ReadType DEF Worker
    <2>5. DataOK(s)
      BY <1>2, <2>4 DEF DataOK, current
    <2> QED
      BY <1>1, <1>5, <2>3, <2>5 DEF Read
  <1>6. ASSUME NEW w \in Workers,
               Return(w) \/ Lookup(w) \/ Open(w) \/ Record(w) \/ Abandon(w) \/ Delay(w) \/ Cancel(w)
        PROVE  SizesInv'
    <2> DEFINE r == worker[w]
    <2>1. r \in Worker /\ DataOK(r)
      BY DEF SizesInv, AttachmentsTypeOK
    <2>2. UNCHANGED files
      BY <1>6 DEF Return, Lookup, Open, Record, Abandon, Delay, Cancel
    <2>3. ASSUME NEW s, SetWorker(w, s), s.pc \notin {"create", "createDelay"}
          PROVE  SizesInv'
      BY <1>1, <2>2, <2>3 DEF DataOK
    <2>4. ASSUME NEW s, SetWorker(w, s), s.pc \in {"create", r.pc}, s.doc = r.doc,
                 s.links = r.links, s.data = r.data, r.pc \in {"create", "createDelay"}
          PROVE  SizesInv'
      BY <1>1, <2>1, <2>2, <2>4 DEF DataOK, current
    <2>5. Fail(w) => SizesInv'
      BY <2>3 DEF Fail, Idle
    <2>6. CASE Return(w)
      <3> DEFINE s == [Idle EXCEPT !.pc = "done", !.doc = r.doc, !.links = r.links]
      <3>1. SetWorker(w, s) /\ s.pc = "done"
        BY <2>6 DEF Return, Idle
      <3> QED
        BY <2>3, <3>1
    <2>7. CASE Lookup(w)
      <3> DEFINE linked == [r EXCEPT !.links = Append(@, mapping[current(r)])]
                 missed == [r EXCEPT !.pc = "open"]
      <3>1. Fail(w) \/ SetWorker(w, linked) \/ SetWorker(w, missed)
        BY <2>7 DEF Lookup, GoTo
      <3>2. linked.pc = "lookup" /\ missed.pc = "open"
        BY <2>1, <2>7 DEF Lookup, Worker
      <3> QED
        BY <2>3, <2>5, <3>1, <3>2
    <2>8. CASE Open(w)
      <3> DEFINE opened == [r EXCEPT !.pc = "read", !.attempt = 1]
                 delayed == [r EXCEPT !.pc = "openDelay", !.attempt = @ + 1]
      <3>1. SetWorker(w, Idle) \/ SetWorker(w, opened) \/ SetWorker(w, delayed)
        BY <2>8 DEF Open, AfterAttempt
      <3>2. opened.pc = "read" /\ delayed.pc = "openDelay"
        BY <2>1 DEF Worker
      <3> QED
        BY <2>3, <2>5, <3>1, <3>2 DEF Fail
    <2>9. CASE Record(w)
      <3> DEFINE s == [r EXCEPT !.pc = "lookup", !.links = Append(@, r.file),
                                !.data = 0, !.file = NoFile]
      <3>1. Fail(w) \/ SetWorker(w, s)
        BY <2>9 DEF Record
      <3>2. s.pc = "lookup"
        BY <2>1 DEF Worker
      <3> QED
        BY <2>3, <2>5, <3>1, <3>2
    <2>10. CASE Abandon(w)
      BY <2>5, <2>10 DEF Abandon
    <2>11. CASE Delay(w)
      <3> DEFINE opening == [r EXCEPT !.pc = "open"]
                 creating == [r EXCEPT !.pc = "create"]
      <3>1. SetWorker(w, opening) \/ (r.pc = "createDelay" /\ SetWorker(w, creating))
        BY <2>11 DEF Delay
      <3>2. /\ opening.pc = "open" /\ creating.pc = "create"
            /\ creating.doc = r.doc /\ creating.links = r.links /\ creating.data = r.data
        BY <2>1 DEF Worker
      <3> QED
        BY <2>3, <2>4, <3>1, <3>2
    <2>12. CASE Cancel(w)
      <3> DEFINE s == [r EXCEPT !.canceled = TRUE]
      <3>1. SetWorker(w, s)
        BY <2>12 DEF Cancel
      <3>2. s.pc = r.pc /\ s.doc = r.doc /\ s.links = r.links /\ s.data = r.data
        BY <2>1 DEF Worker
      <3> QED
        BY <2>3, <2>4, <3>1, <3>2
    <2> QED
      BY <1>6, <2>6, <2>7, <2>8, <2>9, <2>10, <2>11, <2>12
  <1>7. CASE Crash
    BY <1>0, <1>2, <1>7
       DEF Crash, SizesInv, UploadsAreWhole, given, sizeLimit, DataOK, Idle
  <1>8. CASE UNCHANGED vars
    BY <1>8 DEF vars, given, SizesInv, UploadsAreWhole, sizeLimit, DataOK, current
  <1> QED
    BY <1>3, <1>4, <1>5, <1>6, <1>7, <1>8 DEF Next, WorkerStep, Proceed

LEMMA SizesInit == Init => SizesInv
  BY DEF Init, SizesInv, UploadsAreWhole, DataOK, Idle

\* No file at Memos is ever a part of one, or longer than allowed, whatever
\* the limit and the sizes are (attachments.go:96-122).
THEOREM UploadsAreAlwaysWhole == Spec => []UploadsAreWhole
  <1>1. SizesInv => UploadsAreWhole
    BY DEF SizesInv
  <1> QED
    BY <1>1, TypeInit, NextType, SizesInit, NextSizes, PTL DEF Spec
=============================================================================

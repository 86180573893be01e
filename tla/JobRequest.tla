------------------------------ MODULE JobRequest ------------------------------
(***************************************************************************)
(* What stands between a selection in the console and a run of the engine    *)
(* (createJob and engineForStoredJob in internal/api/job_handler.go): the    *)
(* checks of the Memos instance, its version and its limit of a memo's       *)
(* length, then, for a new job, the expansion of NotionDiscovery and the     *)
(* store.  A stored job passes the checks again before each of its runs.     *)
(***************************************************************************)
EXTENDS NotionDiscovery

CONSTANTS
  Versions,      \* versions Memos may report, their parts as numbers
  AskedLimits,   \* content_length_limit of a request, 0 for none
  MemosLimits,   \* limits Memos may have, 0 for none
  MaxResumes     \* bound: how often a stored job is run again

ASSUME RequestAssumption ==
  /\ Versions \subseteq Seq(Nat)
  /\ AskedLimits \cup MemosLimits \cup {MaxResumes} \subseteq Nat
  /\ None \notin Versions

VARIABLES
  stage,     \* where the request is
  version,   \* what Memos reported, None when that is dealt with
  heard,     \* what Memos answered about its limit so far
  options,   \* options.ContentLengthLimit
  job,       \* the stored job: its items and options
  left,      \* bound: how often the job may be run again
  used       \* the limits that its runs had

request == <<stage, version, heard, options>>
stored == <<job, left, used>>
requestVars == <<vars, request, stored>>

NoJob == [items |-> << >>, limit |-> None]

-----------------------------------------------------------------------------
(* The checks of the instance.                                             *)

MinVersion == <<0, 29, 1>>

\* Three parts, 0 where one is missing.
parseVersion(v) == [i \in 1..3 |-> IF i \in DOMAIN v THEN v[i] ELSE 0]

\* Any part that is greater decides.
MutantCompareVersion(got, min) ==
  LET g == parseVersion(got)
      m == parseVersion(min)
  IN  IF \E i \in 1..3 : g[i] > m[i] THEN 1 ELSE IF g = m THEN 0 ELSE -1

\* The first part that differs decides.
compareVersion(got, min) ==
  LET g == parseVersion(got)
      m == parseVersion(min)
      first == Min({i \in 1..3 : g[i] # m[i]})
  IN  IF g = m THEN 0 ELSE IF g[first] > m[first] THEN 1 ELSE -1

\* The version alone decides, the limit is asked for at every run.
MutantEnsureContentLengthLimit == "limit"

\* Where a request goes on: a limit that is there is kept.
ensureContentLengthLimit ==
  IF options = 0 THEN "limit" ELSE IF job = NoJob THEN "expand" ELSE "run"

\* Nothing is stored of a request that is refused.
Refused ==
  /\ IF job = NoJob THEN stage' = "refused" /\ Abandon
                    ELSE stage' = "stored" /\ UNCHANGED vars
  /\ UNCHANGED stored

\* An old Memos is asked again.
MutantVerifyMinVersion ==
  /\ stage = "version"
  /\ \E v \in Versions :
       /\ version' = v
       /\ IF compareVersion(v, MinVersion) < 0 THEN UNCHANGED <<stage, vars, stored>>
          ELSE stage' = ensureContentLengthLimit /\ UNCHANGED <<vars, stored>>
  /\ UNCHANGED <<heard, options>>

VerifyMinVersion ==
  /\ stage = "version"
  /\ \E v \in Versions :
       /\ version' = v
       /\ IF compareVersion(v, MinVersion) < 0 THEN Refused
          ELSE stage' = ensureContentLengthLimit /\ UNCHANGED <<vars, stored>>
  /\ UNCHANGED <<heard, options>>

\* The settings of a batch, of one name, and all of them.
Endpoints == 3

\* One endpoint after the other, until one answers with a limit.  None is an
\* error, or settings without a limit.
ContentLengthLimit ==
  /\ stage = "limit"
  /\ \E answer \in MemosLimits \cup {None} :
       /\ heard' = Append(heard, answer)
       /\ version' = None
       /\ IF answer # None
          THEN /\ options' = answer
               /\ stage' = IF job = NoJob THEN "expand" ELSE "run"
               /\ UNCHANGED <<vars, stored>>
          ELSE IF Len(heard') = Endpoints THEN Refused /\ UNCHANGED options
          ELSE UNCHANGED <<vars, stored, options, stage>>

\* The profile cannot be had.
RefuseProfile == stage = "version" /\ Refused /\ UNCHANGED <<version, heard, options>>

-----------------------------------------------------------------------------

RequestInit ==
  /\ Init
  /\ stage = "console"
  /\ version = None
  /\ heard = << >>
  /\ options = 0
  /\ job = NoJob
  /\ left = 0
  /\ used = {}

\* A job that was created before.
StoredInit ==
  /\ source = [i \in Ids |-> [parent |-> None, kind |-> "page", at |-> 0,
                              shared |-> TRUE]]
  /\ limit = 0
  /\ phase = "expanded"
  /\ cursor = None
  /\ refs = << >>
  /\ hasNext = FALSE
  /\ todo = << >>
  /\ pageIDs = << >>
  /\ expanded = << >>
  /\ selected = {}
  /\ stage = "stored"
  /\ version = None
  /\ heard = << >>
  /\ options = 0
  /\ job \in [items : {<<1>>}, limit : AskedLimits \cup MemosLimits]
  /\ left = MaxResumes
  /\ used = {}

\* POST /jobs with what the user selected.
SubmitJob ==
  /\ stage = "console"
  /\ Select
  /\ stage' = "version"
  /\ options' \in AskedLimits
  /\ UNCHANGED <<version, heard, stored>>

\* POST /jobs/{id}/resume or retry.
ResumeJob ==
  /\ stage = "stored"
  /\ left > 0
  /\ left' = left - 1
  /\ stage' = "version"
  /\ options' = job.limit
  /\ version' = None
  /\ heard' = << >>
  /\ UNCHANGED <<vars, job, used>>

\* The documents are listed, and later expanded; what Memos said has been used.
Finding ==
  /\ stage' = IF stage = "expand" /\ phase' = "error" THEN "refused" ELSE stage
  /\ version' = None
  /\ heard' = << >>
  /\ UNCHANGED <<options, stored>>

Find == stage \in {"console", "expand"} /\ AdapterStep /\ Finding

NotionFails == stage \in {"console", "expand"} /\ Fail /\ Finding

NotionEdits == stage \in {"console", "expand"} /\ (\E i \in Ids : Edit(i)) /\ Finding

\* (The ids that Notion gives are not blank.)
uniqueExternalIDs(ids) == addUnseen(<< >>, ids)

\* A job without items is stored too.
MutantCreateJob ==
  /\ stage = "expand" /\ phase = "expanded"
  /\ job' = [items |-> uniqueExternalIDs(expanded), limit |-> options]
  /\ stage' = "run"
  /\ UNCHANGED <<vars, left, used, version, heard, options>>

\* What was selected is stored, databases included.
MutantCreateJobOfSelection ==
  /\ stage = "expand" /\ phase = "expanded"
  /\ IF expanded = << >> THEN Refused
     ELSE /\ job' = [items |-> SetToSeq(selected), limit |-> options]
          /\ stage' = "run"
          /\ UNCHANGED <<vars, left, used>>
  /\ UNCHANGED <<version, heard, options>>

\* The expansion is stored, in one transaction, if there is any.
CreateJob ==
  /\ stage = "expand" /\ phase = "expanded"
  /\ IF expanded = << >> THEN Refused
     ELSE /\ job' = [items |-> uniqueExternalIDs(expanded), limit |-> options]
          /\ stage' = "run"
          /\ UNCHANGED <<vars, left, used>>
  /\ UNCHANGED <<version, heard, options>>

\* The engine runs the job with these options, unless it has a runner (409).
StartRun ==
  /\ stage = "run"
  /\ stage' = "stored"
  /\ used' \in {used, used \cup {options}}
  /\ version' = None
  /\ UNCHANGED <<vars, heard, options, job, left>>

RequestStep ==
  \/ Find
  \/ VerifyMinVersion
  \/ ContentLengthLimit
  \/ CreateJob
  \/ StartRun

RequestNext ==
  \/ RequestStep
  \/ NotionFails
  \/ NotionEdits
  \/ RefuseProfile
  \/ SubmitJob
  \/ ResumeJob

\* Every request to Notion and Memos ends, and the handler goes on.
RequestSpec ==
  (RequestInit \/ StoredInit) /\ [][RequestNext]_requestVars /\ WF_requestVars(RequestStep)

-----------------------------------------------------------------------------
(* Properties.                                                             *)

\* The type invariant; a stored job has items.
RequestTypeOK ==
  /\ stage \in {"console", "version", "limit", "expand", "run", "stored", "refused"}
  /\ version \in Versions \cup {None}
  /\ heard \in Seq(MemosLimits \cup {None}) /\ Len(heard) <= Endpoints
  /\ options \in {0} \cup AskedLimits \cup MemosLimits
  /\ job \in {NoJob} \cup [items : Seq(Ids), limit : {0} \cup AskedLimits \cup MemosLimits]
  /\ stage \in {"run", "stored"} => job.items # << >>
  /\ left \in 0..MaxResumes
  /\ used \subseteq {0} \cup AskedLimits \cup MemosLimits

\* A request passes the check of the version exactly if Memos is of 0.29.1 or
\* later, whatever the number of parts that it reports
\* (client.go:85-94, instance_metadata.go:9-39).
OnlySupportedMemos ==
  version # None =>
    LET part(i) == IF i \in DOMAIN version THEN version[i] ELSE 0
        isLater == \/ part(1) > 0
                   \/ part(2) > 29
                   \/ part(2) = 29 /\ part(3) > 0
    IN  isLater <=> stage \in {"limit", "expand", "run"}

\* A limit that is looked up is the first that one of the endpoints has, and a
\* request is refused for want of one only when none of the three had any
\* (client.go:96-134).
LimitIsTheFirstOffered ==
  heard # << >> /\ stage # "limit" =>
    \/ /\ \A k \in DOMAIN heard : heard[k] = None
       /\ stage \in {"refused", "stored"} /\ Len(heard) = Endpoints
    \/ \E k \in DOMAIN heard :
         /\ heard[k] # None /\ \A i \in 1..(k - 1) : heard[i] = None
         /\ stage \in {"expand", "run", "stored"} /\ options = heard[k]

\* What lets a request through.
MemosChecksDecide == OnlySupportedMemos /\ LimitIsTheFirstOffered

\* A job keeps one limit over all its runs, the one it was created with, however
\* Memos's changes; only a job created without any takes Memos's at each run
\* (job_handler.go:73, 228-238).
JobKeepsItsLimit == job # NoJob /\ job.limit > 0 => used \subseteq {job.limit}

\* The job that is stored has each page that was selected, or was in a selected
\* database that could be looked up, once, but for those touched meanwhile; a
\* database is in it only if it was selected and then gone
\* (job_handler.go:82-95, importer.go:47-93).
JobIsWhatWasSelected ==
  stage \in {"run", "stored"} /\ selected # {} =>
    LET items == ToSet(job.items) IN
    /\ IsInjective(job.items)
    /\ \A i \in items : source[i].kind = "database" => i \in selected /\ Gone(i)
    /\ \A i \in Ids : Touched(i) \/ (i \in items <=> IsWanted(i, items))

\* A request for a job, or for another run of one, is answered
\* (job_handler.go:32-106, 188-215).
RequestEnds == stage = "version" ~> stage \in {"stored", "refused"}
=============================================================================

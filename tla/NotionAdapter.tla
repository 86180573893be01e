---------------------------- MODULE NotionAdapter ----------------------------
(* The adapter as it is used: it finds documents for a request (JobRequest) or *)
(* fetches a document (PageContent).  Neither reads what the other keeps.      *)
EXTENDS JobRequest, Converter

NoRequest == StoredInit /\ job.limit = 0

NoPage ==
  /\ kids = [p \in Parents |-> << >>]
  /\ touched = [p \in Parents |-> 0]
  /\ edits = 0
  /\ at = "none"
  /\ attempt = 1
  /\ updated = 0
  /\ frames = << >>
  /\ blocks = << >>

AdapterInit ==
  \/ (RequestInit \/ StoredInit) /\ NoPage
  \/ NoRequest /\ PageInit

AdapterNext ==
  \/ at = "none" /\ RequestNext /\ UNCHANGED pageVars
  \/ at # "none" /\ PageNext /\ UNCHANGED requestVars

AdapterGoesOn ==
  \/ at = "none" /\ RequestStep /\ UNCHANGED pageVars
  \/ at # "none" /\ FetchStep /\ UNCHANGED requestVars

adapterVars == <<requestVars, pageVars>>

\* The type invariant of both.
AdapterTypeOK == DiscoveryTypeOK /\ RequestTypeOK /\ PageTypeOK

AdapterSpec == AdapterInit /\ [][AdapterNext]_adapterVars /\ WF_adapterVars(AdapterGoesOn)
=============================================================================

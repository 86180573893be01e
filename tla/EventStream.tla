----------------------------- MODULE EventStream -----------------------------
(***************************************************************************)
(* How the web console follows a job it has just started: the broker       *)
(* (internal/importer/events.go), the handler of the event stream           *)
(* (internal/api/sse.go) and the console's subscription                     *)
(* (webapp/src/main.tsx:276-298).                                          *)
(*                                                                         *)
(* The job is what the console can see change: the row of each item and,    *)
(* last, the status of the job.  A change is written by one statement and   *)
(* published after it, by its own goroutine; the statement may fail, and    *)
(* most changes are published all the same.  The console loads the list of  *)
(* jobs on every event; how far a list it shows has come is the set of      *)
(* changes in it.                                                          *)
(***************************************************************************)
EXTENDS Naturals, Sequences

CONSTANTS
  Items,         \* changes of item rows
  End,           \* the change of the job to done, failed or canceled
  Capacity,      \* room in a subscriber's channel (32)
  WireRoom,      \* events the network holds for a client that does not read
  MaxStreams     \* bound: event streams the browser opens, the first included

ASSUME StreamAssumption ==
  /\ End \notin Items
  /\ Capacity \in Nat \ {0}
  /\ WireRoom \in Nat \ {0}
  /\ MaxStreams \in Nat \ {0}

Changes == Items \cup {End}
Streams == 1..MaxStreams

VARIABLES
  tried,      \* changes whose statement has returned
  written,    \* changes in the store
  due,        \* changes about to be published
  subs,       \* streams whose channel the broker sends to
  queue,      \* what is in the channel of each stream
  closed,     \* streams whose channel is closed
  handler,    \* where the handler of each stream is
  wire,       \* events sent and not yet read by the browser
  gone,       \* streams whose client has closed the connection, or lost it
  source,     \* the stream of the console's EventSource, 0 when it has none
  asks,       \* how many requests for the list of jobs are to be answered
  answers,    \* how many answers with each list are on their way
  shown       \* the list on display

job == <<tried, written, due>>
broker == <<subs, queue, closed>>
browser == <<source, asks, answers, shown>>
vars == <<job, broker, handler, wire, gone, browser>>

\* startImport: subscribeJob opens the first stream, then loadJobs asks for the
\* list, while the runner has already started.
Init ==
  /\ tried = {}
  /\ written = {}
  /\ due = {}
  /\ subs = {}
  /\ queue = [s \in Streams |-> << >>]
  /\ closed = {}
  /\ handler = [s \in Streams |-> "connect"]
  /\ wire = [s \in Streams |-> << >>]
  /\ gone = {}
  /\ source = 1
  /\ asks = 1
  /\ answers = [rows \in SUBSET Changes |-> 0]
  /\ shown = {}

-----------------------------------------------------------------------------
(* The runner and its workers.                                             *)

\* What a statement that writes a change leaves: it may fail, applied or not.  Of
\* its error only that of a completed item is looked at: nothing is published
\* then (importer.go:288-290).
Return(c) ==
  /\ tried' = tried \cup {c}
  /\ written' \in {written, written \cup {c}}
  /\ \/ due' = due \cup {c}
     \/ c # End /\ UNCHANGED due
  /\ UNCHANGED <<broker, handler, wire, gone, browser>>

\* The final status is written before the last workers are done.
MutantWrite(c) ==
  /\ c \notin tried
  /\ Return(c)

\* The job's final status is written when all workers are done.
Write(c) ==
  /\ c \notin tried
  /\ c = End => tried = Items /\ due = {}
  /\ Return(c)

\* A send that waits for room in every channel.
MutantPublish(c) ==
  /\ c \in due
  /\ due' = due \ {c}
  /\ \A s \in subs : Len(queue[s]) < Capacity
  /\ queue' = [s \in Streams |-> IF s \in subs THEN Append(queue[s], c) ELSE queue[s]]
  /\ UNCHANGED <<tried, written, subs, closed, handler, wire, gone, browser>>

\* Under the broker's mutex: a channel without room misses the event.
Publish(c) ==
  /\ c \in due
  /\ due' = due \ {c}
  /\ queue' = [s \in Streams |-> IF s \in subs /\ Len(queue[s]) < Capacity
                                 THEN Append(queue[s], c) ELSE queue[s]]
  /\ UNCHANGED <<tried, written, subs, closed, handler, wire, gone, browser>>

-----------------------------------------------------------------------------
(* The handler of a stream.                                                *)

HandlerGoes(s, from, to) ==
  /\ handler[s] = from
  /\ handler' = [handler EXCEPT ![s] = to]

\* The request of a stream the browser has opened arrives.
Subscribe(s) ==
  /\ s \in gone \/ s = source
  /\ HandlerGoes(s, "connect", "loop")
  /\ subs' = subs \cup {s}
  /\ UNCHANGED <<job, queue, closed, wire, gone, browser>>

\* Writing waits for a client that does not read; what is written to one that
\* is gone is lost.
Send(s) ==
  /\ handler[s] = "loop"
  /\ queue[s] # << >>
  /\ s \in gone \/ Len(wire[s]) < WireRoom
  /\ queue' = [queue EXCEPT ![s] = Tail(@)]
  /\ wire' = IF s \in gone THEN wire
             ELSE [wire EXCEPT ![s] = Append(@, Head(queue[s]))]
  /\ UNCHANGED <<job, subs, closed, handler, gone, browser>>

\* The handler returns without its deferred cancel.
MutantLeave(s) ==
  /\ s \in gone
  /\ HandlerGoes(s, "loop", "done")
  /\ UNCHANGED <<job, broker, wire, gone, browser>>

\* r.Context() is done; the deferred cancel runs.
Leave(s) ==
  /\ s \in gone
  /\ HandlerGoes(s, "loop", "cancel")
  /\ UNCHANGED <<job, broker, wire, gone, browser>>

\* The channel is closed first.
MutantUnsubscribe(s) ==
  /\ HandlerGoes(s, "cancel", "close")
  /\ closed' = closed \cup {s}
  /\ UNCHANGED <<job, subs, queue, wire, gone, browser>>

\* cancel deletes the channel under the mutex ...
Unsubscribe(s) ==
  /\ HandlerGoes(s, "cancel", "close")
  /\ subs' = subs \ {s}
  /\ UNCHANGED <<job, queue, closed, wire, gone, browser>>

\* ... and closes it after.
CloseChannel(s) ==
  /\ HandlerGoes(s, "close", "done")
  /\ closed' = closed \cup {s}
  /\ UNCHANGED <<job, subs, queue, wire, gone, browser>>

-----------------------------------------------------------------------------
(* The browser.                                                            *)

\* loadJobs sends a request.
AskForList == asks' = asks + 1

\* The change an event names is displayed, without loading the list.
MutantReceiveEvent(s) ==
  /\ source = s
  /\ wire[s] # << >>
  /\ wire' = [wire EXCEPT ![s] = Tail(@)]
  /\ shown' = shown \cup {Head(wire[s])}
  /\ UNCHANGED <<job, broker, handler, gone, source, asks, answers>>

\* Closes the stream on the final event, without loading the list.
MutantReceive(s) ==
  /\ source = s
  /\ wire[s] # << >>
  /\ wire' = [wire EXCEPT ![s] = Tail(@)]
  /\ IF Head(wire[s]) = End
     THEN /\ source' = 0
          /\ gone' = gone \cup {s}
          /\ UNCHANGED asks
     ELSE /\ AskForList
          /\ UNCHANGED <<source, gone>>
  /\ UNCHANGED <<job, broker, handler, answers, shown>>

\* An event is handled: the list is loaded anew, and the final event also
\* closes the stream.
Receive(s) ==
  /\ source = s
  /\ wire[s] # << >>
  /\ wire' = [wire EXCEPT ![s] = Tail(@)]
  /\ AskForList
  /\ IF Head(wire[s]) = End
     THEN /\ source' = 0
          /\ gone' = gone \cup {s}
     ELSE UNCHANGED <<source, gone>>
  /\ UNCHANGED <<job, broker, handler, answers, shown>>

\* The connection breaks and the EventSource opens another.
Reconnect ==
  /\ source \in 1..(MaxStreams - 1)
  /\ gone' = gone \cup {source}
  /\ source' = source + 1
  /\ UNCHANGED <<job, broker, handler, wire, asks, answers, shown>>

\* The server reads the list for a request.
Answer ==
  /\ asks > 0
  /\ asks' = asks - 1
  /\ answers' = [answers EXCEPT ![written] = @ + 1]
  /\ UNCHANGED <<job, broker, handler, wire, gone, source, shown>>

\* Answers arrive in any order; each is displayed.
Display(rows) ==
  /\ answers[rows] > 0
  /\ answers' = [answers EXCEPT ![rows] = @ - 1]
  /\ shown' = rows
  /\ UNCHANGED <<job, broker, handler, wire, gone, source, asks>>

-----------------------------------------------------------------------------

ChangeStep(c) == Write(c) \/ Publish(c)

HandlerStep(s) ==
  \/ Subscribe(s)
  \/ Send(s)
  \/ Leave(s)
  \/ Unsubscribe(s)
  \/ CloseChannel(s)

BrowserStep ==
  \/ \E s \in Streams : Receive(s)
  \/ Answer
  \/ \E rows \in SUBSET Changes : Display(rows)

Next ==
  \/ \E c \in Changes : ChangeStep(c)
  \/ \E s \in Streams : HandlerStep(s)
  \/ BrowserStep
  \/ Reconnect

Spec == Init /\ [][Next]_vars

\* The server's goroutines are scheduled.  The browser need not read: its
\* machine may sleep.
Fairness ==
  /\ \A c \in Changes : WF_vars(ChangeStep(c))
  /\ \A s \in Streams : WF_vars(HandlerStep(s))

FairSpec == Spec /\ Fairness

\* A browser that is awake.
BrowserFairness == WF_vars(BrowserStep)

AwakeSpec == FairSpec /\ BrowserFairness

-----------------------------------------------------------------------------
(* Properties.                                                             *)

\* The type invariant.
StreamTypeOK ==
  /\ tried \subseteq Changes
  /\ written \subseteq tried
  /\ due \subseteq tried
  /\ subs \subseteq Streams
  /\ queue \in [Streams -> Seq(Changes)]
  /\ closed \subseteq Streams
  /\ handler \in [Streams -> {"connect", "loop", "cancel", "close", "done"}]
  /\ wire \in [Streams -> Seq(Changes)]
  /\ gone \subseteq Streams
  /\ source \in {0} \cup Streams
  /\ asks \in Nat
  /\ answers \in [SUBSET Changes -> Nat]
  /\ \A rows \in SUBSET Changes : answers[rows] > 0 => rows \subseteq written
  /\ shown \subseteq written

\* The broker never sends to a closed channel, which would panic in a worker
\* with the broker's mutex held: a stream that ends while events are published
\* is deleted before its channel is closed (events.go:32-42).
OpenChannelsOnly == subs \cap closed = {}

\* On no stream does an event of an item follow the final event of the run, after
\* which the console stops to read; and none comes twice (importer.go:128-160).
\* This is one run: a stream that the console leaves open may go on with the
\* events of the job's next run.
NothingAfterTheEnd ==
  \A s \in Streams :
    LET events == wire[s] \o queue[s] IN
    \A m, n \in DOMAIN events : m < n => events[m] # End /\ events[m] # events[n]

\* The run never waits for a console: all its changes are written and published
\* although no browser reads its stream (events.go:52-57).
EveryChangeIsPublished == <>(tried = Changes /\ due = {})

\* The broker forgets every stream whose client is gone (sse.go:23-29).
LeaversAreForgotten == \A s \in Streams : s \in gone ~> s \notin subs

\* s still has the final event to bring.
EndIsComing(s) == \E n \in DOMAIN (wire[s] \o queue[s]) : (wire[s] \o queue[s])[n] = End

\* A console that is awake, and has the final event waiting on a stream it does
\* not lose, comes to show all that the run has left in the store.  That need not
\* be the final status, whose write may have been lost: the event comes all the
\* same (main.tsx:280-291, importer.go:154-160).
FinalEventIsShown ==
  BrowserFairness =>
    \A s \in Streams :
      (source = s /\ EndIsComing(s)) ~> (shown = written \/ (s \in gone /\ source # 0))

\* A console that is awake shows a finished job as finished, in the end.
FinishedJobsLookFinished == <>[](End \in written => End \in shown)
=============================================================================

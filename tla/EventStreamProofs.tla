-------------------------- MODULE EventStreamProofs --------------------------
(* Proofs about EventStream: its type invariant, no send to a closed channel, *)
(* and no event on a stream after the final one.                              *)
EXTENDS EventStream, SequenceTheorems, TLAPS

-----------------------------------------------------------------------------
(* No send to a closed channel.                                            *)

\* Where a handler stands tells whether the broker has its channel and whether
\* that is closed.
ChannelsInv ==
  /\ subs \subseteq {s \in Streams : handler[s] \in {"loop", "cancel"}}
  /\ closed \subseteq {s \in Streams : handler[s] = "done"}
  /\ DOMAIN handler = Streams

\* Handlers start without a channel.
LEMMA ChannelsInit == Init => ChannelsInv
  BY DEF Init, ChannelsInv

\* The handlers' own steps keep them apart.
LEMMA HandlersKeepChannels ==
  ASSUME ChannelsInv, NEW s \in Streams, HandlerStep(s)
  PROVE  ChannelsInv'
  <1> USE DEF ChannelsInv, HandlerGoes
  <1>1. CASE Subscribe(s)
    BY <1>1 DEF Subscribe
  <1>2. CASE Send(s)
    BY <1>2 DEF Send
  <1>3. CASE Leave(s)
    BY <1>3 DEF Leave, broker
  <1>4. CASE Unsubscribe(s)
    BY <1>4 DEF Unsubscribe
  <1>5. CASE CloseChannel(s)
    BY <1>5 DEF CloseChannel
  <1> QED
    BY <1>1, <1>2, <1>3, <1>4, <1>5 DEF HandlerStep

\* Everybody else leaves handlers and channels as they are.
LEMMA OthersKeepChannels ==
  ASSUME ChannelsInv,
         (\E c \in Changes : ChangeStep(c)) \/ BrowserStep \/ Reconnect \/ UNCHANGED vars
  PROVE  ChannelsInv'
  <1>1. UNCHANGED <<subs, closed, handler>>
    <2>1. CASE \E c \in Changes : ChangeStep(c)
      BY <2>1 DEF ChangeStep, Write, Return, Publish, broker
    <2>2. CASE BrowserStep
      BY <2>2 DEF BrowserStep, Receive, Answer, Display, broker
    <2>3. CASE Reconnect
      BY <2>3 DEF Reconnect, broker
    <2>4. CASE UNCHANGED vars
      BY <2>4 DEF vars, broker
    <2> QED
      BY <2>1, <2>2, <2>3, <2>4
  <1> QED
    BY <1>1 DEF ChannelsInv

\* The broker never sends to a closed channel, however many streams come and
\* go while however many changes are published (events.go:24-59).
THEOREM ChannelsStayOpen == Spec => []OpenChannelsOnly
  <1>1. ChannelsInv /\ [Next]_vars => ChannelsInv'
    BY HandlersKeepChannels, OthersKeepChannels DEF Next
  <1>2. ChannelsInv => OpenChannelsOnly
    BY DEF ChannelsInv, OpenChannelsOnly
  <1> QED
    BY <1>1, <1>2, ChannelsInit, PTL DEF Spec

-----------------------------------------------------------------------------
(* The type invariant.                                                     *)

\* The runner and its workers keep the types.
LEMMA ChangesKeepTypes ==
  ASSUME StreamTypeOK, NEW c \in Changes, ChangeStep(c)
  PROVE  StreamTypeOK'
  <1> USE DEF StreamTypeOK
  <1>1. CASE Write(c)
    BY <1>1 DEF Write, Return, broker, browser
  <1>2. CASE Publish(c)
    <2>1. queue' \in [Streams -> Seq(Changes)] /\ due' \subseteq tried
      BY <1>2 DEF Publish
    <2>2. UNCHANGED <<tried, written, subs, closed, handler, wire, gone, source, asks, answers, shown>>
      BY <1>2 DEF Publish, browser
    <2> QED
      BY <2>1, <2>2
  <1> QED
    BY <1>1, <1>2 DEF ChangeStep

\* The handlers of streams do.
LEMMA HandlersKeepTypes ==
  ASSUME StreamTypeOK, NEW s \in Streams, HandlerStep(s)
  PROVE  StreamTypeOK'
  <1> USE DEF StreamTypeOK, HandlerGoes, job, broker, browser
  <1>1. CASE Subscribe(s)
    BY <1>1 DEF Subscribe
  <1>2. CASE Send(s)
    <2>1. queue' \in [Streams -> Seq(Changes)] /\ wire' \in [Streams -> Seq(Changes)]
      BY <1>2 DEF Send
    <2> QED
      BY <1>2, <2>1 DEF Send
  <1>3. CASE Leave(s)
    BY <1>3 DEF Leave
  <1>4. CASE Unsubscribe(s)
    BY <1>4 DEF Unsubscribe
  <1>5. CASE CloseChannel(s)
    BY <1>5 DEF CloseChannel
  <1> QED
    BY <1>1, <1>2, <1>3, <1>4, <1>5 DEF HandlerStep

\* The browser does.
LEMMA BrowserKeepsTypes ==
  ASSUME StreamTypeOK, BrowserStep \/ Reconnect
  PROVE  StreamTypeOK'
  <1> USE DEF StreamTypeOK, job, broker
  <1>1. ASSUME NEW s \in Streams, Receive(s) PROVE StreamTypeOK'
    <2>1. asks' \in Nat
      BY <1>1 DEF Receive, AskForList
    <2>2. wire' \in [Streams -> Seq(Changes)]
      BY <1>1 DEF Receive
    <2>3. source' \in {0} \cup Streams /\ gone' \subseteq Streams
      BY <1>1 DEF Receive
    <2> QED
      BY <1>1, <2>1, <2>2, <2>3 DEF Receive
  <1>2. CASE Answer
    <2>1. written \in SUBSET Changes
      OBVIOUS
    <2>2. asks' \in Nat /\ answers' \in [SUBSET Changes -> Nat]
      BY <1>2, <2>1 DEF Answer
    <2>3. \A rows \in SUBSET Changes : answers'[rows] > 0 => rows \subseteq written
      BY <1>2, <2>1 DEF Answer
    <2> QED
      BY <1>2, <2>2, <2>3 DEF Answer
  <1>3. ASSUME NEW rows \in SUBSET Changes, Display(rows) PROVE StreamTypeOK'
    <2>1. answers[rows] \in Nat /\ answers[rows] > 0
      BY <1>3 DEF Display
    <2>2. answers' \in [SUBSET Changes -> Nat]
      BY <1>3, <2>1 DEF Display
    <2>3. \A list \in SUBSET Changes : answers'[list] > 0 => list \subseteq written
      BY <1>3, <2>1 DEF Display
    <2> QED
      BY <1>3, <2>1, <2>2, <2>3 DEF Display
  <1>4. CASE Reconnect
    <2>1. source' \in {0} \cup Streams /\ gone' \subseteq Streams
      BY <1>4, StreamAssumption DEF Reconnect, Streams
    <2>2. UNCHANGED <<tried, written, due, subs, queue, closed, handler, wire, asks, answers, shown>>
      BY <1>4 DEF Reconnect
    <2> QED
      BY <2>1, <2>2
  <1> QED
    BY <1>1, <1>2, <1>3, <1>4 DEF BrowserStep

\* Every step does.
LEMMA TypesAreKept == StreamTypeOK /\ [Next]_vars => StreamTypeOK'
  <1> SUFFICES ASSUME StreamTypeOK, [Next]_vars PROVE StreamTypeOK'
    OBVIOUS
  <1>1. CASE Next
    BY <1>1, ChangesKeepTypes, HandlersKeepTypes, BrowserKeepsTypes DEF Next
  <1>2. CASE UNCHANGED vars
    BY <1>2 DEF vars, job, broker, browser, StreamTypeOK
  <1> QED
    BY <1>1, <1>2

\* It starts with them.
LEMMA TypesInit == Init => StreamTypeOK
  <1> SUFFICES ASSUME Init PROVE StreamTypeOK
    OBVIOUS
  <1>1. 1 \in Streams
    BY StreamAssumption DEF Streams
  <1> QED
    BY <1>1 DEF Init, StreamTypeOK

\* The variables have their types in every reachable state, and the console never
\* shows what is not in the store, although events tell of writes that failed,
\* whatever the items, the capacities and the number of streams (importer.go:300,
\* events.go, sse.go, main.tsx:276-298).
THEOREM StreamTypeCorrect == Spec => []StreamTypeOK
  BY TypesInit, TypesAreKept, PTL DEF Spec

-----------------------------------------------------------------------------
(* Nothing after the end.                                                  *)

\* No event twice in e, and the final one last.
Ordered(e) == \A m, n \in 1..Len(e) : m < n => e[m] # End /\ e[m] # e[n]

\* The events of e go on in f.
GoesOn(e, f) == \A m \in 1..Len(e), n \in 1..Len(f) : e[m] # End /\ e[m] # f[n]

\* What is on a stream was published.
Published(e) == \A n \in 1..Len(e) : e[n] \in tried \ due

\* The strengthening of NothingAfterTheEnd: what waits in the channel goes on
\* where the network is, it was all published, and after the final status nothing
\* else is tried or published.
OrderInv ==
  /\ End \in tried => Items \subseteq tried /\ due \subseteq {End}
  /\ \A s \in Streams :
       /\ Ordered(wire[s]) /\ Ordered(queue[s]) /\ GoesOn(wire[s], queue[s])
       /\ Published(wire[s]) /\ Published(queue[s])

\* The rest of a sequence.
LEMMA TailFacts ==
  ASSUME NEW e \in Seq(Changes), e # << >>
  PROVE  /\ Tail(e) \in Seq(Changes)
         /\ Len(Tail(e)) = Len(e) - 1 /\ Len(e) \in Nat \ {0}
         /\ \A n \in 1..Len(Tail(e)) : n + 1 \in 1..Len(e) /\ Tail(e)[n] = e[n + 1]
         /\ 1 \in 1..Len(e) /\ Head(e) = e[1]
  OBVIOUS

\* The rest of an ordered sequence is ordered, and its head goes before it.
LEMMA TailIsOrdered ==
  ASSUME NEW e \in Seq(Changes), e # << >>, Ordered(e)
  PROVE  /\ Ordered(Tail(e))
         /\ \A n \in 1..Len(Tail(e)) : Head(e) # End /\ Head(e) # Tail(e)[n]
  BY TailFacts DEF Ordered

\* An ordered sequence without the final event may be continued.
LEMMA AppendIsOrdered ==
  ASSUME NEW e \in Seq(Changes), NEW c \in Changes, Ordered(e),
         \A n \in 1..Len(e) : e[n] # End /\ e[n] # c
  PROVE  Ordered(Append(e, c))
  <1> SUFFICES ASSUME NEW m \in 1..(Len(e) + 1), NEW n \in 1..(Len(e) + 1), m < n
               PROVE  Append(e, c)[m] # End /\ Append(e, c)[m] # Append(e, c)[n]
    BY DEF Ordered
  <1>1. m \in 1..Len(e) /\ Append(e, c)[m] = e[m]
    OBVIOUS
  <1>2. CASE n = Len(e) + 1
    BY <1>1, <1>2
  <1>3. CASE n \in 1..Len(e)
    BY <1>1, <1>3 DEF Ordered
  <1> QED
    BY <1>2, <1>3

\* A change is tried: the final one when nothing else is left to publish.
LEMMA WriteKeepsOrder ==
  ASSUME StreamTypeOK, OrderInv, NEW c \in Changes, Write(c)
  PROVE  OrderInv'
  <1>1. UNCHANGED <<queue, wire>>
    BY DEF Write, Return, broker
  <1>2. (End \in tried => Items \subseteq tried /\ due \subseteq {End})'
    BY DEF Write, Return, OrderInv, Changes, StreamTypeOK
  <1>3. tried \ due \subseteq tried' \ due'
    BY DEF Write, Return
  <1> QED
    BY <1>1, <1>2, <1>3 DEF OrderInv, Ordered, GoesOn, Published

\* A change is published: it is new, and the final one was not before it.
LEMMA PublishKeepsOrder ==
  ASSUME StreamTypeOK, OrderInv, NEW c \in Changes, Publish(c)
  PROVE  OrderInv'
  <1>1. UNCHANGED <<tried, wire>> /\ due' = due \ {c} /\ c \in due
    BY DEF Publish
  <1>2. End \notin tried \ due
    BY <1>1 DEF OrderInv
  <1>2a. c \notin tried \ due /\ tried' \ due' = (tried \ due) \cup {c}
    BY <1>1 DEF StreamTypeOK
  <1>3. ASSUME NEW s \in Streams
        PROVE  /\ Ordered(queue'[s]) /\ GoesOn(wire[s], queue'[s])
               /\ \A n \in 1..Len(queue'[s]) : queue'[s][n] \in tried' \ due'
    <2> DEFINE q == queue[s]
    <2>1. q \in Seq(Changes) /\ wire[s] \in Seq(Changes)
      BY DEF StreamTypeOK
    <2>2. Ordered(q) /\ GoesOn(wire[s], q) /\ Published(q) /\ Published(wire[s])
      BY DEF OrderInv
    <2>3. CASE queue'[s] = q
      BY <1>2a, <2>2, <2>3 DEF Published
    <2>4. CASE queue'[s] = Append(q, c)
      <3>1. Ordered(Append(q, c))
        BY <1>2, <1>2a, <2>1, <2>2, AppendIsOrdered DEF Published
      <3>2. \A n \in 1..Len(Append(q, c)) : Append(q, c)[n] = c \/ (n \in 1..Len(q) /\ Append(q, c)[n] = q[n])
        BY <2>1
      <3>3. GoesOn(wire[s], Append(q, c))
        BY <1>2, <1>2a, <2>2, <3>2 DEF GoesOn, Published
      <3>4. \A n \in 1..Len(queue'[s]) : queue'[s][n] \in tried' \ due'
        BY <1>2a, <2>2, <2>4, <3>2 DEF Published
      <3> QED
        BY <2>4, <3>1, <3>3, <3>4
    <2>5. queue'[s] = q \/ queue'[s] = Append(q, c)
      BY DEF Publish
    <2> QED
      BY <2>3, <2>4, <2>5
  <1>4. ASSUME NEW s \in Streams
        PROVE  Ordered(wire[s]) /\ \A n \in 1..Len(wire[s]) : wire[s][n] \in tried' \ due'
    BY <1>2a DEF OrderInv, Published
  <1>5. (End \in tried => Items \subseteq tried /\ due \subseteq {End})'
    BY <1>1 DEF OrderInv
  <1> QED
    BY <1>1, <1>3, <1>4, <1>5 DEF OrderInv, Ordered, GoesOn, Published

\* An event moves from a channel to the network, or is lost.
LEMMA SendKeepsOrder ==
  ASSUME StreamTypeOK, OrderInv, NEW s \in Streams, Send(s)
  PROVE  OrderInv'
  <1> DEFINE q == queue[s]
             w == wire[s]
  <1>1. q \in Seq(Changes) /\ w \in Seq(Changes) /\ q # << >>
    BY DEF StreamTypeOK, Send
  <1>2. UNCHANGED <<tried, due>>
    BY DEF Send, job
  <1>3. Ordered(w) /\ Ordered(q) /\ GoesOn(w, q) /\ Published(w) /\ Published(q)
    BY DEF OrderInv
  <1>4. Ordered(Tail(q)) /\ GoesOn(w, Tail(q)) /\ Published(Tail(q))
    BY <1>1, <1>3, TailFacts, TailIsOrdered DEF GoesOn, Published
  <1>5. \A n \in 1..Len(w) : w[n] # End /\ w[n] # Head(q)
    BY <1>1, <1>3, TailFacts DEF GoesOn
  <1>6. Head(q) \in Changes /\ Head(q) \in tried \ due
    BY <1>1, <1>3, TailFacts DEF Published
  <1>7. Ordered(Append(w, Head(q)))
    BY <1>1, <1>3, <1>5, <1>6, AppendIsOrdered
  <1>8. \A n \in 1..Len(Append(w, Head(q))) :
          \/ Append(w, Head(q))[n] = Head(q)
          \/ n \in 1..Len(w) /\ Append(w, Head(q))[n] = w[n]
    BY <1>1, <1>6
  <1>9. GoesOn(Append(w, Head(q)), Tail(q)) /\ Published(Append(w, Head(q)))
    BY <1>1, <1>3, <1>4, <1>6, <1>8, TailIsOrdered DEF GoesOn, Published
  <1>10. queue'[s] = Tail(q) /\ wire'[s] \in {w, Append(w, Head(q))}
    BY DEF Send, StreamTypeOK
  <1>11. \A r \in Streams \ {s} : queue'[r] = queue[r] /\ wire'[r] = wire[r]
    BY DEF Send, StreamTypeOK
  <1>12. ASSUME NEW r \in Streams
         PROVE  /\ Ordered(wire'[r]) /\ Ordered(queue'[r]) /\ GoesOn(wire'[r], queue'[r])
                /\ Published(wire'[r]) /\ Published(queue'[r])
    <2>1. CASE r = s
      BY <1>3, <1>4, <1>7, <1>9, <1>10, <2>1
    <2>2. CASE r # s
      BY <1>11, <2>2 DEF OrderInv
    <2> QED
      BY <2>1, <2>2
  <1> QED
    BY <1>2, <1>12 DEF OrderInv, Published

\* The browser takes an event.
LEMMA ReceiveKeepsOrder ==
  ASSUME StreamTypeOK, OrderInv, NEW s \in Streams, Receive(s)
  PROVE  OrderInv'
  <1> DEFINE w == wire[s]
  <1>1. w \in Seq(Changes) /\ w # << >>
    BY DEF StreamTypeOK, Receive
  <1>2. UNCHANGED <<tried, due, queue>>
    BY DEF Receive, job, broker
  <1>3. Ordered(w) /\ GoesOn(w, queue[s]) /\ Published(w)
    BY DEF OrderInv
  <1>4. Ordered(Tail(w)) /\ GoesOn(Tail(w), queue[s]) /\ Published(Tail(w))
    BY <1>1, <1>3, TailFacts, TailIsOrdered DEF GoesOn, Published
  <1>5. ASSUME NEW r \in Streams
        PROVE  Ordered(wire'[r]) /\ GoesOn(wire'[r], queue[r]) /\ Published(wire'[r])
    <2>1. CASE r = s
      BY <1>4, <2>1 DEF Receive, StreamTypeOK
    <2>2. CASE r # s
      BY <2>2 DEF Receive, StreamTypeOK, OrderInv
    <2> QED
      BY <2>1, <2>2
  <1> QED
    BY <1>2, <1>5 DEF OrderInv, Published

\* Nobody else touches events.
LEMMA OthersKeepOrder ==
  ASSUME OrderInv, UNCHANGED <<tried, due, queue, wire>>
  PROVE  OrderInv'
  BY DEF OrderInv, Ordered, GoesOn, Published

\* Every step keeps the order.
LEMMA OrderIsKept == StreamTypeOK /\ OrderInv /\ [Next]_vars => OrderInv'
  <1> SUFFICES ASSUME StreamTypeOK, OrderInv, [Next]_vars PROVE OrderInv'
    OBVIOUS
  <1>1. ASSUME NEW c \in Changes, ChangeStep(c) PROVE OrderInv'
    BY <1>1, WriteKeepsOrder, PublishKeepsOrder DEF ChangeStep
  <1>2. ASSUME NEW s \in Streams, HandlerStep(s) PROVE OrderInv'
    <2>1. CASE Send(s)
      BY <2>1, SendKeepsOrder
    <2>2. CASE Subscribe(s) \/ Leave(s) \/ Unsubscribe(s) \/ CloseChannel(s)
      BY <2>2, OthersKeepOrder DEF Subscribe, Leave, Unsubscribe, CloseChannel, job, broker
    <2> QED
      BY <1>2, <2>1, <2>2 DEF HandlerStep
  <1>3. CASE BrowserStep
    <2>1. ASSUME NEW rows, Answer \/ Display(rows) PROVE OrderInv'
      BY <2>1, OthersKeepOrder DEF Answer, Display, job, broker
    <2> QED
      BY <1>3, <2>1, ReceiveKeepsOrder DEF BrowserStep
  <1>4. CASE Reconnect \/ UNCHANGED vars
    BY <1>4, OthersKeepOrder DEF Reconnect, vars, job, broker
  <1> QED
    BY <1>1, <1>2, <1>3, <1>4 DEF Next

\* Two ordered sequences, one going on in the other, are one ordered sequence.
LEMMA ConcatIsOrdered ==
  ASSUME NEW w \in Seq(Changes), NEW q \in Seq(Changes), Ordered(w), Ordered(q), GoesOn(w, q)
  PROVE  \A m, n \in DOMAIN (w \o q) :
           m < n => (w \o q)[m] # End /\ (w \o q)[m] # (w \o q)[n]
  <1>1. Len(w) \in Nat /\ Len(q) \in Nat /\ DOMAIN (w \o q) = 1..(Len(w) + Len(q))
    BY ConcatProperties, LenProperties
  <1>2. \A k \in 1..(Len(w) + Len(q)) :
          (w \o q)[k] = IF k <= Len(w) THEN w[k] ELSE q[k - Len(w)]
    BY ConcatProperties
  <1> DEFINE e == w \o q
  <1> HIDE DEF e
  <1> SUFFICES ASSUME NEW m \in 1..(Len(w) + Len(q)), NEW n \in 1..(Len(w) + Len(q)), m < n
               PROVE  e[m] # End /\ e[m] # e[n]
    BY <1>1 DEF e
  <1>3. CASE n <= Len(w)
    <2>1. m \in 1..Len(w) /\ n \in 1..Len(w) /\ e[m] = w[m] /\ e[n] = w[n]
      BY <1>1, <1>2, <1>3 DEF e
    <2> QED
      BY <2>1 DEF Ordered
  <1>4. CASE ~(m <= Len(w))
    <2>1. /\ m - Len(w) \in 1..Len(q) /\ n - Len(w) \in 1..Len(q)
          /\ m - Len(w) < n - Len(w)
          /\ e[m] = q[m - Len(w)] /\ e[n] = q[n - Len(w)]
      BY <1>1, <1>2, <1>4 DEF e
    <2> QED
      BY <2>1 DEF Ordered
  <1>5. CASE m <= Len(w) /\ ~(n <= Len(w))
    <2>1. m \in 1..Len(w) /\ n - Len(w) \in 1..Len(q) /\ e[m] = w[m] /\ e[n] = q[n - Len(w)]
      BY <1>1, <1>2, <1>5 DEF e
    <2> QED
      BY <2>1 DEF GoesOn
  <1> QED
    BY <1>1, <1>3, <1>4, <1>5

\* What is on the way to a browser and what waits in its channel.
LEMMA OrderIsEnough == StreamTypeOK /\ OrderInv => NothingAfterTheEnd
  <1> SUFFICES ASSUME StreamTypeOK, OrderInv, NEW s \in Streams
               PROVE  \A m, n \in DOMAIN (wire[s] \o queue[s]) :
                        m < n => /\ (wire[s] \o queue[s])[m] # End
                                 /\ (wire[s] \o queue[s])[m] # (wire[s] \o queue[s])[n]
    BY DEF NothingAfterTheEnd
  <1>1. wire[s] \in Seq(Changes) /\ queue[s] \in Seq(Changes)
    BY DEF StreamTypeOK
  <1>2. Ordered(wire[s]) /\ Ordered(queue[s]) /\ GoesOn(wire[s], queue[s])
    BY DEF OrderInv
  <1> QED
    BY <1>1, <1>2, ConcatIsOrdered

\* On no stream does an event follow the final one, or come twice, for any
\* number of items and streams and any capacity (importer.go:128-160, events.go).
THEOREM NothingEverAfterTheEnd == Spec => []NothingAfterTheEnd
  <1>1. Init => OrderInv
    BY DEF Init, OrderInv, Ordered, GoesOn, Published
  <1> QED
    BY <1>1, TypesInit, TypesAreKept, OrderIsKept, OrderIsEnough, PTL DEF Spec
=============================================================================

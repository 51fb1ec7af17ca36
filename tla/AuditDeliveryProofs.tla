------------------------- MODULE AuditDeliveryProofs -------------------------
(***************************************************************************)
(* Proofs about AuditDelivery, for any number of drains, events, projects  *)
(* and attempts and any batch size.  NothingSkipped is not inductive: a    *)
(* drain moves the cursor from rows and a cursor that it read long before. *)
(* Inv adds why this is safe: the receiver has seen every event before the *)
(* first of any batch, and every event up to any cursor that a drain has   *)
(* read.  Both are about the past of the chain, which never changes, and   *)
(* about what was received, which never shrinks.                           *)
(***************************************************************************)
EXTENDS AuditDelivery, TLAPS

\* The receiver, which has seen rec, has all events of the scope s up to n.
Reached(l, s, rec, n) ==
  /\ n \in 0 .. Len(l)
  /\ \A i \in 1 .. n : (s = None \/ l[i].project = s) => i \in rec

\* The batch k is a range of the chain, and everything before it is received.
Batched(l, s, rec, k) ==
  /\ k[1] \in 1 .. Len(l) /\ k[2] \in 1 .. Len(l)
  /\ Reached(l, s, rec, k[1] - 1)

\* What a drain has read is sound: its cursor, its queue and its answer.
Follows(l, s, rec, rows, e) ==
  /\ Reached(l, s, rec, e.cursor)
  /\ \A k \in e.queue : rows[k].status # "NONE"
  /\ e.pc = "settle" =>
       /\ e.key \in Keys /\ rows[e.key].status # "NONE"
       /\ e.got = "yes" => \A i \in e.key[1] .. e.key[2] : i \in rec

\* Every event hashes its own text and links to the one before it.
Chained(l) ==
  \A i \in 1 .. Len(l) :
    /\ l[i].hash = [seq |-> i, bytes |-> Escaped(l[i].text)]
    /\ i > 1 => l[i].prev = l[i - 1].hash

\* m continues the chain l.
Grown(l, m) == Len(l) <= Len(m) /\ \A i \in 1 .. Len(l) : m[i] = l[i]

Continues(l, m) ==
  m \in Seq(Event) /\ Len(m) <= EventBound /\ Chained(m) /\ Grown(l, m)

\* Nothing happens before the sink exists.
Unused ==
  sink.status = "NONE" =>
    /\ sink.cursor = 0 /\ received = {}
    /\ \A k \in Keys : deliveries[k].status = "NONE"
    /\ \A d \in Drains : drain[d] = IdleDrain

Inv ==
  /\ AuditTypeOK /\ Chained(log) /\ Unused /\ ScopeKept
  /\ Reached(log, sink.scope, received, sink.cursor)
  /\ \A k \in Keys : deliveries[k].status # "NONE"
                     => Batched(log, sink.scope, received, k)
  /\ \A d \in Drains : Follows(log, sink.scope, received, deliveries, drain[d])

-----------------------------------------------------------------------------
(* The chain                                                               *)

\* record continues the chain, or leaves it as it is at the bound.
LEMMA RecordedGrows ==
  ASSUME NEW l \in Seq(Event), Len(l) <= EventBound, Chained(l),
         NEW p \in Scopes, NEW t \in Texts
  PROVE  /\ Recorded(l, p, t) \in Seq(Event)
         /\ Len(Recorded(l, p, t)) <= EventBound
         /\ Chained(Recorded(l, p, t)) /\ Grown(l, Recorded(l, p, t))
<1>1. CASE Len(l) >= EventBound
  BY <1>1 DEF Recorded, Grown
<1>2. CASE ~(Len(l) >= EventBound)
  <2> DEFINE h == [seq |-> Len(l) + 1, bytes |-> Escaped(t)]
             g == IF l = <<>> THEN NoHash ELSE l[Len(l)].hash
             e == [project |-> p, text |-> t, prev |-> g, hash |-> h]
             m == Append(l, e)
  <2>1. h \in Hash
    <3>1. Len(l) + 1 \in Nat
      OBVIOUS
    <3>2. QED
      BY <3>1 DEF Hash, Escaped, Texts
  <2>2. g \in Hash
    <3>1. CASE l = <<>>
      BY <3>1 DEF NoHash, Hash
    <3>2. CASE l # <<>>
      <4>1. Len(l) \in 1 .. Len(l)
        BY <3>2
      <4>2. l[Len(l)] \in Event
        BY <4>1
      <4>3. l[Len(l)].hash \in Hash
        BY <4>2 DEF Event
      <4>4. QED
        BY <3>2, <4>3
    <3>3. QED
      BY <3>1, <3>2
  <2>3. e \in Event
    BY <2>1, <2>2 DEF Event
  <2>4. Recorded(l, p, t) = m
    BY <1>2 DEF Recorded
  <2>5. e.hash = [seq |-> Len(l) + 1, bytes |-> Escaped(e.text)]
    OBVIOUS
  <2>6. l # <<>> => e.prev = l[Len(l)].hash
    OBVIOUS
  <2> HIDE DEF e
  <2>7. /\ m \in Seq(Event) /\ Len(m) = Len(l) + 1
        /\ m[Len(l) + 1] = e /\ \A i \in 1 .. Len(l) : m[i] = l[i]
    BY <2>3
  <2>8. EventBound \in Nat /\ Len(l) \in Nat
    BY DeliveryAssumption
  <2> HIDE DEF m
  <2>9. Chained(m)
    <3> SUFFICES ASSUME NEW i \in 1 .. Len(m)
                 PROVE  /\ m[i].hash = [seq |-> i, bytes |-> Escaped(m[i].text)]
                        /\ i > 1 => m[i].prev = m[i - 1].hash
      BY DEF Chained
    <3>1. CASE i \in 1 .. Len(l)
      <4>1. i > 1 => i - 1 \in 1 .. Len(l)
        BY <3>1
      <4>2. QED
        BY <2>7, <3>1, <4>1 DEF Chained
    <3>2. CASE i = Len(l) + 1
      <4>1. m[i] = e
        BY <2>7, <3>2
      <4>2. i > 1 => /\ l # <<>> /\ i - 1 = Len(l) /\ i - 1 \in 1 .. Len(l)
        BY <2>8, <3>2
      <4>3. i > 1 => m[i - 1] = l[Len(l)]
        BY <4>2, <2>7
      <4>4. QED
        BY <2>5, <2>6, <3>2, <4>1, <4>2, <4>3
    <3>3. QED
      BY <2>7, <2>8, <3>1, <3>2
  <2>10. QED
    BY <1>2, <2>4, <2>7, <2>8, <2>9 DEF Grown
<1>3. QED
  BY <1>1, <1>2

\* Two records in a row do, too.
LEMMA RecordedTwice ==
  ASSUME NEW l \in Seq(Event), Len(l) <= EventBound, Chained(l),
         NEW p \in Scopes, NEW t \in Texts, NEW m,
         m = Recorded(Recorded(l, p, t), p, "ascii")
  PROVE  m \in Seq(Event) /\ Len(m) <= EventBound /\ Chained(m) /\ Grown(l, m)
<1> DEFINE r == Recorded(l, p, t)
<1>1. r \in Seq(Event) /\ Len(r) <= EventBound /\ Chained(r) /\ Grown(l, r)
  BY RecordedGrows
<1>2. "ascii" \in Texts
  BY DEF Texts
<1> HIDE DEF r
<1>3. /\ Recorded(r, p, "ascii") \in Seq(Event)
      /\ Len(Recorded(r, p, "ascii")) <= EventBound
      /\ Chained(Recorded(r, p, "ascii")) /\ Grown(r, Recorded(r, p, "ascii"))
  BY <1>1, <1>2, RecordedGrows
<1>4. m = Recorded(r, p, "ascii")
  BY DEF r
<1>5. QED
  BY <1>1, <1>3, <1>4 DEF Grown

\* What was reached stays reached while the chain and the receiver grow.
LEMMA ReachedStays ==
  ASSUME NEW l \in Seq(Event), NEW m \in Seq(Event), Grown(l, m), NEW s,
         NEW rec, NEW more, rec \subseteq more
  PROVE  /\ \A n : Reached(l, s, rec, n) => Reached(m, s, more, n)
         /\ \A k \in Keys : Batched(l, s, rec, k) => Batched(m, s, more, k)
<1>1. ASSUME NEW n, Reached(l, s, rec, n)
      PROVE  Reached(m, s, more, n)
  BY <1>1 DEF Reached, Grown
<1>2. QED
  BY <1>1 DEF Batched, Grown

-----------------------------------------------------------------------------
(* The steps                                                               *)

\* A step that only adds to the chain, to what was received and to the rows
\* keeps the invariant, if what it adds is sound.
LEMMA Keeps ==
  ASSUME Inv, AuditTypeOK', Chained(log'), Grown(log, log'), Unused', ScopeKept',
         sink'.scope = sink.scope, received \subseteq received',
         Reached(log', sink'.scope, received', sink'.cursor),
         \A k \in Keys :
           /\ deliveries'[k].status = "NONE" => deliveries[k].status = "NONE"
           /\ deliveries'[k].status # "NONE" =>
                \/ deliveries[k].status # "NONE"
                \/ Batched(log, sink.scope, received, k),
         \A d \in Drains :
           \/ drain'[d] = drain[d]
           \/ Follows(log', sink'.scope, received', deliveries', drain'[d])
  PROVE  Inv'
<1>1. log \in Seq(Event) /\ log' \in Seq(Event)
  BY DEF Inv, AuditTypeOK
<1>2. ASSUME NEW k \in Keys, deliveries'[k].status # "NONE"
      PROVE  Batched(log', sink'.scope, received', k)
  <2>1. Batched(log, sink.scope, received, k)
    BY <1>2 DEF Inv
  <2>2. QED
    BY <1>1, <2>1, ReachedStays
<1>3. ASSUME NEW d \in Drains
      PROVE  Follows(log', sink'.scope, received', deliveries', drain'[d])
  <2>1. CASE drain'[d] = drain[d]
    <3>1. drain[d].queue \subseteq Keys
      BY DEF Inv, AuditTypeOK, Drain
    <3>2. Follows(log, sink.scope, received, deliveries, drain[d])
      BY DEF Inv
    <3>3. Reached(log', sink'.scope, received', drain[d].cursor)
      BY <1>1, <3>2, ReachedStays DEF Follows
    <3>4. QED
      BY <2>1, <3>1, <3>2, <3>3 DEF Follows
  <2>2. QED
    BY <2>1
<1>4. QED
  BY <1>2, <1>3 DEF Inv

\* Growth of the chain alone keeps the scope of what was received.
LEMMA ScopeStays ==
  ASSUME Inv, log' \in Seq(Event), Grown(log, log'), sink'.scope = sink.scope,
         received' = received
  PROVE  /\ ScopeKept'
         /\ Reached(log', sink'.scope, received', sink.cursor)
<1>1. log \in Seq(Event)
  BY DEF Inv, AuditTypeOK
<1>2. Reached(log', sink'.scope, received', sink.cursor)
  BY <1>1, ReachedStays DEF Inv
<1>3. QED
  BY <1>1, <1>2 DEF Inv, ScopeKept, Grown, Matches

\* A row that changes and does not vanish keeps the invariant.
LEMMA OperatorKeeps ==
  ASSUME Inv, Continues(log, log'), received' = received, drain' = drain,
         sink' \in Sink, sink'.scope = sink.scope, sink'.cursor = sink.cursor,
         sink'.status = "NONE" => sink.status = "NONE",
         deliveries' \in [Keys -> Row],
         \A k \in Keys :
           deliveries'[k].status = "NONE" <=> deliveries[k].status = "NONE",
         pauses' \in Nat, drainCrashes' \in Nat
  PROVE  Inv'
<1>1. AuditTypeOK'
  BY DEF Inv, AuditTypeOK, Continues
<1>2. ScopeKept' /\ Reached(log', sink'.scope, received', sink'.cursor)
  BY ScopeStays DEF Continues
<1>3. Unused'
  BY DEF Inv, Unused
<1>4. QED
  BY <1>1, <1>2, <1>3, Keeps DEF Continues

\* Requests that are recorded.
LEMMA AuditStep ==
  ASSUME Inv, NEW p \in Scopes, Audit(p)
  PROVE  Inv'
<1>1. Continues(log, log')
  BY RecordedGrows DEF Inv, AuditTypeOK, Audit, Continues, Texts
<1>2. QED
  BY <1>1, OperatorKeeps DEF Inv, AuditTypeOK, Audit

\* The sink is paused and enabled.
LEMMA StatusSteps ==
  ASSUME Inv, Pause \/ Enable
  PROVE  Inv'
<1>1. sink \in Sink /\ sink.scope \in Scopes /\ "ascii" \in Texts
  BY DEF Inv, AuditTypeOK, Sink, Texts
<1>2. Continues(log, log')
  BY <1>1, RecordedTwice DEF Inv, AuditTypeOK, Pause, Enable, Continues
<1>3. /\ sink' \in Sink /\ sink'.scope = sink.scope
      /\ sink'.cursor = sink.cursor /\ sink'.status # "NONE"
  BY <1>1 DEF Pause, Enable, Sink
<1>4. pauses' \in Nat
  BY DEF Inv, AuditTypeOK, Pause, Enable
<1>5. QED
  BY <1>2, <1>3, <1>4, OperatorKeeps DEF Inv, AuditTypeOK, Pause, Enable

\* A dead letter is retried, and a backoff ends.
LEMMA RowSteps ==
  ASSUME Inv, NEW k \in Keys, RetryDeadLetter(k) \/ DeliveryDue(k)
  PROVE  Inv'
<1>1. sink \in Sink /\ sink.scope \in Scopes /\ "ascii" \in Texts
  BY DEF Inv, AuditTypeOK, Sink, Texts
<1>2. Continues(log, log')
  BY <1>1, RecordedGrows
  DEF Inv, AuditTypeOK, RetryDeadLetter, DeliveryDue, Continues, Grown
<1>3. /\ deliveries' \in [Keys -> Row]
      /\ \A j \in Keys :
           deliveries'[j].status = "NONE" <=> deliveries[j].status = "NONE"
  <2>1. CASE RetryDeadLetter(k)
    <3> DEFINE new == [status |-> "RETRY", attempts |-> 0, due |-> "now"]
    <3>1. new \in Row /\ new.status # "NONE"
      BY DEF Row
    <3>2. deliveries' = [deliveries EXCEPT ![k] = new]
      BY <2>1 DEF RetryDeadLetter
    <3> HIDE DEF new
    <3>3. QED
      BY <2>1, <3>1, <3>2 DEF Inv, AuditTypeOK, RetryDeadLetter
  <2>2. CASE DeliveryDue(k)
    BY <2>2 DEF Inv, AuditTypeOK, DeliveryDue, Row
  <2>3. QED
    BY <2>1, <2>2
<1>4. QED
  BY <1>1, <1>2, <1>3, OperatorKeeps
  DEF Inv, AuditTypeOK, RetryDeadLetter, DeliveryDue

\* The first step of the delivery: nothing was received or read before.
LEMMA CreateSinkStep ==
  ASSUME Inv, NEW p \in Scopes, NEW t \in Texts, CreateSink(p, t)
  PROVE  Inv'
<1>1. Continues(log, log')
  BY RecordedTwice DEF Inv, AuditTypeOK, CreateSink, Continues
<1>2. /\ received' = {} /\ sink'.cursor = 0 /\ sink'.status = "ACTIVE"
      /\ \A k \in Keys : deliveries'[k].status = "NONE"
      /\ \A d \in Drains : drain'[d] = IdleDrain
  BY DEF Inv, Unused, CreateSink
<1>3. sink' \in Sink
  BY DEF CreateSink, Sink
<1>4. AuditTypeOK'
  BY <1>1, <1>3 DEF Inv, AuditTypeOK, CreateSink, Continues
<1>5. Reached(log', sink'.scope, received', 0)
  BY <1>1 DEF Reached, Continues
<1>6. Follows(log', sink'.scope, received', deliveries', IdleDrain)
  BY <1>5 DEF Follows, IdleDrain
<1>7. ScopeKept' /\ Unused' /\ Chained(log')
  BY <1>1, <1>2 DEF ScopeKept, Unused, Continues
<1>8. QED
  BY <1>2, <1>4, <1>5, <1>6, <1>7 DEF Inv

\* A step of a drain that leaves the sink and the receiver alone.
LEMMA DrainKeeps ==
  ASSUME Inv, Continues(log, log'), sink' = sink, received' = received,
         sink.status # "NONE", NEW d \in Drains, NEW e \in Drain,
         drain' = [drain EXCEPT ![d] = e],
         Follows(log', sink.scope, received, deliveries', e),
         deliveries' \in [Keys -> Row],
         \A k \in Keys :
           /\ deliveries'[k].status = "NONE" => deliveries[k].status = "NONE"
           /\ deliveries'[k].status # "NONE" =>
                \/ deliveries[k].status # "NONE"
                \/ Batched(log, sink.scope, received, k),
         pauses' = pauses, drainCrashes' \in Nat
  PROVE  Inv'
<1>1. AuditTypeOK'
  BY DEF Inv, AuditTypeOK, Continues
<1>2. ScopeKept' /\ Reached(log', sink'.scope, received', sink'.cursor)
  BY ScopeStays DEF Continues
<1>3. Unused'
  BY DEF Unused
<1>4. \A c \in Drains :
        \/ drain'[c] = drain[c]
        \/ Follows(log', sink'.scope, received', deliveries', drain'[c])
  BY DEF Inv, AuditTypeOK
<1>5. QED
  BY <1>1, <1>2, <1>3, <1>4, Keeps DEF Continues

\* A drain that works has a sink.
LEMMA WorkingSink ==
  ASSUME Inv, NEW d \in Drains, drain[d].pc # "idle"
  PROVE  sink.status # "NONE"
  BY DEF Inv, Unused, IdleDrain

\* A drain begins: it reads the cursor and the rows that are due.
LEMMA StartStep ==
  ASSUME Inv, NEW d \in Drains, Start(d)
  PROVE  Inv'
<1> DEFINE due == {k \in Keys : Due(k)}
           e == [IdleDrain EXCEPT !.pc = IF due = {} THEN "create" ELSE "send",
                                  !.queue = due, !.cursor = sink.cursor]
<1>1. sink \in Sink /\ sink.scope \in Scopes /\ "ascii" \in Texts
  BY DEF Inv, AuditTypeOK, Sink, Texts
<1>2. Continues(log, log')
  BY <1>1, RecordedGrows DEF Inv, AuditTypeOK, Start, Continues
<1>3. CASE drain' = drain
  BY <1>2, <1>3, OperatorKeeps DEF Inv, AuditTypeOK, Start
<1>4. CASE drain' = [drain EXCEPT ![d] = e]
  <2>1. e \in Drain
    <3>1. due \subseteq Keys /\ sink.cursor \in Nat
      BY <1>1 DEF Sink
    <3>2. QED
      BY <3>1 DEF Drain, IdleDrain, NoRow, Row
  <2>2. /\ e.cursor = sink.cursor /\ e.pc # "settle"
        /\ \A k \in e.queue : deliveries[k].status # "NONE"
    BY DEF IdleDrain, Due
  <2> HIDE DEF e, due
  <2>3. Reached(log', sink.scope, received, sink.cursor)
    BY <1>2, ScopeStays DEF Start, Continues
  <2>4. Follows(log', sink.scope, received, deliveries', e)
    BY <2>2, <2>3 DEF Follows, Start
  <2>5. QED
    BY <1>2, <1>4, <2>1, <2>4, DrainKeeps DEF Inv, AuditTypeOK, Start
<1>5. QED
  BY <1>3, <1>4 DEF Start

\* The chain and an idle drain, when nothing is added.
LEMMA Still ==
  ASSUME Inv
  PROVE  /\ Continues(log, log) /\ IdleDrain \in Drain
         /\ Follows(log, sink.scope, received, deliveries, IdleDrain)
<1>1. Continues(log, log)
  BY DEF Inv, AuditTypeOK, Continues, Grown
<1>2. IdleDrain \in Drain
  BY DEF IdleDrain, Drain, NoRow, Row
<1>3. Reached(log, sink.scope, received, 0)
  BY DEF Inv, AuditTypeOK, Reached
<1>4. QED
  BY <1>1, <1>2, <1>3 DEF Follows, IdleDrain

\* The next batch begins where the events end that the receiver has seen.
LEMMA NextBatched ==
  ASSUME Inv, NEW d \in Drains, NEW k \in Keys, NextBatch(d, k)
  PROVE  Batched(log, sink.scope, received, k)
<1>1. /\ log \in Seq(Event) /\ Len(log) \in Nat
      /\ drain[d].cursor \in 0 .. Len(log)
      /\ \A i \in 1 .. drain[d].cursor :
           (sink.scope = None \/ log[i].project = sink.scope) => i \in received
  BY DEF Inv, AuditTypeOK, Follows, Reached
<1>2. k[1] \in 1 .. Len(log) /\ k[2] \in 1 .. Len(log)
  BY <1>1 DEF NextBatch, Beyond
<1>3. ASSUME NEW i \in 1 .. k[1] - 1,
             sink.scope = None \/ log[i].project = sink.scope
      PROVE  i \in received
  <2>1. i \in 1 .. Len(log) /\ i < k[1] /\ i \in Nat
    BY <1>1, <1>2
  <2>2. i \notin Beyond(d)
    BY <1>1, <1>2, <2>1 DEF NextBatch
  <2>3. i <= drain[d].cursor
    BY <1>1, <1>3, <2>1, <2>2 DEF Beyond, Matches
  <2>4. QED
    BY <1>1, <1>3, <2>1, <2>3
<1>4. QED
  BY <1>1, <1>2, <1>3 DEF Batched, Reached

\* A drain adds the next batch, if there is one.
LEMMA CreateStep ==
  ASSUME Inv, NEW d \in Drains, Create(d)
  PROVE  Inv'
<1> DEFINE pending == {k \in Keys : deliveries'[k].status = "PENDING"}
           e == IF pending = {} THEN IdleDrain
                ELSE [drain[d] EXCEPT !.pc = "send", !.queue = pending]
<1>1. sink.status # "NONE"
  BY WorkingSink DEF Create
<1>2. NewRow \in Row /\ NewRow.status # "NONE"
  BY DEF NewRow, Row
<1>3. /\ deliveries' \in [Keys -> Row]
      /\ \A k \in Keys :
           /\ deliveries'[k].status = "NONE" => deliveries[k].status = "NONE"
           /\ deliveries'[k].status # "NONE" =>
                \/ deliveries[k].status # "NONE"
                \/ Batched(log, sink.scope, received, k)
  <2>1. CASE deliveries' = deliveries
    BY <2>1 DEF Inv, AuditTypeOK
  <2>2. ASSUME NEW k \in Keys, NextBatch(d, k),
               deliveries' = [deliveries EXCEPT ![k] = NewRow]
        PROVE  /\ deliveries' \in [Keys -> Row]
               /\ \A j \in Keys :
                    /\ deliveries'[j].status = "NONE"
                         => deliveries[j].status = "NONE"
                    /\ deliveries'[j].status # "NONE" =>
                         \/ deliveries[j].status # "NONE"
                         \/ Batched(log, sink.scope, received, j)
    <3>1. Batched(log, sink.scope, received, k)
      BY <2>2, NextBatched
    <3>2. QED
      BY <1>2, <2>2, <3>1 DEF Inv, AuditTypeOK
  <2>3. QED
    BY <2>1, <2>2 DEF Create
<1>4. drain[d] \in Drain /\ Reached(log, sink.scope, received, drain[d].cursor)
  BY DEF Inv, AuditTypeOK, Follows
<1>5. e \in Drain /\ Follows(log, sink.scope, received, deliveries', e)
  <2>1. CASE pending = {}
    BY <2>1, Still DEF Follows, IdleDrain
  <2>2. CASE pending # {}
    BY <1>4, <2>2 DEF Follows, Drain
  <2>3. QED
    BY <2>1, <2>2
<1>6. drain' = [drain EXCEPT ![d] = e]
  BY DEF Create, Inv, AuditTypeOK
<1> HIDE DEF e
<1>7. QED
  BY <1>1, <1>3, <1>5, <1>6, Still, DrainKeeps DEF Inv, AuditTypeOK, Create

\* What is left of a drain after one delivery is sound.
LEMMA DequeuedFollows ==
  ASSUME Inv, NEW d \in Drains, NEW k \in Keys, NEW rows,
         \A j \in Keys : rows[j].status = "NONE" => deliveries[j].status = "NONE"
  PROVE  /\ Dequeued(d, k) \in Drain
         /\ Follows(log, sink.scope, received, rows, Dequeued(d, k))
<1> DEFINE e == [IdleDrain EXCEPT !.pc = "send", !.queue = drain[d].queue \ {k}]
<1>1. /\ drain[d].queue \subseteq Keys
      /\ \A j \in drain[d].queue : deliveries[j].status # "NONE"
  BY DEF Inv, AuditTypeOK, Drain, Follows
<1>2. /\ IdleDrain \in Drain /\ Reached(log, sink.scope, received, 0)
      /\ Follows(log, sink.scope, received, rows, IdleDrain)
  BY Still DEF Follows, IdleDrain
<1>3. e \in Drain /\ Follows(log, sink.scope, received, rows, e)
  <2>1. e \in Drain
    BY <1>1 DEF Drain, IdleDrain, NoRow, Row
  <2>2. e.cursor = 0 /\ e.pc = "send" /\ e.queue \subseteq drain[d].queue
    BY DEF IdleDrain
  <2> HIDE DEF e
  <2>3. QED
    BY <1>1, <1>2, <2>1, <2>2 DEF Follows
<1>4. QED
  BY <1>2, <1>3 DEF Dequeued

\* A batch that does not compare is given up.
LEMMA RejectStep ==
  ASSUME Inv, NEW d \in Drains, NEW k \in Keys, Reject(d, k)
  PROVE  Inv'
<1>1. sink.status # "NONE"
  BY WorkingSink DEF Reject
<1>2. /\ deliveries' \in [Keys -> Row]
      /\ deliveries[k].status # "NONE"
      /\ \A j \in Keys :
           deliveries'[j].status = "NONE" <=> deliveries[j].status = "NONE"
  BY DEF Inv, AuditTypeOK, Reject, Row, Follows
<1>3. /\ Dequeued(d, k) \in Drain
      /\ Follows(log, sink.scope, received, deliveries', Dequeued(d, k))
  BY <1>2, DequeuedFollows
<1>4. QED
  BY <1>1, <1>2, <1>3, Still, DrainKeeps DEF Inv, AuditTypeOK, Reject

\* A drain that is cut off forgets what it read.
LEMMA CrashStep ==
  ASSUME Inv, NEW d \in Drains, DrainCrash(d)
  PROVE  Inv'
<1>1. sink.status # "NONE"
  BY WorkingSink DEF DrainCrash
<1>2. drainCrashes' \in Nat
  BY DEF Inv, AuditTypeOK, DrainCrash
<1>3. QED
  BY <1>1, <1>2, Still, DrainKeeps DEF Inv, AuditTypeOK, DrainCrash

\* A batch is posted: what arrives lies in the chain and in the scope.
LEMMA SendStep ==
  ASSUME Inv, NEW d \in Drains, NEW k \in Keys, NEW arrives \in {"no", "yes"},
         NEW answer \in {"no", "yes"}, Send(d, k, arrives, answer)
  PROVE  Inv'
<1> DEFINE e == [drain[d] EXCEPT !.pc = "settle", !.key = k,
                   !.row = deliveries[k], !.cursor = sink.cursor, !.got = answer]
<1>1. sink.status # "NONE"
  BY WorkingSink DEF Send
<1>2. /\ drain[d] \in Drain /\ sink.cursor \in Nat /\ deliveries[k] \in Row
      /\ log \in Seq(Event) /\ EventBound \in Nat
  BY DeliveryAssumption DEF Inv, AuditTypeOK, Sink
<1>3. e \in Drain
  BY <1>2 DEF Drain
<1>4. /\ e.pc = "settle" /\ e.key = k /\ e.cursor = sink.cursor
      /\ e.got = answer /\ e.queue = drain[d].queue
  BY <1>2 DEF Drain
<1>5. drain' = [drain EXCEPT ![d] = e]
  BY DEF Send, Inv, AuditTypeOK
<1> HIDE DEF e
<1>6. /\ k \in drain[d].queue /\ Follows(log, sink.scope, received, deliveries, drain[d])
      /\ Intact(k)
  BY DEF Inv, Send
<1>7. deliveries[k].status # "NONE" /\ Batched(log, sink.scope, received, k)
  BY <1>6 DEF Inv, Follows
<1>8. \A i \in k[1] .. k[2] :
        i \in 1 .. Len(log) /\ i \in Sequence /\ Matches(i, sink.scope)
  BY <1>2, <1>6, <1>7 DEF Batched, Intact, Inv, AuditTypeOK, Sequence
<1>9. /\ received \subseteq received' /\ received' \subseteq Sequence
      /\ answer = "yes" => \A i \in k[1] .. k[2] : i \in received'
  BY <1>8 DEF Send, Inv, AuditTypeOK
<1>10. ScopeKept'
  BY <1>2, <1>8 DEF Send, Inv, ScopeKept, Matches
<1>11. /\ Grown(log, log) /\ Chained(log')
       /\ Reached(log', sink'.scope, received', sink'.cursor)
  <2>1. Grown(log, log)
    BY <1>2 DEF Grown
  <2>2. Reached(log, sink.scope, received, sink.cursor) /\ Chained(log)
    BY DEF Inv
  <2>3. Reached(log, sink.scope, received', sink.cursor)
    BY <1>2, <1>9, <2>1, <2>2, ReachedStays
  <2>4. QED
    BY <2>1, <2>2, <2>3 DEF Send
<1>12. Follows(log', sink'.scope, received', deliveries', e)
  BY <1>4, <1>6, <1>7, <1>9, <1>11 DEF Follows, Send
<1>13. AuditTypeOK'
  BY <1>3, <1>5, <1>9 DEF Inv, AuditTypeOK, Send
<1>14. \A c \in Drains :
         \/ drain'[c] = drain[c]
         \/ Follows(log', sink'.scope, received', deliveries', drain'[c])
  BY <1>5, <1>12 DEF Inv, AuditTypeOK
<1>15. Unused'
  BY <1>1 DEF Unused, Send
<1>16. QED
  BY <1>9, <1>10, <1>11, <1>13, <1>14, <1>15, Keeps DEF Send

\* The outcome is written: the cursor moves to the end of a batch all of whose
\* events, and all events before it, were received.
LEMMA SettleStep ==
  ASSUME Inv, NEW d \in Drains, Settle(d)
  PROVE  Inv'
<1> DEFINE k    == drain[d].key
           row  == drain[d].row
           new  == Settled(row, drain[d].got)
           rest == Dequeued(d, k)
           put  == [status   |-> IF new.status = row.status
                                 THEN deliveries[k].status ELSE new.status,
                    attempts |-> new.attempts,
                    due      |-> new.due]
<1>1. sink.status # "NONE"
  BY WorkingSink DEF Settle
<1>2. /\ k \in Keys /\ deliveries[k].status # "NONE" /\ deliveries[k] \in Row
      /\ drain[d].got = "yes" => \A i \in k[1] .. k[2] : i \in received
      /\ drain[d] \in Drain /\ row \in Row /\ sink \in Sink
      /\ log \in Seq(Event)
  BY DEF Inv, AuditTypeOK, Follows, Settle, Drain
<1>3. new \in Row /\ new.status # "NONE"
  <2> DEFINE attempts == IF row.attempts < MaxDeliveries THEN row.attempts + 1
                         ELSE MaxDeliveries
  <2>1. attempts \in Nat
    BY <1>2, DeliveryAssumption DEF Row
  <2>2. /\ new = [status |-> IF drain[d].got = "yes" THEN "DELIVERED"
                             ELSE IF attempts >= MaxDeliveries
                                  THEN "DEAD_LETTER" ELSE "RETRY",
                  attempts |-> attempts, due |-> "later"]
    BY DEF Settled
  <2> HIDE DEF attempts, new
  <2>3. QED
    BY <2>1, <2>2 DEF Row
<1>4. /\ deliveries' = [deliveries EXCEPT ![k] = put]
      /\ sink' = [sink EXCEPT !.cursor = Advanced(d)]
      /\ drain' = [drain EXCEPT ![d] = rest]
      /\ UNCHANGED <<log, received, pauses, drainCrashes>>
  BY DEF Settle
<1> HIDE DEF new
<1>5. put \in Row /\ put.status # "NONE"
  BY <1>2, <1>3 DEF Row
<1> HIDE DEF put
<1>6. /\ deliveries' \in [Keys -> Row]
      /\ \A j \in Keys :
           deliveries'[j].status = "NONE" <=> deliveries[j].status = "NONE"
  BY <1>2, <1>4, <1>5 DEF Inv, AuditTypeOK
<1>7. Batched(log, sink.scope, received, k)
  BY <1>2 DEF Inv
<1>8. Reached(log, sink.scope, received, Advanced(d))
  <2>1. CASE drain[d].got = "yes" /\ drain[d].key[2] > drain[d].cursor
    <3>1. k[1] \in 1 .. Len(log) /\ k[2] \in 1 .. Len(log) /\ Len(log) \in Nat
      BY <1>2, <1>7 DEF Batched
    <3>2. ASSUME NEW i \in 1 .. k[2],
                 sink.scope = None \/ log[i].project = sink.scope
          PROVE  i \in received
      <4>1. i \in 1 .. k[1] - 1 \/ i \in k[1] .. k[2]
        BY <3>1
      <4>2. QED
        BY <1>2, <1>7, <2>1, <3>2, <4>1 DEF Batched, Reached
    <3>3. QED
      BY <2>1, <3>1, <3>2 DEF Reached, Advanced
  <2>2. QED
    BY <2>1 DEF Advanced, Inv
<1>9. /\ sink' \in Sink /\ sink'.scope = sink.scope
      /\ sink'.cursor = Advanced(d) /\ sink'.status # "NONE"
  <2>1. Advanced(d) \in Nat
    BY <1>2, <1>8 DEF Reached
  <2>2. QED
    BY <1>1, <1>2, <1>4, <2>1 DEF Sink
<1>10. rest \in Drain /\ Follows(log, sink.scope, received, deliveries', rest)
  BY <1>2, <1>6, DequeuedFollows
<1> HIDE DEF rest, k
<1>11. AuditTypeOK' /\ Unused' /\ ScopeKept'
  BY <1>4, <1>6, <1>9, <1>10 DEF Inv, AuditTypeOK, Unused, ScopeKept, Matches
<1>12. \A c \in Drains :
         \/ drain'[c] = drain[c]
         \/ Follows(log', sink'.scope, received', deliveries', drain'[c])
  BY <1>4, <1>9, <1>10 DEF Inv, AuditTypeOK
<1>13. Continues(log, log)
  BY Still
<1>14. QED
  BY <1>4, <1>6, <1>8, <1>9, <1>11, <1>12, <1>13, Keeps DEF Continues

-----------------------------------------------------------------------------
(* The theorems                                                            *)

\* The invariant holds before anything was recorded.
LEMMA InitInv == AuditInit => Inv
<1> SUFFICES ASSUME AuditInit PROVE Inv
  OBVIOUS
<1>1. AuditTypeOK
  <2>1. sink \in Sink
    BY DEF AuditInit, Sink, Scopes
  <2>2. NoRow \in Row
    BY DEF NoRow, Row
  <2>3. IdleDrain \in Drain
    BY <2>2 DEF IdleDrain, Drain
  <2>4. log \in Seq(Event) /\ Len(log) <= EventBound
    BY DeliveryAssumption DEF AuditInit
  <2>5. QED
    BY <2>1, <2>2, <2>3, <2>4 DEF AuditInit, AuditTypeOK
<1>2. Unused /\ ScopeKept
  BY DEF AuditInit, Unused, ScopeKept, NoRow
<1>3. Chained(log)
  BY DEF AuditInit, Chained
<1>4. Reached(log, sink.scope, received, 0)
  BY DEF AuditInit, Reached
<1>5. QED
  BY <1>1, <1>2, <1>3, <1>4 DEF Inv, AuditInit, Follows, IdleDrain, NoRow

\* Every step keeps the invariant.
THEOREM DeliveryInvariant == AuditSpec => []Inv
<1>1. Inv /\ [AuditNext]_auditVars => Inv'
  <2> SUFFICES ASSUME Inv, [AuditNext]_auditVars
               PROVE  Inv'
    OBVIOUS
  <2>1. CASE UNCHANGED auditVars
    BY <2>1 DEF auditVars, Inv, AuditTypeOK, Unused, ScopeKept, Matches
  <2>2. ASSUME NEW p \in Scopes, Audit(p)
        PROVE  Inv'
    BY <2>2, AuditStep
  <2>3. ASSUME NEW p \in Scopes, NEW t \in Texts, CreateSink(p, t)
        PROVE  Inv'
    BY <2>3, CreateSinkStep
  <2>4. CASE Pause \/ Enable
    BY <2>4, StatusSteps
  <2>5. ASSUME NEW k \in Keys, RetryDeadLetter(k) \/ DeliveryDue(k)
        PROVE  Inv'
    BY <2>5, RowSteps
  <2>6. ASSUME NEW d \in Drains, DrainStep(d) \/ DrainCrash(d)
        PROVE  Inv'
    <3>1. ASSUME NEW k \in Keys, Reject(d, k) \/ Post(d, k)
          PROVE  Inv'
      BY <3>1, RejectStep, SendStep DEF Post
    <3>2. QED
      BY <2>6, <3>1, StartStep, CreateStep, SettleStep, CrashStep DEF DrainStep
  <2>7. QED
    BY <2>1, <2>2, <2>3, <2>4, <2>5, <2>6 DEF AuditNext
<1>2. QED
  BY InitInv, <1>1, PTL DEF AuditSpec

\* The rows of the audit trail, of the sink and of its deliveries, and what the
\* drains hold in memory, are well formed in every reachable state.
THEOREM DeliveryTyped == AuditSpec => []AuditTypeOK
<1>1. Inv => AuditTypeOK
  BY DEF Inv
<1>2. QED
  BY DeliveryInvariant, <1>1, PTL

\* _deliver never moves cursor_sequence past an event that the receiver has not
\* seen, however many drains run at once and wherever they are cut off.
THEOREM CursorSafe == AuditSpec => []NothingSkipped
<1>1. Inv => NothingSkipped
  BY DEF Inv, AuditTypeOK, NothingSkipped, Reached, Matches
<1>2. QED
  BY DeliveryInvariant, <1>1, PTL

\* The comparison of the checksum in _deliver keeps events of other projects
\* from the sink of a project.
THEOREM ScopedDelivery == AuditSpec => []ScopeKept
<1>1. Inv => ScopeKept
  BY DEF Inv
<1>2. QED
  BY DeliveryInvariant, <1>1, PTL

\* verify accepts exactly the exports of record's chain whose text is ASCII.
THEOREM AsciiExports == AuditSpec => []ExportsVerify
<1>1. ASSUME Inv, NEW scope \in Scopes, NEW first \in Sequence, NEW last \in Sequence
      PROVE  LET events == Exported(scope, first, last)
             IN  Verifies(events) <=> \A i \in events : log[i].text = "ascii"
  <2> DEFINE events == Exported(scope, first, last)
  <2>1. log \in Seq(Event) /\ Chained(log) /\ Len(log) \in Nat
    BY <1>1 DEF Inv, AuditTypeOK
  <2>2. ASSUME NEW i \in events
        PROVE  /\ i \in 1 .. Len(log) /\ log[i].text \in Texts
               /\ log[i].hash = [seq |-> i, bytes |-> Escaped(log[i].text)]
               /\ i > 1 => log[i].prev = log[i - 1].hash
    <3>1. i \in 1 .. Len(log)
      BY <2>1 DEF Exported
    <3>2. log[i] \in Event
      BY <2>1, <3>1
    <3>3. QED
      BY <2>1, <3>1, <3>2 DEF Chained, Event
  <2> HIDE DEF events
  <2>3. Linked(events)
    <3> SUFFICES ASSUME NEW i \in events, NEW j \in events, j = i + 1
                 PROVE  log[j].prev = log[i].hash
      BY DEF Linked
    <3>1. j > 1 => log[j].prev = log[j - 1].hash
      BY <2>2
    <3>2. i \in 1 .. Len(log)
      BY <2>2
    <3>3. j > 1 /\ j - 1 = i
      BY <2>1, <3>2
    <3>4. QED
      BY <3>1, <3>2, <3>3
  <2>4. ASSUME NEW i \in events
        PROVE  (log[i].hash = [seq |-> i, bytes |-> Unescaped(log[i].text)])
                 <=> log[i].text = "ascii"
    <3> DEFINE t == log[i].text
    <3>1. /\ t \in Texts
          /\ log[i].hash = [seq |-> i, bytes |-> Escaped(t)]
      BY <2>2
    <3>2. CASE t = "ascii"
      BY <3>1, <3>2 DEF Escaped, Unescaped
    <3>3. CASE t = "other"
      <4>1. log[i].hash.bytes = "escaped"
        BY <3>1, <3>3 DEF Escaped
      <4>2. [seq |-> i, bytes |-> Unescaped(t)].bytes = "raw"
        BY <3>3 DEF Unescaped
      <4>3. QED
        BY <3>3, <4>1, <4>2
    <3>4. QED
      BY <3>1, <3>2, <3>3 DEF Texts
  <2>5. QED
    BY <2>3, <2>4 DEF Verifies, Rehashed, events
<1>2. Inv => ExportsVerify
  BY <1>1 DEF ExportsVerify
<1>3. QED
  BY DeliveryInvariant, <1>2, PTL
=============================================================================

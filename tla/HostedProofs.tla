------------------------------ MODULE HostedProofs ------------------------------
(***************************************************************************)
(* Proofs about HostedLedger, for any number of appends at the same time    *)
(* and any number of events: a write-ahead event is at the server when its  *)
(* append returns, the server gets the events in the local order, and a     *)
(* ledger that is closed says what it could not send.                       *)
(***************************************************************************)
EXTENDS HostedLedger, SequenceTheorems, TLAPS

-----------------------------------------------------------------------------
(* The inductive invariant.  What is not at the server yet is one stretch of  *)
(* the local log, the batch and then the buffer; the flush has reached a      *)
(* place of it that is at most one after what the server has.                 *)

\* From the event after first on: the batch, then the buffer, up to the last one;
\* the server has the first n, and the flush is at place a of the batch.
Stretch(last, buffer, taken, a, n) ==
  LET first == last - Len(buffer) - Len(taken)
  IN  /\ first >= 0
      /\ \A i \in 1 .. Len(taken) : taken[i] = first + i
      /\ \A i \in 1 .. Len(buffer) : buffer[i] = first + Len(taken) + i
      /\ IF Len(taken) = 0 THEN first <= n ELSE a >= 1 /\ first + a <= n + 1

\* The server has the first n events.
Reached(n) ==
  /\ received = 1 .. n /\ n <= Last
  /\ Running => Stretch(Last, pending, batch, at, n)

Links(link, bound) ==
  /\ link.prev <= bound
  /\ link.seq = IF link.prev = 0 THEN 1 ELSE log[link.prev].seq + 1

Chained ==
  /\ \A i \in 1 .. Last : log[i].seq <= i /\ Links(log[i], i - 1)
  /\ \A w \in Writer :
       /\ writer[w].pc \in {"headed", "chained"} => Links(writer[w], Last)
       /\ writer[w].pc = "waiting" => writer[w].event \in 1 .. Last

Stored ==
  /\ \A i \in received : server[log[i].seq] # 0
  /\ \A n \in Event : server[n] # 0 =>
       server[n] \in received /\ log[server[n]].seq = n

HInv ==
  /\ TypeOK /\ Chained /\ Stored
  /\ \E n \in Nat : Reached(n)
  /\ safe \subseteq received

\* The types in the form the steps use.
LEMMA Types ==
  ASSUME TypeOK
  PROVE  /\ Last \in Nat /\ Last <= MaxEvents /\ DOMAIN log = 1 .. Last
         /\ \A i \in 1 .. Last :
              log[i].seq \in Event /\ log[i].prev \in Event \cup {0}
         /\ Len(pending) \in Nat /\ DOMAIN pending = 1 .. Len(pending)
         /\ Len(batch) \in Nat /\ DOMAIN batch = 1 .. Len(batch)
         /\ \A i \in 1 .. Len(batch) : batch[i] \in Event
         /\ at \in Nat /\ at <= Len(batch)
         /\ (batch = <<>>) <=> (Len(batch) = 0)
<1> DEFINE Link == [seq : Event, prev : Event \cup {0}]
<1>1. log \in Seq(Link) /\ pending \in Seq(Event) /\ batch \in Seq(Event)
  BY DEF TypeOK
<1>2. \A i \in 1 .. Len(log) : log[i] \in Link
  BY <1>1, ElementOfSeq
<1>3. QED
  BY <1>1, <1>2, EmptySeq DEF TypeOK, Last

LEMMA Back ==
  ASSUME NEW k \in Nat, NEW p \in Nat, NEW i \in Nat, NEW q, p # 0 => q \in Nat,
         p <= i - 1, k > 1, k = IF p = 0 THEN 1 ELSE q + 1
  PROVE  p \in 1 .. i - 1 /\ q = k - 1
OBVIOUS

\* The predecessor of an event that is not the first.
LEMMA Predecessor ==
  ASSUME TypeOK, Chained, NEW i \in 1 .. Last, log[i].seq > 1
  PROVE  /\ log[i].prev \in 1 .. i - 1 /\ log[i].prev \in 1 .. Last
         /\ log[log[i].prev].seq = log[i].seq - 1
<1> USE HostedAssumption
<1>1. Links(log[i], i - 1)
  BY DEF Chained
<1>2. log[i].seq \in Nat /\ log[i].prev \in Nat /\ i \in Nat /\ Last \in Nat
  BY Types DEF Event
<1>3. log[i].prev <= i - 1
      /\ log[i].seq = IF log[i].prev = 0 THEN 1 ELSE log[log[i].prev].seq + 1
  BY <1>1 DEF Links
<1>4. log[i].prev # 0 => log[i].prev \in 1 .. Last
  BY <1>2, <1>3
<1>5. log[i].prev # 0 => log[log[i].prev].seq \in Nat
  BY <1>4, Types DEF Event
<1>6. QED
  BY <1>2, <1>3, <1>4, <1>5, Back

\* What the server has not got is in the batch or in the buffer.
LEMMA NotSent ==
  ASSUME NEW last \in Nat, NEW buffer \in Seq(Event), NEW taken \in Seq(Event),
         NEW a \in Nat, a <= Len(taken), NEW n \in Nat,
         Stretch(last, buffer, taken, a, n),
         NEW k \in 1 .. last, k \notin 1 .. n
  PROVE  k \in Elements(buffer) \cup Elements(taken)
<1> DEFINE first == last - Len(buffer) - Len(taken)
<1>1. /\ first \in Nat /\ Len(buffer) \in Nat /\ Len(taken) \in Nat
      /\ DOMAIN buffer = 1 .. Len(buffer) /\ DOMAIN taken = 1 .. Len(taken)
  BY DEF Stretch
<1>2. k > first
  BY <1>1 DEF Stretch
<1>3. CASE k <= first + Len(taken)
  <2>1. k - first \in 1 .. Len(taken) /\ taken[k - first] = k
    BY <1>1, <1>2, <1>3 DEF Stretch
  <2>2. QED
    BY <1>1, <2>1 DEF Elements
<1>4. CASE k > first + Len(taken)
  <2> DEFINE j == k - first - Len(taken)
  <2>1. j \in 1 .. Len(buffer)
    BY <1>1, <1>4
  <2>2. buffer[j] = k
    BY <1>1, <2>1 DEF Stretch
  <2>3. QED
    BY <1>1, <2>1, <2>2 DEF Elements
<1>5. QED
  BY <1>1, <1>3, <1>4

\* A flush takes the whole buffer.
LEMMA Taken ==
  ASSUME NEW last \in Nat, NEW buffer \in Seq(Event), buffer # <<>>, NEW a, NEW n \in Nat,
         Stretch(last, buffer, <<>>, a, n)
  PROVE  Stretch(last, <<>>, buffer, 1, n)
BY DEF Stretch

\* An event is appended.
LEMMA Appended ==
  ASSUME NEW last \in Nat, last + 1 \in Event, NEW buffer \in Seq(Event),
         NEW taken \in Seq(Event), NEW a \in Nat, NEW n \in Nat,
         Stretch(last, buffer, taken, a, n)
  PROVE  Stretch(last + 1, Append(buffer, last + 1), taken, a, n)
<1> DEFINE more == Append(buffer, last + 1)
<1>1. /\ Len(more) = Len(buffer) + 1
      /\ \A i \in 1 .. Len(buffer) : more[i] = buffer[i]
      /\ more[Len(buffer) + 1] = last + 1
      /\ Len(buffer) \in Nat /\ Len(taken) \in Nat
  OBVIOUS
<1>2. \A i \in 1 .. Len(more) : i \in 1 .. Len(buffer) \/ i = Len(buffer) + 1
  BY <1>1
<1>3. \A i \in 1 .. Len(more) :
        more[i] = last - Len(buffer) - Len(taken) + Len(taken) + i
  <2> TAKE i \in 1 .. Len(more)
  <2>1. CASE i \in 1 .. Len(buffer)
    BY <1>1, <2>1 DEF Stretch
  <2>2. CASE i = Len(buffer) + 1
    BY <1>1, <2>2
  <2>3. QED
    BY <1>2, <2>1, <2>2
<1> HIDE DEF more
<1>4. QED
  BY <1>1, <1>3 DEF Stretch

\* The batch goes back to the front of the buffer.
LEMMA PutBack ==
  ASSUME NEW last \in Nat, NEW buffer \in Seq(Event), NEW taken \in Seq(Event),
         taken # <<>>, NEW a \in Nat, NEW n \in Nat, Stretch(last, buffer, taken, a, n)
  PROVE  Stretch(last, taken \o buffer, <<>>, 0, n)
<1> DEFINE both == taken \o buffer
<1>1. /\ Len(both) = Len(taken) + Len(buffer)
      /\ \A i \in 1 .. Len(taken) : both[i] = taken[i]
      /\ \A i \in 1 .. Len(buffer) : both[Len(taken) + i] = buffer[i]
      /\ Len(buffer) \in Nat /\ Len(taken) \in Nat /\ Len(taken) # 0
  OBVIOUS
<1>2. \A i \in 1 .. Len(both) :
        i \in 1 .. Len(taken) \/ i - Len(taken) \in 1 .. Len(buffer)
  BY <1>1
<1>3. \A i \in 1 .. Len(both) : both[i] = last - Len(both) + i
  <2> TAKE i \in 1 .. Len(both)
  <2>1. CASE i \in 1 .. Len(taken)
    BY <1>1, <2>1 DEF Stretch
  <2>2. CASE i - Len(taken) \in 1 .. Len(buffer)
    <3> DEFINE j == i - Len(taken)
    <3>0. j \in 1 .. Len(buffer) /\ Len(taken) + j = i
      BY <1>1, <2>2
    <3>1. both[Len(taken) + j] = buffer[j]
      BY <1>1, <3>0
    <3>2. buffer[j] = last - Len(buffer) - Len(taken) + Len(taken) + j
      BY <1>1, <2>2 DEF Stretch
    <3>3. QED
      BY <1>1, <3>0, <3>1, <3>2
  <2>3. QED
    BY <1>2, <2>1, <2>2
<1> HIDE DEF both
<1>4. QED
  BY <1>1, <1>3 DEF Stretch

\* The event at place a of the batch has reached the server.
LEMMA OneMore ==
  ASSUME NEW last \in Nat, NEW buffer \in Seq(Event), NEW taken \in Seq(Event),
         NEW a \in Nat, a <= Len(taken), taken # <<>>, NEW n \in Nat, n <= last,
         Stretch(last, buffer, taken, a, n)
  PROVE  \E m \in Nat :
           /\ (1 .. n) \cup {taken[a]} = 1 .. m /\ n <= m /\ m <= last
           /\ Stretch(last, buffer, taken, a, m)
           /\ a < Len(taken) => Stretch(last, buffer, taken, a + 1, m)
           /\ a = Len(taken) /\ buffer # <<>> => Stretch(last, <<>>, buffer, 1, m)
           /\ a = Len(taken) /\ buffer = <<>> => m = last
<1> DEFINE first == last - Len(buffer) - Len(taken)
           m == IF first + a > n THEN first + a ELSE n
<1>1. /\ first \in Nat /\ Len(buffer) \in Nat /\ Len(taken) \in Nat /\ Len(taken) # 0
      /\ a >= 1 /\ first + a <= n + 1 /\ taken[a] = first + a
  BY DEF Stretch
<1>2. m \in Nat /\ n <= m /\ m <= last /\ first + a <= m
  BY <1>1
<1>3. (1 .. n) \cup {taken[a]} = 1 .. m
  BY <1>1
<1>4. Stretch(last, buffer, taken, a, m)
      /\ (a < Len(taken) => Stretch(last, buffer, taken, a + 1, m))
  BY <1>1, <1>2 DEF Stretch
<1>5. a = Len(taken) /\ buffer # <<>> => Stretch(last, <<>>, buffer, 1, m)
  BY <1>1, <1>2 DEF Stretch
<1>6. a = Len(taken) /\ buffer = <<>> => m = last
  BY <1>1, <1>2
<1>7. QED
  BY <1>2, <1>3, <1>4, <1>5, <1>6

LEMMA HInvImplies == HInv => SentInOrder /\ WriteAheadIsRemote
<1> SUFFICES ASSUME HInv PROVE SentInOrder /\ WriteAheadIsRemote
  OBVIOUS
<1> USE HostedAssumption
<1>1. PICK n \in Nat : Reached(n)
  BY DEF HInv
<1>2. TypeOK
  BY DEF HInv
<1>3. n \in 0 .. MaxEvents /\ received = 1 .. n
  BY <1>1, <1>2, Types DEF Reached
<1>4. ASSUME Running, NEW k \in 1 .. Last, k \notin received
      PROVE  k \in Elements(pending) \cup Elements(batch)
  BY <1>1, <1>2, <1>3, <1>4, Types, NotSent DEF Reached, TypeOK
<1>5. ASSUME NoFork, NEW k \in Event, server[k] # 0
      PROVE  /\ server[k] \in 1 .. Last /\ log[server[k]].seq = k
             /\ k > 1 => server[k - 1] = log[server[k]].prev /\ server[k - 1] # 0
  <2> DEFINE i == server[k]
             p == log[i].prev
  <2>1. i \in 1 .. n /\ log[i].seq = k /\ i \in 1 .. Last
    BY <1>1, <1>2, Types, <1>3, <1>5 DEF HInv, Stored, Reached
  <2>3. ASSUME k > 1 PROVE server[k - 1] = p /\ server[k - 1] # 0
    <3>0. p \in 1 .. i - 1 /\ p \in 1 .. Last /\ log[p].seq = k - 1
      BY <1>2, <2>1, <2>3, Predecessor DEF HInv
    <3>1. p \in 1 .. n /\ p \in 1 .. Last /\ log[p].seq = k - 1
      BY <2>1, <3>0
    <3>2. server[k - 1] # 0
      BY <3>1, <1>3 DEF HInv, Stored
    <3>3. k - 1 \in Event
      BY <1>5, <2>3 DEF Event
    <3>4. server[k - 1] \in 1 .. Last /\ log[server[k - 1]].seq = k - 1
      BY <3>2, <3>3, <1>1, <1>2, Types, <1>3 DEF HInv, Stored, Reached
    <3>5. QED
      BY <3>1, <3>2, <3>4, <1>5 DEF NoFork
  <2>4. QED
    BY <2>1, <2>3
<1>6. safe \subseteq received
  BY DEF HInv
<1>7. QED
  BY <1>3, <1>4, <1>5, <1>6 DEF SentInOrder, WriteAheadIsRemote

LEMMA HInvInit == Init => HInv
<1> SUFFICES ASSUME Init PROVE HInv
  OBVIOUS
<1> USE HostedAssumption
<1>1. TypeOK
  <2>1. /\ log = <<>> /\ pending = <<>> /\ batch = <<>> /\ at = 0
        /\ writer \in [Writer ->
             [pc : {"idle", "headed", "chained", "waiting"}, wal : BOOLEAN,
              seq : 1 .. MaxEvents + 1, prev : Event \cup {0},
              prior : Event \cup {0}, event : Event \cup {0}]]
    BY DEF Init, Idle, Event
  <2>2. /\ <<>> \in Seq(Event)
        /\ <<>> \in Seq([seq : Event, prev : Event \cup {0}])
        /\ Len(<<>>) = 0
    OBVIOUS
  <2>3. server \in [Event -> Event \cup {0}] /\ 0 \in 0 .. 0 /\ 0 <= MaxEvents
    BY DEF Init
  <2>4. QED
    BY <2>1, <2>2, <2>3 DEF Init, TypeOK
<1>2. Chained /\ Stored
  BY DEF Init, Chained, Stored, Last, Idle
<1>3. Reached(0)
  BY DEF Init, Reached, Stretch, Last
<1>4. QED
  BY <1>1, <1>2, <1>3 DEF HInv, Init

-----------------------------------------------------------------------------
(* The steps. *)

WriterType ==
  [pc : {"idle", "headed", "chained", "waiting"}, wal : BOOLEAN,
   seq : 1 .. MaxEvents + 1, prev : Event \cup {0},
   prior : Event \cup {0}, event : Event \cup {0}]

\* What Chained says of the appends under way.
WriterOk(state) ==
  /\ state \in WriterType
  /\ state.pc \in {"headed", "chained"} => Links(state, Last)
  /\ state.pc = "waiting" => state.event \in 1 .. Last

LEMMA IdleOk == WriterOk(Idle)
BY HostedAssumption DEF WriterOk, WriterType, Idle, Event

LEMMA WritersOk == HInv => \A w \in Writer : WriterOk(writer[w])
BY DEF HInv, TypeOK, Chained, WriterOk, WriterType

\* Steps that change nothing but where an append is.
LEMMA WriterStep ==
  ASSUME HInv, writer' \in [Writer -> WriterType],
         \A w \in Writer : WriterOk(writer'[w]),
         UNCHANGED <<log, pending, batch, at, timer, status, warned, hasty, server,
                     received, safe>>
  PROVE  HInv'
<1>1. Last' = Last /\ (Running' <=> Running) /\ \A n \in Nat : Reached(n) => Reached(n)'
  BY DEF Last, Running, Reached
<1>2. TypeOK'
  BY DEF HInv, TypeOK, WriterType
<1>3. Chained'
  BY <1>1 DEF HInv, Chained, WriterOk, Links
<1>4. Stored'
  BY DEF HInv, Stored
<1>5. QED
  BY <1>1, <1>2, <1>3, <1>4 DEF HInv

LEMMA ReadHeadKeeps ==
  ASSUME HInv, NEW w \in Writer, NEW wal \in BOOLEAN, ReadHead(w, wal)
  PROVE  HInv'
<1> USE HostedAssumption
<1> DEFINE seq == IF Last = 0 THEN 1 ELSE log[Last].seq + 1
           state == [Idle EXCEPT !.pc = "headed", !.wal = wal, !.prev = Last, !.seq = seq]
<1>1. Last \in Nat /\ Last <= MaxEvents
      /\ (Last # 0 => log[Last].seq \in Event /\ log[Last].seq <= Last)
  BY Types DEF HInv, Chained
<1>2. seq \in 1 .. MaxEvents + 1 /\ Last \in Event \cup {0}
  BY <1>1 DEF Event
<1> HIDE DEF seq
<1>3. state.pc = "headed" /\ state.seq = seq /\ state.prev = Last
  BY DEF Idle
<1>4. state \in WriterType
  BY <1>2, IdleOk DEF WriterOk, WriterType
<1>5. Links(state, Last)
  BY <1>1, <1>3 DEF Links, seq
<1>6. WriterOk(state)
  BY <1>3, <1>4, <1>5 DEF WriterOk
<1>7. writer' = [writer EXCEPT ![w] = state]
  BY DEF ReadHead, seq
<1> HIDE DEF state
<1>8. writer' \in [Writer -> WriterType] /\ \A v \in Writer : WriterOk(writer'[v])
  BY <1>4, <1>6, <1>7, WritersOk DEF HInv, TypeOK, WriterType
<1>9. QED
  BY <1>8, WriterStep DEF ReadHead

LEMMA ReadPriorKeeps ==
  ASSUME HInv, NEW w \in Writer, ReadPrior(w)
  PROVE  HInv'
<1> DEFINE state == [writer[w] EXCEPT !.pc = "chained", !.prior = Last]
<1>1. Last \in Event \cup {0} /\ WriterOk(writer[w]) /\ writer[w].pc = "headed"
  BY Types, WritersOk, HostedAssumption DEF HInv, Event, ReadPrior
<1>2. state \in WriterType /\ state.pc = "chained"
      /\ state.seq = writer[w].seq /\ state.prev = writer[w].prev
  BY <1>1 DEF WriterOk, WriterType
<1>3. WriterOk(state)
  BY <1>1, <1>2 DEF WriterOk, Links
<1>4. writer' = [writer EXCEPT ![w] = state]
  BY DEF ReadPrior, HInv, TypeOK
<1> HIDE DEF state
<1>5. writer' \in [Writer -> WriterType] /\ \A v \in Writer : WriterOk(writer'[v])
  BY <1>2, <1>3, <1>4, WritersOk DEF HInv, TypeOK, WriterType
<1>6. QED
  BY <1>5, WriterStep DEF ReadPrior

LEMMA RefusedKeeps ==
  ASSUME HInv, NEW w \in Writer, Refused(w)
  PROVE  HInv'
<1>1. writer' \in [Writer -> WriterType] /\ \A v \in Writer : WriterOk(writer'[v])
  BY IdleOk, WritersOk DEF Refused, HInv, TypeOK, WriterType, WriterOk
<1>2. QED
  BY <1>1, WriterStep DEF Refused

\* flushPending of what is in the buffer.
LEMMA FlushKeeps ==
  ASSUME TypeOK, NEW last \in Nat, NEW queue \in Seq(Event), queue # <<>>, NEW n \in Nat,
         Stretch(last, queue, batch, at, n), Flush(queue)
  PROVE  /\ Stretch(last, pending', batch', at', n)
         /\ pending' \in Seq(Event) /\ batch' \in Seq(Event) /\ at' \in 0 .. Len(batch')
<1>1. CASE Flushing
  BY <1>1 DEF Flush, TypeOK
<1>2. CASE ~Flushing
  <2>1. pending' = <<>> /\ batch' = queue /\ at' = 1 /\ batch = <<>>
    BY <1>2 DEF Flush, Flushing, Rest
  <2>2. Stretch(last, <<>>, queue, 1, n)
    BY <2>1, Taken
  <2>3. Len(queue) \in Nat /\ Len(queue) >= 1 /\ <<>> \in Seq(Event)
    OBVIOUS
  <2>4. QED
    BY <2>1, <2>2, <2>3
<1>3. QED
  BY <1>1, <1>2

\* The buffer holds no more events than there are.
LEMMA BufferFits ==
  ASSUME NEW last \in Nat, last <= MaxEvents, NEW buffer \in Seq(Event),
         NEW taken \in Seq(Event), NEW a, NEW n, Stretch(last, buffer, taken, a, n)
  PROVE  Len(buffer) <= MaxEvents
BY HostedAssumption DEF Stretch

LEMMA PushKeeps ==
  ASSUME HInv, NEW w \in Writer, Push(w)
  PROVE  HInv'
<1> USE HostedAssumption
<1> DEFINE link == [seq |-> writer[w].seq, prev |-> writer[w].prev]
           more == Append(pending, Last + 1)
<1>1. PICK n \in Nat : Reached(n)
  BY DEF HInv
<1>2. /\ Last \in Nat /\ Last + 1 \in Event /\ Last + 1 <= MaxEvents
      /\ log' = Append(log, link) /\ Running
      /\ UNCHANGED <<status, warned, hasty, server, received>>
      /\ safe' = safe
  BY Types DEF HInv, Push, Event, Waits
<1>3. /\ writer[w] \in WriterType /\ Links(writer[w], Last)
  BY WritersOk DEF WriterOk, Push
<1>4. /\ link.seq \in Event /\ link.seq <= Last + 1 /\ link.prev \in 0 .. Last
  <2>1. writer[w].seq \in Nat /\ writer[w].seq >= 1 /\ writer[w].prev \in Nat
        /\ writer[w].prev <= Last
    BY <1>2, <1>3 DEF WriterType, Links, Event
  <2>2. writer[w].prev # 0 => log[writer[w].prev].seq \in Nat
                              /\ log[writer[w].prev].seq <= writer[w].prev
    BY <1>2, <2>1, Types DEF HInv, Chained, Event
  <2>3. writer[w].seq <= Last + 1
    BY <1>2, <1>3, <2>1, <2>2 DEF Links
  <2>4. QED
    BY <1>2, <2>1, <2>3 DEF Event
<1>5. /\ log' \in Seq([seq : Event, prev : Event \cup {0}])
      /\ Last' = Last + 1 /\ log'[Last + 1] = link
      /\ \A i \in 1 .. Last : log'[i] = log[i]
  <2>1. link \in [seq : Event, prev : Event \cup {0}]
    BY <1>2, <1>4 DEF Event
  <2> HIDE DEF link
  <2>2. QED
    BY <1>2, <2>1 DEF HInv, TypeOK, Last
<1>6. /\ Stretch(Last + 1, pending', batch', at', n)
      /\ pending' \in Seq(Event) /\ batch' \in Seq(Event) /\ at' \in 0 .. Len(batch')
  <2>1. Stretch(Last + 1, more, batch, at, n) /\ more \in Seq(Event) /\ more # <<>>
    <3>1. pending \in Seq(Event) /\ batch \in Seq(Event) /\ at \in Nat
      BY Types DEF HInv, TypeOK
    <3>2. Stretch(Last, pending, batch, at, n)
      BY <1>1, <1>2 DEF Reached
    <3>3. Stretch(Last + 1, more, batch, at, n)
      BY <1>2, <3>1, <3>2, Appended
    <3>4. more \in Seq(Event) /\ more # <<>>
      BY <1>2, <3>1
    <3>5. QED
      BY <3>3, <3>4
  <2> HIDE DEF more
  <2>2. CASE writer[w].wal
    <3>1. Flush(more)
      BY <2>2 DEF Push, more
    <3>2. QED
      BY <1>2, <2>1, <3>1, FlushKeeps DEF HInv
  <2>3. CASE ~writer[w].wal
    BY <2>1, <2>3 DEF Push, HInv, TypeOK, more
  <2>4. QED
    BY <2>2, <2>3
<1>7. Len(pending') <= MaxEvents
  BY <1>2, <1>6, BufferFits
<1> HIDE DEF link
<1>8. Last \in Nat /\ Last' = Last + 1 /\ \A i \in 1 .. Last : log'[i] = log[i]
  BY <1>2, <1>5
<1>9. \A state \in WriterType : Links(state, Last) => Links(state, Last)'
  <2> SUFFICES ASSUME NEW state \in WriterType, Links(state, Last)
               PROVE  Links(state, Last)'
    OBVIOUS
  <2>1. state.prev \in Nat /\ state.prev <= Last
    BY <1>2 DEF WriterType, Event, Links
  <2>2. ASSUME state.prev # 0 PROVE log'[state.prev] = log[state.prev]
    <3>1. state.prev \in 1 .. Last
      BY <1>8, <2>1, <2>2
    <3>2. QED
      BY <1>8, <3>1
  <2>3. state.prev <= Last'
    BY <1>8, <2>1
  <2>4. QED
    BY <2>2, <2>3 DEF Links
<1>10. \A v \in Writer : WriterOk(writer[v]) /\ writer[v] \in WriterType
  BY WritersOk DEF WriterOk
<1>11. /\ \A state \in WriterType : WriterOk(state) => WriterOk(state)'
       /\ WriterOk(Idle)'
  <2>1. WriterType' = WriterType
    BY DEF WriterType
  <2>2. \A state \in WriterType : WriterOk(state) => WriterOk(state)'
    BY <1>8, <1>9, <2>1 DEF WriterOk
  <2>3. QED
    BY <2>2, IdleOk DEF WriterOk
<1>12. PICK next : next = IF Waits(w)
                          THEN [writer[w] EXCEPT !.pc = "waiting", !.event = Last + 1]
                          ELSE Idle
  OBVIOUS
<1>13. next \in WriterType /\ WriterOk(next)'
  <2>1. CASE Waits(w)
    <3>1. next \in WriterType /\ next.pc = "waiting" /\ next.event = Last + 1
      BY <1>2, <1>3, <1>12, <2>1 DEF WriterType
    <3>2. next.event \in 1 .. Last'
      BY <1>8, <3>1
    <3>3. WriterType' = WriterType
      BY DEF WriterType
    <3>4. WriterOk(next)'
      BY <3>1, <3>2, <3>3 DEF WriterOk
    <3>5. QED
      BY <3>1, <3>4
  <2>2. CASE ~Waits(w)
    BY <1>11, <1>12, <2>2, IdleOk DEF WriterOk
  <2>3. QED
    BY <2>1, <2>2
<1>19. writer' \in [Writer -> WriterType] /\ \A v \in Writer : WriterOk(writer[v])'
  <2>1. writer' = [writer EXCEPT ![w] = next] /\ writer \in [Writer -> WriterType]
    BY <1>12 DEF Push, HInv, TypeOK, WriterType
  <2>2. writer' \in [Writer -> WriterType] /\ writer'[w] = next
        /\ \A v \in Writer : v # w => writer'[v] = writer[v]
    BY <1>13, <2>1
  <2>3. ASSUME NEW v \in Writer PROVE WriterOk(writer[v])'
    <3>1. PICK state : state = writer'[v]
      OBVIOUS
    <3>2. WriterOk(state)'
      BY <1>10, <1>11, <1>13, <2>2, <3>1
    <3>3. QED
      BY <3>1, <3>2
  <2>4. QED
    BY <2>2, <2>3
<1>14. TypeOK'
  <2>1. timer' \in BOOLEAN
    BY DEF Push, HInv, TypeOK
  <2>2. Len(log') <= MaxEvents
    BY <1>2, <1>8 DEF Last
  <2>3. QED
    BY <1>2, <1>5, <1>6, <1>7, <1>19, <2>1, <2>2 DEF HInv, TypeOK, WriterType
<1>15. Chained'
  <2>0. ASSUME NEW r, NEW b, r.prev \in 0 .. Last, Links(r, b)
        PROVE  Links(r, b)'
    <3>1. r.prev # 0 => log'[r.prev] = log[r.prev]
      BY <1>8, <2>0
    <3>2. QED
      BY <2>0, <3>1 DEF Links
  <2>1. ASSUME NEW i \in 1 .. Last' PROVE (log[i].seq <= i /\ Links(log[i], i - 1))'
    <3>1. PICK r : r = log'[i]
      OBVIOUS
    <3>2. CASE i \in 1 .. Last
      <4>1. r = log[i] /\ r.prev \in Event \cup {0}
        BY <1>8, <3>1, <3>2, Types DEF HInv
      <4>2. r.seq <= i /\ Links(r, i - 1)
        BY <3>2, <4>1 DEF HInv, Chained
      <4>3. r.prev \in 0 .. Last
        BY <1>8, <3>2, <4>1, <4>2 DEF Links, Event
      <4>4. QED
        BY <2>0, <3>1, <4>2, <4>3
    <3>3. CASE i = Last + 1
      <4>1. r = link
        BY <1>5, <3>1, <3>3
      <4>2. r.seq = writer[w].seq /\ r.prev = writer[w].prev
        BY <4>1 DEF link
      <4>3. Links(r, i - 1)
        BY <1>3, <1>8, <3>3, <4>2 DEF Links
      <4>4. r.seq <= i /\ r.prev \in 0 .. Last
        BY <1>4, <3>3, <4>1
      <4>5. QED
        BY <2>0, <3>1, <4>3, <4>4
    <3>4. QED
      BY <1>8, <3>2, <3>3
  <2>2. \A v \in Writer :
          /\ (writer[v].pc \in {"headed", "chained"} => Links(writer[v], Last))'
          /\ (writer[v].pc = "waiting" => writer[v].event \in 1 .. Last)'
    BY <1>19 DEF WriterOk
  <2>3. QED
    BY <2>1, <2>2 DEF Chained
<1>16. Stored'
  <2>1. \A i \in received : i \in 1 .. Last /\ log'[i] = log[i]
    BY <1>1, <1>8 DEF Reached
  <2>2. QED
    BY <1>2, <2>1 DEF HInv, Stored
<1>17. Reached(n)'
  BY <1>1, <1>2, <1>6, <1>8 DEF Reached, Running
<1>18. QED
  BY <1>2, <1>14, <1>15, <1>16, <1>17 DEF HInv

\* Steps that touch neither the events nor the appends.
LEMMA BufferStep ==
  ASSUME HInv, NEW n \in Nat, Reached(n),
         pending' \in Seq(Event) /\ Len(pending') <= MaxEvents, batch' \in Seq(Event),
         at' \in 0 .. Len(batch'), timer' \in BOOLEAN, hasty' \in BOOLEAN,
         status' \in {"open", "closing", "closed", "dead"},
         Running' => Stretch(Last, pending', batch', at', n),
         UNCHANGED <<log, writer, warned, server, received, safe>>
  PROVE  HInv'
<1>1. Last' = Last
  BY DEF Last
<1>2. TypeOK'
  BY DEF HInv, TypeOK
<1>3. Chained'
  BY <1>1 DEF HInv, Chained, Links
<1>4. Stored'
  BY DEF HInv, Stored
<1>5. Reached(n)'
  BY <1>1 DEF Reached
<1>6. QED
  BY <1>2, <1>3, <1>4, <1>5 DEF HInv

LEMMA TimerKeeps ==
  ASSUME HInv, Timer
  PROVE  HInv'
<1>1. PICK n \in Nat : Reached(n)
  BY DEF HInv
<1>2. /\ Last \in Nat /\ Last <= MaxEvents /\ pending \in Seq(Event)
      /\ Stretch(Last, pending, batch, at, n)
      /\ batch \in Seq(Event) /\ at \in 0 .. Len(batch)
      /\ Len(pending) <= MaxEvents
  BY <1>1, Types DEF HInv, TypeOK, Timer, Reached
<1>3. /\ Stretch(Last, pending', batch', at', n)
      /\ pending' \in Seq(Event) /\ batch' \in Seq(Event) /\ at' \in 0 .. Len(batch')
  <2>1. CASE pending = <<>>
    BY <1>2, <2>1 DEF Timer
  <2>2. CASE pending # <<>>
    BY <1>2, <2>2, FlushKeeps DEF Timer, HInv
  <2>3. QED
    BY <2>1, <2>2
<1>4. Len(pending') <= MaxEvents
  BY <1>2, <1>3, BufferFits
<1>5. status' \in {"open", "closing", "closed", "dead"} /\ timer' \in BOOLEAN
      /\ hasty' \in BOOLEAN
  BY DEF HInv, TypeOK, Timer
<1>6. QED
  BY <1>1, <1>3, <1>4, <1>5, BufferStep DEF Timer

LEMMA CloseKeeps ==
  ASSUME HInv, Close
  PROVE  HInv'
<1>1. PICK n \in Nat : Reached(n)
  BY DEF HInv
<1>2. /\ Last \in Nat /\ Last <= MaxEvents /\ pending \in Seq(Event)
      /\ Stretch(Last, pending, batch, at, n)
      /\ batch \in Seq(Event) /\ at \in 0 .. Len(batch)
      /\ Len(pending) <= MaxEvents
  BY <1>1, Types DEF HInv, TypeOK, Close, Reached, Running
<1>3. /\ Stretch(Last, pending', batch', at', n)
      /\ pending' \in Seq(Event) /\ batch' \in Seq(Event) /\ at' \in 0 .. Len(batch')
  <2>1. CASE pending = <<>>
    BY <1>2, <2>1 DEF Close
  <2>2. CASE pending # <<>>
    BY <1>2, <2>2, FlushKeeps DEF Close, HInv
  <2>3. QED
    BY <2>1, <2>2
<1>4. Len(pending') <= MaxEvents
  BY <1>2, <1>3, BufferFits
<1>5. status' \in {"open", "closing", "closed", "dead"} /\ timer' \in BOOLEAN
      /\ hasty' \in BOOLEAN
  BY DEF HInv, TypeOK, Close
<1>6. QED
  BY <1>1, <1>3, <1>4, <1>5, BufferStep DEF Close

LEMMA DieKeeps ==
  ASSUME HInv, Die
  PROVE  HInv'
<1>1. Last' = Last /\ ~Running'
  BY DEF Last, Die, Running
<1>2. writer' = [w \in Writer |-> Idle]
  BY DEF Die
<1>3. writer' \in [Writer -> WriterType] /\ \A w \in Writer : writer'[w].pc = "idle"
  BY <1>2, IdleOk DEF WriterOk, Idle
<1>4. TypeOK'
  <2>1. <<>> \in Seq(Event) /\ Len(<<>>) = 0
    OBVIOUS
  <2>2. /\ pending' = <<>> /\ batch' = <<>> /\ at' = 0 /\ timer' = FALSE
        /\ status' = "dead" /\ UNCHANGED <<log, warned, hasty, server, received, safe>>
    BY DEF Die
  <2>3. 0 <= MaxEvents /\ 0 \in 0 .. 0
    BY HostedAssumption
  <2>4. QED
    BY <1>3, <2>1, <2>2, <2>3 DEF HInv, TypeOK, WriterType
<1>5. Chained'
  BY <1>1, <1>3 DEF HInv, Chained, Links, Die
<1>6. Stored'
  BY DEF HInv, Stored, Die
<1>7. \A n \in Nat : Reached(n) => Reached(n)'
  BY <1>1 DEF Reached, Die
<1>8. QED
  BY <1>4, <1>5, <1>6, <1>7 DEF HInv, Die

\* The end of a flush.
LEMMA SettleKeeps ==
  ASSUME HInv, Running, NEW ok \in BOOLEAN, Settle(ok), NEW m \in Nat, m <= Last,
         received' = 1 .. m, received \subseteq received',
         pending' \in Seq(Event) /\ Len(pending') <= MaxEvents,
         Stretch(Last, pending', <<>>, 0, m),
         ok => m = Last,
         Stored', server' \in [Event -> Event \cup {0}],
         UNCHANGED <<log, timer, hasty>>
  PROVE  HInv'
<1>1. Last' = Last /\ Last \in Nat /\ Last <= MaxEvents /\ batch' = <<>> /\ at' = 0
  BY Types DEF Last, Settle, HInv
<1>2. writer' \in [Writer -> WriterType] /\ \A w \in Writer : WriterOk(writer'[w])
  BY IdleOk, WritersOk DEF Settle, HInv, TypeOK, WriterType, WriterOk
<1>3. \A w \in Waiting : writer[w].event \in 1 .. Last
  BY DEF HInv, Chained, Waiting
<1>4. safe' \subseteq received'
  BY <1>3 DEF Settle, HInv
<1>5. TypeOK'
  <2>1. <<>> \in Seq(Event) /\ Len(<<>>) = 0
    OBVIOUS
  <2>2. warned' \in BOOLEAN /\ status' \in {"open", "closing", "closed", "dead"}
    BY DEF Settle, Warns, HInv, TypeOK
  <2>3. received' \subseteq Event /\ safe' \subseteq Event
    BY <1>1, <1>4, HostedAssumption DEF Event
  <2>4. QED
    BY <1>1, <1>2, <2>1, <2>2, <2>3 DEF HInv, TypeOK, WriterType
<1>6. Chained'
  BY <1>1, <1>2 DEF HInv, Chained, WriterOk, Links
<1>7. Reached(m)'
  BY <1>1 DEF Reached
<1>8. QED
  BY <1>4, <1>5, <1>6, <1>7 DEF HInv

\* What is true when the event at the place of the flush has been stored.
LEMMA PutKeeps ==
  ASSUME HInv, Running, Flushing, putEvent, UNCHANGED log
  PROVE  /\ Stored' /\ server' \in [Event -> Event \cup {0}]
         /\ \E m \in Nat :
              /\ received' = 1 .. m /\ m <= Last
              /\ Stretch(Last, pending, batch, at, m)
              /\ at < Len(batch) => Stretch(Last, pending, batch, at + 1, m)
              /\ at = Len(batch) /\ pending # <<>> => Stretch(Last, <<>>, pending, 1, m)
              /\ at = Len(batch) /\ pending = <<>> => m = Last
<1>1. PICK n \in Nat : Reached(n)
  BY DEF HInv
<1>2. /\ Last \in Nat /\ pending \in Seq(Event) /\ batch \in Seq(Event) /\ batch # <<>>
      /\ at \in Nat /\ at <= Len(batch)
      /\ received = 1 .. n /\ n <= Last /\ Stretch(Last, pending, batch, at, n)
  BY <1>1, Types DEF HInv, TypeOK, Flushing, Reached
<1>3. PICK m \in Nat :
           /\ (1 .. n) \cup {batch[at]} = 1 .. m /\ n <= m /\ m <= Last
           /\ Stretch(Last, pending, batch, at, m)
           /\ at < Len(batch) => Stretch(Last, pending, batch, at + 1, m)
           /\ at = Len(batch) /\ pending # <<>> => Stretch(Last, <<>>, pending, 1, m)
           /\ at = Len(batch) /\ pending = <<>> => m = Last
  BY <1>2, OneMore
<1>4. PICK b : b = batch[at]
  OBVIOUS
<1>5. received' = received \cup {b} /\ received' = 1 .. m
  BY <1>2, <1>3, <1>4 DEF putEvent
<1>6. b \in 1 .. Last /\ log[b].seq \in Event /\ b \in Event
  <2>1. b \in 1 .. m
    BY <1>5
  <2>2. b \in 1 .. Last
    BY <1>2, <1>3, <2>1
  <2>3. QED
    BY <2>2, Types, HostedAssumption DEF HInv, Event
<1>7. server' = [server EXCEPT ![log[b].seq] = b]
      /\ server \in [Event -> Event \cup {0}]
  BY <1>4 DEF putEvent, HInv, TypeOK
<1>8. server' \in [Event -> Event \cup {0}]
  BY <1>6, <1>7
<1>9. \A i \in received' : log[i].seq \in Event
  <2>1. received' = 1 .. m /\ m <= Last /\ Last \in Nat
    BY <1>2, <1>3, <1>5
  <2>2. QED
    BY <2>1, Types DEF HInv
<1>10. b # 0
  BY <1>6 DEF Event
<1>11. Stored'
  <2>1. \A k \in Event : server'[k] = IF k = log[b].seq THEN b ELSE server[k]
    BY <1>6, <1>7
  <2>2. \A i \in received' : server'[log[i].seq] # 0
    BY <1>5, <1>9, <1>10, <2>1 DEF HInv, Stored
  <2>3. \A k \in Event : server'[k] # 0 =>
          server'[k] \in received' /\ log[server'[k]].seq = k
    BY <1>5, <2>1 DEF HInv, Stored
  <2>4. QED
    BY <2>2, <2>3 DEF Stored
<1>12. QED
  BY <1>3, <1>5, <1>8, <1>11

LEMMA PostedKeeps ==
  ASSUME HInv, Posted
  PROVE  HInv'
<1>1. Running /\ Flushing /\ putEvent /\ UNCHANGED <<log, timer, hasty>>
  BY DEF Posted
<1>2. Stored' /\ server' \in [Event -> Event \cup {0}]
  BY <1>1, PutKeeps
<1>3. PICK m \in Nat :
              /\ received' = 1 .. m /\ m <= Last
              /\ Stretch(Last, pending, batch, at, m)
              /\ at < Len(batch) => Stretch(Last, pending, batch, at + 1, m)
              /\ at = Len(batch) /\ pending # <<>> => Stretch(Last, <<>>, pending, 1, m)
              /\ at = Len(batch) /\ pending = <<>> => m = Last
  BY <1>1, PutKeeps
<1>4. Last' = Last /\ Last \in Nat /\ Last <= MaxEvents /\ at \in Nat
      /\ Len(batch) \in Nat /\ at <= Len(batch) /\ received \subseteq received'
  BY <1>1, Types DEF Last, HInv, putEvent
<1>5. CASE at = Len(batch) /\ pending = <<>>
  <2>1. Settle(TRUE) /\ UNCHANGED pending
    BY <1>5 DEF Posted
  <2>2. Stretch(Last, pending', <<>>, 0, m)
    BY <1>3, <1>5, <2>1 DEF Stretch
  <2>3. pending' \in Seq(Event) /\ Len(pending') <= MaxEvents
    BY <2>1 DEF HInv, TypeOK
  <2>4. QED
    BY <1>1, <1>2, <1>3, <1>4, <1>5, <2>1, <2>2, <2>3, SettleKeeps
<1>6. CASE ~(at = Len(batch) /\ pending = <<>>)
  <2>1. /\ Stretch(Last, pending', batch', at', m)
        /\ pending' \in Seq(Event) /\ Len(pending') <= MaxEvents
        /\ batch' \in Seq(Event) /\ at' \in 0 .. Len(batch')
        /\ UNCHANGED <<writer, safe, status, warned>>
    <3>1. CASE at # Len(batch)
      <4>1. at' = at + 1 /\ UNCHANGED <<pending, batch, writer, safe, status, warned>>
        BY <3>1 DEF Posted
      <4>2. at < Len(batch)
        BY <1>4, <3>1
      <4>3. QED
        BY <1>3, <1>4, <4>1, <4>2 DEF HInv, TypeOK
    <3>2. CASE at = Len(batch) /\ pending # <<>>
      <4>1. pending' = <<>> /\ batch' = pending /\ at' = 1
            /\ UNCHANGED <<writer, safe, status, warned>>
        BY <3>2 DEF Posted, Rest
      <4>2. pending \in Seq(Event) /\ Len(pending) >= 1 /\ Len(pending) \in Nat
            /\ <<>> \in Seq(Event) /\ Len(<<>>) = 0
        BY <3>2 DEF HInv, TypeOK
      <4>3. QED
        BY <1>3, <3>2, <4>1, <4>2, HostedAssumption
    <3>3. QED
      BY <1>6, <3>1, <3>2
  <2>2. received' \subseteq Event /\ safe' \subseteq received' /\ safe' \subseteq Event
    BY <1>3, <1>4, <2>1, HostedAssumption DEF HInv, Event
  <2>3. TypeOK'
    BY <1>1, <1>2, <2>1, <2>2 DEF HInv, TypeOK
  <2>4. Chained'
    BY <1>1, <1>4, <2>1 DEF HInv, Chained, Links
  <2>5. Reached(m)'
    BY <1>3, <1>4, <2>1 DEF Reached
  <2>6. QED
    BY <1>2, <2>2, <2>3, <2>4, <2>5 DEF HInv
<1>7. QED
  BY <1>5, <1>6

LEMMA PostFailsKeeps ==
  ASSUME HInv, PostFails
  PROVE  HInv'
<1>1. /\ Running /\ Flushing /\ Settle(FALSE) /\ pending' = batch \o pending
      /\ UNCHANGED <<log, timer, hasty>>
      /\ putEvent \/ UNCHANGED <<server, received>>
  BY DEF PostFails, Requeued
<1>2. /\ Stored' /\ server' \in [Event -> Event \cup {0}] /\ received \subseteq received'
      /\ \E m \in Nat : received' = 1 .. m /\ m <= Last
                        /\ Stretch(Last, pending, batch, at, m)
  <2>1. CASE putEvent
    BY <1>1, <2>1, PutKeeps DEF putEvent
  <2>2. CASE UNCHANGED <<server, received>>
    BY <1>1, <2>2 DEF HInv, TypeOK, Stored, Reached
  <2>3. QED
    BY <1>1, <2>1, <2>2
<1>3. PICK m \in Nat : received' = 1 .. m /\ m <= Last
                       /\ Stretch(Last, pending, batch, at, m)
  BY <1>2
<1>4. /\ Last \in Nat /\ Last <= MaxEvents /\ at \in Nat /\ batch # <<>>
      /\ pending \in Seq(Event) /\ batch \in Seq(Event)
  BY <1>1, Types DEF HInv, TypeOK, Flushing
<1>5. Stretch(Last, pending', <<>>, 0, m)
  BY <1>1, <1>3, <1>4, PutBack
<1>6. pending' \in Seq(Event) /\ <<>> \in Seq(Event)
  BY <1>1, <1>4
<1>7. Len(pending') <= MaxEvents
  BY <1>4, <1>5, <1>6, BufferFits
<1>8. QED
  BY <1>1, <1>2, <1>3, <1>5, <1>6, <1>7, SettleKeeps

LEMMA HInvStep == HInv /\ [Next]_vars => HInv'
<1> SUFFICES ASSUME HInv, [Next]_vars PROVE HInv'
  OBVIOUS
<1>1. CASE UNCHANGED vars
  BY <1>1 DEF vars, HInv, TypeOK, Chained, Links, Stored, Reached, Last, Running
<1>2. ASSUME NEW w \in Writer, NEW wal \in BOOLEAN, ReadHead(w, wal) PROVE HInv'
  BY <1>2, ReadHeadKeeps
<1>3. ASSUME NEW w \in Writer, ReadPrior(w) PROVE HInv'
  BY <1>3, ReadPriorKeeps
<1>4. ASSUME NEW w \in Writer, Push(w) PROVE HInv'
  BY <1>4, PushKeeps
<1>5. ASSUME NEW w \in Writer, Refused(w) PROVE HInv'
  BY <1>5, RefusedKeeps
<1>6. QED
  BY <1>1, <1>2, <1>3, <1>4, <1>5, TimerKeeps, PostedKeeps, PostFailsKeeps, CloseKeeps,
     DieKeeps DEF Next

\* The types, for any number of appends and events (http.ts).
THEOREM HostedTypes == Spec => []TypeOK
<1>1. HInv => TypeOK
  BY DEF HInv
<1>2. QED
  BY <1>1, HInvInit, HInvStep, PTL DEF Spec

\* However posts and answers are lost, the server gets the local order without a hole,
\* and the chain it stores is the local one if no appends collided (http.ts:121).
THEOREM AlwaysSentInOrder == Spec => []SentInOrder
<1>1. HInv => SentInOrder
  BY HInvImplies
<1>2. QED
  BY <1>1, HInvInit, HInvStep, PTL DEF Spec

\* An append of an effect_opened returns only when the server has it (types.ts:247).
THEOREM WriteAheadIsAlwaysRemote == Spec => []WriteAheadIsRemote
<1>1. HInv => WriteAheadIsRemote
  BY HInvImplies
<1>2. QED
  BY <1>1, HInvInit, HInvStep, PTL DEF Spec

-----------------------------------------------------------------------------
(* Closing. *)

\* A ledger that is closing awaits a flush; one that was closed, without a flush of
\* others under way and without a warning, has nothing left to send.
CloseInv ==
  /\ status = "closing" => Flushing
  /\ status = "closed" /\ ~hasty /\ ~warned => pending = <<>> /\ batch = <<>>

\* A flush takes off, if there is none.
LEMMA FlushFlies ==
  ASSUME NEW queue, queue # <<>>, Flush(queue)
  PROVE  Flushing'
BY DEF Flush, Flushing

\* What steps do to the closing.
LEMMA CloseStep == CloseInv /\ [Next]_vars => CloseInv'
<1> SUFFICES ASSUME CloseInv, [Next]_vars PROVE CloseInv'
  OBVIOUS
<1>1. CASE UNCHANGED <<status, pending, batch, hasty, warned>>
  BY <1>1 DEF CloseInv, Flushing
<1>2. ASSUME NEW w \in Writer, Push(w) PROVE CloseInv'
  <2>1. status # "closed" /\ status' = status
    BY <1>2 DEF Push
  <2>2. Flushing => Flushing'
    BY <1>2 DEF Push, Flush, Flushing
  <2>3. QED
    BY <2>1, <2>2 DEF CloseInv
<1>3. CASE Timer
  <2>1. CASE pending = <<>>
    BY <1>1, <1>3, <2>1 DEF Timer
  <2>2. CASE pending # <<>>
    BY <1>3, <2>2, FlushFlies DEF Timer, CloseInv
  <2>3. QED
    BY <2>1, <2>2
<1>4. CASE Posted
  <2>1. CASE at = Len(batch) /\ pending = <<>>
    BY <1>4, <2>1 DEF Posted, Settle, CloseInv, Flushing
  <2>2. CASE ~(at = Len(batch) /\ pending = <<>>)
    <3>1. Flushing /\ UNCHANGED <<status, warned, hasty>>
      BY <1>4, <2>2 DEF Posted
    <3>2. batch' = batch \/ (pending # <<>> /\ batch' = pending)
      BY <1>4, <2>2 DEF Posted
    <3>3. Flushing'
      BY <3>1, <3>2 DEF Flushing
    <3>4. QED
      BY <3>1, <3>3 DEF CloseInv, Flushing
  <2>3. QED
    BY <2>1, <2>2
<1>5. CASE PostFails
  BY <1>5 DEF PostFails, Settle, Warns, CloseInv, Flushing
<1>6. CASE Close
  <2>1. CASE pending = <<>>
    BY <1>6, <2>1 DEF Close, CloseInv, Flushing
  <2>2. CASE pending # <<>>
    BY <1>6, <2>2, FlushFlies DEF Close, CloseInv
  <2>3. QED
    BY <2>1, <2>2
<1>7. CASE Die
  BY <1>7 DEF Die, CloseInv
<1>8. CASE UNCHANGED vars
  BY <1>1, <1>8 DEF vars
<1>9. ASSUME NEW w \in Writer,
             (\E wal \in BOOLEAN : ReadHead(w, wal)) \/ ReadPrior(w) \/ Refused(w)
      PROVE  CloseInv'
  BY <1>1, <1>9 DEF ReadHead, ReadPrior, Refused
<1>10. QED
  BY <1>2, <1>3, <1>4, <1>5, <1>6, <1>7, <1>8, <1>9 DEF Next

\* http.ts:342, "No silent loss": a ledger that was closed has sent everything or has
\* warned, unless all it had was in a flush under way.
THEOREM CloseIsHonest == Spec => []CloseSaysSo
<1>1. Init => CloseInv
  BY DEF Init, CloseInv
<1>2. HInv /\ CloseInv => CloseSaysSo
  <2> SUFFICES ASSUME HInv, CloseInv, status = "closed", ~hasty, ~warned
               PROVE  1 .. Last \subseteq received
    BY DEF CloseSaysSo
  <2>1. pending = <<>> /\ batch = <<>> /\ Running
    BY DEF CloseInv, Running
  <2>2. PICK n \in Nat : Reached(n)
    BY DEF HInv
  <2>3. Stretch(Last, <<>>, <<>>, at, n) /\ received = 1 .. n /\ Last \in Nat
    BY <2>1, <2>2, Types DEF Reached, HInv
  <2>4. Last <= n
    BY <2>3 DEF Stretch
  <2>5. QED
    BY <2>3, <2>4
<1>3. QED
  BY <1>1, <1>2, HInvInit, HInvStep, CloseStep, PTL DEF Spec

=============================================================================

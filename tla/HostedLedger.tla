---------------------------- MODULE HostedLedger ----------------------------
(***************************************************************************)
(* The hosted ledger (openHttpLedger, sdk-ts/src/ledger/http.ts): a ledger  *)
(* in memory with a write-behind buffer of events that are posted to the   *)
(* event table of the coordinator (sdk-ts/src/coordinate/store.ts,         *)
(* putEvent).  Calls of appendChained for one saga run at the same time.   *)
(* An effect_opened (write-ahead) waits until the buffer is flushed, other *)
(* events leave it to a timer, and close flushes what is left.  Posts and   *)
(* their answers get lost, and the process may die.                        *)
(*                                                                         *)
(* An event is named by its place in the memory of the process.            *)
(***************************************************************************)
EXTENDS Integers, Sequences, FiniteSets

CONSTANTS
  Writer,     \* calls of appendChained under way at the same time
  MaxEvents   \* bound: events ever appended

ASSUME HostedAssumption == MaxEvents \in Nat \ {0}

VARIABLES
  log,       \* the memory ledger: per event its chain_seq and predecessor
  pending,   \* the buffer
  batch,     \* what the running flush has taken out of the buffer
  at,        \* the event of the batch it is posting
  timer,     \* whether a flush is scheduled
  writer,    \* control state of each append
  status,    \* of the ledger: open, closing (it awaits a flush), closed
  warned,    \* whether close said that data may be lost
  hasty,     \* history: close found an empty buffer, but a flush under way
  server,    \* coord_events: the event stored under a chain_seq
  received,  \* history: events the server ever stored
  safe       \* history: write-ahead events whose append has returned

vars == <<log, pending, batch, at, timer, writer, status, warned, hasty,
          server, received, safe>>

Event == 1 .. MaxEvents
Elements(s) == {s[i] : i \in DOMAIN s}

TypeOK ==
  /\ log \in Seq([seq : Event, prev : Event \cup {0}])
  /\ Len(log) <= MaxEvents
  /\ pending \in Seq(Event) /\ Len(pending) <= MaxEvents
  /\ batch \in Seq(Event) /\ at \in 0 .. Len(batch)
  /\ timer \in BOOLEAN /\ warned \in BOOLEAN /\ hasty \in BOOLEAN
  /\ writer \in [Writer ->
       [pc : {"idle", "headed", "chained", "waiting"}, wal : BOOLEAN,
        seq : 1 .. MaxEvents + 1, prev : Event \cup {0},
        prior : Event \cup {0}, event : Event \cup {0}]]
  /\ status \in {"open", "closing", "closed", "dead"}
  /\ server \in [Event -> Event \cup {0}]
  /\ received \subseteq Event
  /\ safe \subseteq Event

Idle == [pc |-> "idle", wal |-> FALSE, seq |-> 1, prev |-> 0, prior |-> 0,
         event |-> 0]

Init ==
  /\ log = <<>> /\ pending = <<>> /\ batch = <<>> /\ at = 0
  /\ timer = FALSE
  /\ writer = [w \in Writer |-> Idle]
  /\ status = "open" /\ warned = FALSE /\ hasty = FALSE
  /\ server = [n \in Event |-> 0]
  /\ received = {} /\ safe = {}

Last == Len(log)
Flushing == batch # <<>>
Running == status # "dead"

-----------------------------------------------------------------------------
(* Appending. *)

\* appendChained reads the saga's row: its head and length are those of the last
\* event folded into it.
ReadHead(w, wal) ==
  /\ Running /\ writer[w].pc = "idle"
  /\ writer' = [writer EXCEPT ![w] =
       [Idle EXCEPT !.pc = "headed", !.wal = wal, !.prev = Last,
                    !.seq = IF Last = 0 THEN 1 ELSE log[Last].seq + 1]]
  /\ UNCHANGED <<log, pending, batch, at, timer, status, warned, hasty, server,
                 received, safe>>

\* append reads the events in memory, to chain the event again.
ReadPrior(w) ==
  /\ Running /\ writer[w].pc = "headed"
  /\ writer' = [writer EXCEPT ![w].pc = "chained", ![w].prior = Last]
  /\ UNCHANGED <<log, pending, batch, at, timer, status, warned, hasty, server,
                 received, safe>>

\* Mutant: the events are copied, and stay in the buffer.
Rest_Copied(queue) == queue

\* pending.splice: the flush takes everything.
Rest(queue) == <<>>

\* flushPending of a non-empty buffer, unless one is under way.
Flush(queue) ==
  IF Flushing
  THEN pending' = queue /\ UNCHANGED <<batch, at>>
  ELSE pending' = Rest(queue) /\ batch' = queue /\ at' = 1

\* clientChain: the event was chained to the last one in memory, or VR2015.
Chains(w) == writer[w].prev = writer[w].prior

\* Mutant: an append that finds a flush under way does not wait for it.
Waits_NotForOthers(w) == writer[w].wal /\ ~Flushing

\* Write-ahead events await the flush, their own or the one under way.
Waits(w) == writer[w].wal

\* The event is in memory and in the buffer.  (Nothing else runs in between.)
Push(w) ==
  LET event == Last + 1 IN
  /\ Running /\ writer[w].pc = "chained"
  /\ Chains(w) /\ status # "closed"
  /\ Last < MaxEvents
  /\ log' = Append(log, [seq |-> writer[w].seq, prev |-> writer[w].prev])
  /\ IF writer[w].wal
     THEN Flush(Append(pending, event)) /\ UNCHANGED timer
     ELSE /\ pending' = Append(pending, event)
          /\ timer' = TRUE
          /\ UNCHANGED <<batch, at>>
  /\ writer' = [writer EXCEPT ![w] =
       IF Waits(w) THEN [@ EXCEPT !.pc = "waiting", !.event = event] ELSE Idle]
  /\ safe' = IF writer[w].wal /\ ~Waits(w) THEN safe \cup {event} ELSE safe
  /\ UNCHANGED <<status, warned, hasty, server, received>>

\* VR2015: another event was appended in between; VR2002: closed.
Refused(w) ==
  /\ Running /\ writer[w].pc = "chained"
  /\ ~Chains(w) \/ status = "closed"
  /\ writer' = [writer EXCEPT ![w] = Idle]
  /\ UNCHANGED <<log, pending, batch, at, timer, status, warned, hasty, server,
                 received, safe>>

Timer ==
  /\ Running /\ timer
  /\ timer' = FALSE
  /\ IF pending = <<>> THEN UNCHANGED <<pending, batch, at>> ELSE Flush(pending)
  /\ UNCHANGED <<log, writer, status, warned, hasty, server, received, safe>>

-----------------------------------------------------------------------------
(* Flushing. *)

Waiting == {w \in Writer : writer[w].pc = "waiting"}

\* Mutant: close does not say what it could not send.
Warns_Never(ok) == FALSE

Warns(ok) == ~ok /\ status = "closing"

\* The flush is over: whoever awaits it goes on, or throws.
Settle(ok) ==
  /\ batch' = <<>> /\ at' = 0
  /\ writer' = [w \in Writer |-> IF w \in Waiting THEN Idle ELSE writer[w]]
  /\ safe' = IF ok THEN safe \cup {writer[w].event : w \in Waiting} ELSE safe
  /\ status' = IF status = "closing" THEN "closed" ELSE status
  /\ warned' = (warned \/ Warns(ok))

\* Mutant: the batch goes to the end of the buffer.
Requeued_Last == pending \o batch

\* pending.unshift: the whole batch, with what the server has already.
Requeued == batch \o pending

\* putEvent: INSERT OR REPLACE, one event per id and one per chain_seq.
putEvent ==
  /\ server' = [server EXCEPT ![log[batch[at]].seq] = batch[at]]
  /\ received' = received \cup {batch[at]}

\* One event is stored, and the answer comes back: the next one, or the next
\* batch, or the end.
Posted ==
  /\ Running /\ Flushing
  /\ putEvent
  /\ \/ /\ at # Len(batch)
        /\ at' = at + 1
        /\ UNCHANGED <<pending, batch, writer, safe, status, warned>>
     \/ /\ at = Len(batch) /\ pending # <<>>
        /\ pending' = Rest(pending) /\ batch' = pending /\ at' = 1
        /\ UNCHANGED <<writer, safe, status, warned>>
     \/ /\ at = Len(batch) /\ pending = <<>>
        /\ Settle(TRUE) /\ UNCHANGED pending
  /\ UNCHANGED <<log, timer, hasty>>

\* The server is down, or refuses, or its answer is lost after it has stored the
\* event.
PostFails ==
  /\ Running /\ Flushing
  /\ putEvent \/ UNCHANGED <<server, received>>
  /\ pending' = Requeued
  /\ Settle(FALSE)
  /\ UNCHANGED <<log, timer, hasty>>

-----------------------------------------------------------------------------

Close ==
  /\ status = "open"
  /\ timer' = FALSE
  /\ hasty' = (Flushing /\ pending = <<>>)
  /\ IF pending = <<>>
     THEN status' = "closed" /\ UNCHANGED <<pending, batch, at>>
     ELSE status' = "closing" /\ Flush(pending)
  /\ UNCHANGED <<log, writer, warned, server, received, safe>>

\* The process ends, whether the ledger was closed or not.
Die ==
  /\ Running
  /\ status' = "dead"
  /\ pending' = <<>> /\ batch' = <<>> /\ at' = 0 /\ timer' = FALSE
  /\ writer' = [w \in Writer |-> Idle]
  /\ UNCHANGED <<log, warned, hasty, server, received, safe>>

Next ==
  \/ \E w \in Writer :
       (\E wal \in BOOLEAN : ReadHead(w, wal)) \/ ReadPrior(w) \/ Push(w)
         \/ Refused(w)
  \/ Timer \/ Posted \/ PostFails \/ Close \/ Die

Spec == Init /\ [][Next]_vars

-----------------------------------------------------------------------------
(* Properties. *)

\* Appends that did not collide.
NoFork == \A i, j \in 1 .. Last : i # j => log[i].seq # log[j].seq

\* However often a batch is sent again and whatever is appended meanwhile, the
\* server gets the events in the order of the local log and without a hole; while
\* the process runs, an event it does not have yet is in the batch being posted or
\* in the buffer; and without a fork the chain it stores is the local one (http.ts:121).
SentInOrder ==
  /\ \E n \in 0 .. MaxEvents : received = 1 .. n
  /\ Running =>
       1 .. Last \subseteq received \cup Elements(pending) \cup Elements(batch)
  /\ NoFork => \A n \in Event : server[n] # 0 =>
       /\ server[n] \in 1 .. Last /\ log[server[n]].seq = n
       /\ n > 1 => server[n - 1] = log[server[n]].prev /\ server[n - 1] # 0

\* types.ts:247: when the append of an effect_opened returns, the server has it,
\* so that a crash while the effect runs cannot hide it.
WriteAheadIsRemote == safe \subseteq received

\* http.ts:342, "No silent loss": a ledger that was closed has sent everything or
\* has said that it could not, unless all it had was in a flush under way.
CloseSaysSo ==
  (status = "closed" /\ ~hasty /\ ~warned) => 1 .. Last \subseteq received

\* http.ts:342, "No silent loss: if the server is down at shutdown, say so loudly
\* instead of dropping the buffer quietly": when the ledger is closed and the last
\* flush has ended, what was not sent was announced.
NoSilentLoss ==
  (status = "closed" /\ ~Flushing /\ ~warned) => 1 .. Last \subseteq received

=============================================================================

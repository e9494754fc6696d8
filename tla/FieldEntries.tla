------------------------- MODULE FieldEntries -------------------------
(* What a driver enters on the phone, the queue that keeps it while there  *)
(* is no connection, and the crate entries the server makes of it.  The    *)
(* phone calls the server directly, or queues an entry and sends it when   *)
(* the connection returns; a request or its answer may be lost on the way, *)
(* and the server may still be at work when the phone has given up.        *)
EXTENDS Naturals, Sequences, FiniteSets, FiniteSetsExt

CONSTANTS
  Entries,     \* entries of one crate each at one stop
  Issues,      \* those that issue a crate; the others take an empty one back
  Threads,     \* what the phone may have under way at most: calls and flushes
  Handlers,    \* requests that the server may have under way at most
  MaxLosses    \* bound on answers lost, requests that die and reloads

ASSUME FieldEntriesAssumption ==
  IsFiniteSet(Entries) /\ Issues \subseteq Entries /\ MaxLosses \in Nat /\ "none" \notin Handlers \cup Entries

VARIABLES
  patient,  \* whether the phone does one thing at a time and sends nothing while
            \*   the server is still at work on what it gave up; nothing makes it so
  online,
  due,      \* whether a flush is to begin: the connection has returned, or the
            \*   page was loaded with one
  queue,    \* the entries in local storage
  thread,   \* calls and flushes: entries left, entries to keep, and the request
            \*   that is waited for
  handler,  \* requests on the server: entry, progress and the stop as it was read
  stop,     \* the stop's counters of crates issued and of empty ones received
  entered,  \* entries the driver has made
  expired,  \* entries whose headers hold an access token that is no longer valid
  unsure,   \* entries that were given up without an answer, whose request died
            \*   after recording them, or whose flush ended before its time
  losses,   \* how many times
  ledger    \* crate transactions of each entry

phone == <<patient, online, due, queue, thread, entered, expired, unsure, losses>>
server == <<handler, stop, ledger>>
field == <<patient, online, due, queue, thread, handler, stop, entered, expired, unsure, losses, ledger>>

Rest == [op |-> "none", todo |-> <<>>, kept |-> <<>>, waits |-> "none"]
Free == [entry |-> "none", at |-> "none", seen |-> [issued |-> 0, received |-> 0]]

InitField ==
  /\ patient \in BOOLEAN /\ online \in BOOLEAN /\ due = FALSE
  /\ queue = <<>>
  /\ thread = [t \in Threads |-> Rest]
  /\ handler = [h \in Handlers |-> Free]
  /\ stop = [issued |-> 0, received |-> 0]
  /\ entered = {} /\ expired = {} /\ unsure = {} /\ losses = 0
  /\ ledger = [e \in Entries |-> 0]

InQueue(e) == \E i \in DOMAIN queue : queue[i] = e
UnderWay(e) == \E t \in Threads : \E i \in 1..Len(thread[t].todo) : thread[t].todo[i] = e
Held(e) == InQueue(e) \/ UnderWay(e)
ServerRests == \A h \in Handlers : handler[h] = Free
CanStart(t) ==
  /\ thread[t] = Rest
  /\ patient => ServerRests /\ \A u \in Threads : thread[u] = Rest

-----------------------------------------------------------------------
\* The phone.

Goes(t, r) == thread' = [thread EXCEPT ![t] = r]

\* A flush that has nothing left writes what it keeps, and only that.
FlushGoes(t, left, kept) ==
  IF left = <<>>
  THEN queue' = kept /\ Goes(t, Rest)
  ELSE UNCHANGED queue /\ Goes(t, [thread[t] EXCEPT !.todo = left, !.kept = kept, !.waits = "none"])

Execute(t, e) ==
  /\ CanStart(t) /\ e \notin entered
  /\ entered' = entered \cup {e} /\ expired' = expired \ {e}
  /\ IF online
     THEN UNCHANGED queue /\ Goes(t, [Rest EXCEPT !.op = "call", !.todo = <<e>>])
     ELSE queue' = Append(queue, e) /\ UNCHANGED thread
  /\ UNCHANGED <<patient, online, due, unsure, losses, server>>

Flush(t) ==
  /\ CanStart(t) /\ due
  /\ due' = FALSE
  /\ IF online /\ queue # <<>>
     THEN Goes(t, [Rest EXCEPT !.op = "flush", !.todo = queue]) ELSE UNCHANGED thread
  /\ UNCHANGED <<patient, online, queue, entered, expired, unsure, losses, server>>

\* fetch
Send(t) ==
  /\ thread[t].todo # <<>> /\ thread[t].waits = "none" /\ online
  /\ patient => ServerRests
  /\ \E h \in Handlers :
       /\ handler[h] = Free
       /\ handler' = [handler EXCEPT ![h] = [Free EXCEPT !.entry = Head(thread[t].todo), !.at = "arrived"]]
       /\ Goes(t, [thread[t] EXCEPT !.waits = h])
  /\ UNCHANGED <<patient, online, due, queue, entered, expired, unsure, losses, stop, ledger>>

\* A mutant: a flush stops at the first failure and forgets the rest.
KeepOne(t) == LET e == Head(thread[t].todo) IN FlushGoes(t, <<>>, Append(thread[t].kept, e))

\* The entry is kept, and goes back to the queue when the flush has ended.
Keep(t) == FlushGoes(t, Tail(thread[t].todo), Append(thread[t].kept, Head(thread[t].todo)))

\* The request of t has failed as far as the phone can tell.
Fails(t) ==
  IF thread[t].op = "call"
  THEN queue' = Append(queue, Head(thread[t].todo)) /\ Goes(t, Rest)
  ELSE Keep(t)

\* A mutant: a flush keeps what it has sent.
SucceedsAndKeeps(t) ==
  IF thread[t].op = "call" THEN UNCHANGED queue /\ Goes(t, Rest) ELSE Keep(t)

Succeeds(t) ==
  IF thread[t].op = "call"
  THEN UNCHANGED queue /\ Goes(t, Rest)
  ELSE FlushGoes(t, Tail(thread[t].todo), thread[t].kept)

\* There is no connection to send by.
SendOffline(t) ==
  /\ thread[t].todo # <<>> /\ thread[t].waits = "none" /\ ~online
  /\ Fails(t)
  /\ UNCHANGED <<patient, online, due, entered, expired, unsure, losses, server>>

\* The connection breaks while the server is at work.
LoseAnswer(t) ==
  /\ thread[t].waits # "none" /\ losses < MaxLosses
  /\ Fails(t)
  /\ unsure' = unsure \cup {Head(thread[t].todo)} /\ losses' = losses + 1
  /\ UNCHANGED <<patient, online, due, entered, expired, server>>

GoOffline ==
  /\ online /\ online' = FALSE /\ due' = FALSE
  /\ UNCHANGED <<patient, queue, thread, entered, expired, unsure, losses, server>>

\* A mutant: the return of the connection goes unnoticed.
GoOnlineUnnoticed ==
  /\ ~online /\ online' = TRUE
  /\ UNCHANGED <<patient, due, queue, thread, entered, expired, unsure, losses, server>>

GoOnline ==
  /\ ~online /\ online' = TRUE /\ due' = TRUE
  /\ UNCHANGED <<patient, queue, thread, entered, expired, unsure, losses, server>>

\* Loading the page again ends what was under way and keeps the queue, with what
\* an ended flush has sent already; the driver has to look whether a call it ended
\* was recorded, and may enter it again.
Reload ==
  LET calls == {t \in Threads : thread[t].op = "call"}
      sent  == {Head(thread[t].todo) : t \in {u \in calls : thread[u].waits # "none"}}
      again == IF \E t \in Threads : thread[t].op = "flush" THEN {e \in Entries : InQueue(e)} ELSE {}
  IN /\ losses < MaxLosses /\ losses' = losses + 1
     /\ thread' = [t \in Threads |-> Rest]
     /\ entered' = entered \ {e \in Entries : ledger[e] = 0 /\ \E t \in calls : Head(thread[t].todo) = e}
     /\ unsure' = unsure \cup sent \cup again
     /\ due' = online
     /\ UNCHANGED <<patient, online, queue, expired, server>>

\* A queued entry keeps the headers it was made with; its access token runs out.
Expire(e) ==
  /\ Held(e) /\ e \notin expired
  /\ expired' = expired \cup {e}
  /\ UNCHANGED <<patient, online, due, queue, thread, entered, unsure, losses, server>>

-----------------------------------------------------------------------
\* The server: an entry about crates reads the stop, records a transaction, and
\* writes the counters from what it has read; these are three statements.

Waiting(h) == {t \in Threads : thread[t].waits = h}
Answers(h, Outcome(_)) ==
  IF Waiting(h) = {} THEN UNCHANGED <<queue, thread>> ELSE \A t \in Waiting(h) : Outcome(t)

ReadStop(h) ==
  /\ handler[h].at = "arrived" /\ handler[h].entry \notin expired
  /\ handler' = [handler EXCEPT ![h].at = "read", ![h].seen = stop]
  /\ UNCHANGED <<phone, stop, ledger>>

Record(h) ==
  /\ handler[h].at = "read"
  /\ ledger' = [ledger EXCEPT ![handler[h].entry] = @ + 1]
  /\ handler' = [handler EXCEPT ![h].at = "recorded"]
  /\ UNCHANGED <<phone, stop>>

\* A mutant: an empty crate received is counted with the crates issued.
CountedTogether(seen, e) == [seen EXCEPT !.issued = @ + 1]

Counted(seen, e) ==
  IF e \in Issues THEN [seen EXCEPT !.issued = @ + 1] ELSE [seen EXCEPT !.received = @ + 1]

WriteStop(h) ==
  /\ handler[h].at = "recorded"
  /\ stop' = Counted(handler[h].seen, handler[h].entry)
  /\ handler' = [handler EXCEPT ![h] = Free]
  /\ Answers(h, Succeeds)
  /\ UNCHANGED <<patient, online, due, entered, expired, unsure, losses, ledger>>

\* The request is refused, as one with an expired token always is, or is lost
\* before it arrives.
Refuse(h) ==
  /\ handler[h].at \in {"arrived", "read"}
  /\ handler' = [handler EXCEPT ![h] = Free]
  /\ Answers(h, Fails)
  /\ UNCHANGED <<patient, online, due, entered, expired, unsure, losses, stop, ledger>>

\* The transaction is recorded, and the update of the stop fails.
DieRecorded(h) ==
  /\ handler[h].at = "recorded" /\ losses < MaxLosses
  /\ handler' = [handler EXCEPT ![h] = Free]
  /\ Answers(h, Fails)
  /\ unsure' = unsure \cup {handler[h].entry} /\ losses' = losses + 1
  /\ UNCHANGED <<patient, online, due, entered, expired, stop, ledger>>

-----------------------------------------------------------------------
Phone(t) == Flush(t) \/ Send(t) \/ SendOffline(t)
Server(h) == ReadStop(h) \/ WriteStop(h) \/ (handler[h].entry \in expired /\ Refuse(h))

NextField ==
  \/ \E t \in Threads : Phone(t) \/ LoseAnswer(t) \/ \E e \in Entries : Execute(t, e)
  \/ \E h \in Handlers : Server(h) \/ Record(h) \/ Refuse(h) \/ DieRecorded(h)
  \/ GoOffline \/ GoOnline \/ Reload \/ \E e \in Entries : Expire(e)

\* The phone and the server go on with what they have begun; the connection
\* returns, again and again for long enough to begin a flush and to send each
\* entry of it; an entry that keeps reaching the server is recorded some time, or
\* refused before the connection breaks when its token has run out.
Fairness ==
  /\ WF_field(GoOnline) /\ SF_field(\E t \in Threads : Flush(t))
  /\ \A t \in Threads : WF_field(Phone(t))
  /\ \A h \in Handlers : WF_field(Server(h)) /\ WF_field(Record(h) \/ Refuse(h))
  /\ \A e \in Entries :
       /\ SF_field(\E t \in Threads : thread[t].todo # <<>> /\ Head(thread[t].todo) = e /\ Send(t))
       /\ SF_field(\E h \in Handlers : handler[h].entry = e /\ ReadStop(h))
       /\ SF_field(\E h \in Handlers : handler[h].entry = e /\ Record(h))
       /\ SF_field(\E h \in Handlers : handler[h].entry = e /\ e \in expired /\ online /\ Refuse(h))

FieldSpec == InitField /\ [][NextField]_field /\ Fairness

-----------------------------------------------------------------------
\* Patient: an entry made is recorded, or still held by the queue or a call.
NotForgotten ==
  patient => \A e \in entered : ledger[e] = 0 => Held(e) \/ \E h \in Handlers : handler[h].entry = e

\* Patient: only an entry whose request was given up or died, or whose flush ended
\* before its time, is recorded twice.
TwiceOnlyIfUnsure ==
  patient => \A e \in Entries : ledger[e] > 1 => e \in unsure

\* Whatever overlaps, the counters of a stop never count more crates than were
\* recorded; those of a patient phone miss at most one for every loss.
CountersFollow ==
  LET Recorded(es) == MapThenSumSet(LAMBDA e : ledger[e], es)
      Follows(count, es) ==
        count <= Recorded(es) /\ (patient /\ ServerRests => Recorded(es) <= count + losses)
  IN Follows(stop.issued, Issues) /\ Follows(stop.received, Entries \ Issues)

\* Patient: as long as the connection breaks and returns, what is queued is recorded,
\* unless its token runs out first.
QueuedIsSynced ==
  patient /\ []<>~online => \A e \in Entries : InQueue(e) ~> ledger[e] > 0 \/ e \in expired
=======================================================================

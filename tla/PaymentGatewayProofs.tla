--------------------- MODULE PaymentGatewayProofs ---------------------
(* What holds for any number of payment intents, webhook handlers, back     *)
(* office users, receipts and crashes, whatever the gateway reports when:   *)
(* the receipt behind every success that was accepted; the invoice's books, *)
(* until a settlement that had read too early is committed; and, as long as *)
(* the reports of one intent are handled one after the other, one receipt   *)
(* for each intent.                                                         *)
EXTENDS PaymentGateway, MoneyTheorems, SequenceTheorems

Steps == {"done", "stored", "marked", "closing", "checked", "numbered", "confirming"}
Statuses == {"draft", "confirmed", "cancelled"}
Stages == {"rest", "called", "begun", "opened", "planned", "paying", "closing"}
Row == [intent : Intents \cup {"hand"}, status : Statuses,
        amount : Nat, pays : Nat]
Hook == [intent : Intents \cup {"hand"}, outcome : Outcomes, at : Steps, no : Nat]
Job == [op : {"none", "confirm", "cancel"}, no : Nat, at : Stages, was : Statuses, plan : Nat,
        fifo : BOOLEAN, seen : Nat, late : BOOLEAN]

TypeOK ==
  /\ target \in [Intents -> Nat]
  /\ receipts \in Seq(Row)
  /\ outstanding \in Nat /\ crossed \in BOOLEAN
  /\ hook \in [Handlers -> Hook] /\ job \in [Actors -> Job]

\* A handler that looks for, draws up or confirms a receipt handles a success, and
\* the receipt it confirms is one of its intent.
HookMeant(k, j, rs) ==
  /\ k.at # "done" => k.intent \in Intents
  /\ k.at \in {"marked", "checked", "numbered", "confirming"} => k.outcome = "success"
  /\ k.at = "closing" => k.outcome = "failed"
  /\ j.at # "rest" => /\ k.at = "confirming" /\ j.op = "confirm"
                      /\ j.no \in DOMAIN rs /\ rs[j.no].intent = k.intent

\* What a receipt has taken from the invoice.
Counted(r) == IF r.status = "confirmed" THEN r.pays ELSE 0

\* A job that has read and is not late has read what is still so: nobody has
\* committed since.
Current(j, r, out) ==
  /\ j.op = "confirm" =>
       /\ r.status = "draft"
       /\ j.at = "planned" => j.plan = r.pays
       /\ j.at = "paying" =>
            /\ j.seen = out
            /\ (IF j.fifo THEN r.pays = 0 ELSE j.plan = r.pays)
  /\ j.op = "cancel" =>
       /\ r.status # "cancelled"
       /\ j.at = "begun" => j.was = r.status
       /\ j.at \in {"planned", "paying"} => j.plan = Counted(r)
       /\ j.at = "paying" /\ j.plan > 0 => j.seen = out

\* A job is about a receipt, takes no more than it has seen, and closes what is
\* no draft any more.
JobMeant(j, rs, out) ==
  /\ j.at # "rest" => j.op \in {"confirm", "cancel"} /\ j.no \in DOMAIN rs
  /\ j.at = "paying" /\ j.op = "confirm" => j.plan <= j.seen
  /\ j.at = "closing" => rs[j.no].status # "draft"
  /\ j.fifo => j.at = "paying"
  /\ j.at \in Reading /\ ~j.late => Current(j, rs[j.no], out)

HooksMeant == \A h \in Handlers : HookMeant(hook[h], job[h], receipts)
JobsMeant == \A a \in Actors : JobMeant(job[a], receipts, outstanding)

\* Deliveries handled one after the other: each intent has one handler, which draws
\* up a receipt only while there is none.
OneHandler ==
  \A g, h \in Handlers :
    hook[g].at # "done" /\ hook[h].at # "done" /\ hook[g].intent = hook[h].intent => g = h
NoneWhileDrawing ==
  \A h \in Handlers : hook[h].at \in {"checked", "numbered"} => ReceiptsOf(hook[h].intent) = {}
OneEach ==
  \A m, n \in DOMAIN receipts :
    receipts[m].intent \in Intents /\ receipts[m].intent = receipts[n].intent => m = n
InTurn == apart => OneHandler /\ NoneWhileDrawing /\ OneEach

GatewayInv ==
  TypeOK /\ HooksMeant /\ JobsMeant /\ InTurn /\ ProcessedIsConfirmed /\ InvoiceConserved

-----------------------------------------------------------------------
\* What changes.

\* Receipts are added at the end, and a receipt that is no draft never is one again.
Grown ==
  \A n \in DOMAIN receipts :
    /\ n \in DOMAIN receipts' /\ receipts'[n].intent = receipts[n].intent
    /\ receipts[n].status # "draft" => receipts'[n].status # "draft"

LEMMA Receipts ==
  ASSUME TypeOK
  PROVE  /\ Len(receipts) \in Nat /\ DOMAIN receipts = 1..Len(receipts) /\ IsFiniteSet(DOMAIN receipts)
         /\ \A n \in DOMAIN receipts : receipts[n] \in Row /\ n \in Nat
<1>1. receipts \in Seq(Row)
  BY DEF TypeOK
<1>2. Len(receipts) \in Nat /\ DOMAIN receipts = 1..Len(receipts)
  BY <1>1
<1>3. IsFiniteSet(1..Len(receipts))
  BY <1>2, FS_Interval
<1> QED
  BY <1>1, <1>2, <1>3

\* A receipt is appended.
LEMMA Appends ==
  ASSUME TypeOK, NEW v \in Row, receipts' = Append(receipts, v)
  PROVE  LET k == Len(receipts) + 1 IN
         /\ receipts' \in Seq(Row) /\ Grown
         /\ DOMAIN receipts' = DOMAIN receipts \cup {k} /\ k \notin DOMAIN receipts
         /\ receipts'[k] = v /\ \A n \in DOMAIN receipts : receipts'[n] = receipts[n]
<1>1. receipts \in Seq(Row) /\ Len(receipts) \in Nat /\ DOMAIN receipts = 1..Len(receipts)
  BY Receipts DEF TypeOK
<1>2. receipts' \in Seq(Row) /\ Len(receipts') = Len(receipts) + 1
  BY <1>1
<1>3. DOMAIN receipts' = 1..(Len(receipts) + 1)
  BY <1>2
<1>4. /\ receipts'[Len(receipts) + 1] = v
      /\ \A n \in 1..Len(receipts) : receipts'[n] = receipts[n]
  BY <1>1
<1> QED
  BY <1>1, <1>2, <1>3, <1>4 DEF Grown

\* A receipt is settled or undone.
LEMMA Sets ==
  ASSUME TypeOK, NEW n \in DOMAIN receipts, NEW v \in Row, receipts' = [receipts EXCEPT ![n] = v],
         v.intent = receipts[n].intent, v.status # "draft"
  PROVE  /\ receipts' \in Seq(Row) /\ Grown /\ DOMAIN receipts' = DOMAIN receipts
         /\ receipts'[n] = v
         /\ \A m \in DOMAIN receipts : m # n => receipts'[m] = receipts[m]
<1>1. receipts \in Seq(Row)
  BY DEF TypeOK
<1>2. receipts' \in Seq(Row)
  BY <1>1
<1>3. /\ DOMAIN receipts' = DOMAIN receipts /\ receipts'[n] = v
      /\ \A m \in DOMAIN receipts : m # n => receipts'[m] = receipts[m]
  BY <1>1
<1>4. Grown
  BY <1>3 DEF Grown
<1> QED
  BY <1>2, <1>3, <1>4

LEMMA Goes ==
  ASSUME TypeOK, NEW h \in Handlers, NEW at \in Steps, NEW n \in Nat, Go(h, at, n)
  PROVE  /\ hook' \in [Handlers -> Hook]
         /\ hook'[h] = [intent |-> hook[h].intent, outcome |-> hook[h].outcome, at |-> at, no |-> n]
         /\ \A g \in Handlers : g # h => hook'[g] = hook[g]
<1>1. hook \in [Handlers -> Hook] /\ hook[h] \in Hook
  BY DEF TypeOK
<1>2. hook'[h] = [hook[h] EXCEPT !.at = at, !.no = n]
  BY <1>1 DEF Go
<1>3. [hook[h] EXCEPT !.at = at, !.no = n]
        = [intent |-> hook[h].intent, outcome |-> hook[h].outcome, at |-> at, no |-> n]
  <2>1. PICK i, o, b, k : hook[h] = [intent |-> i, outcome |-> o, at |-> b, no |-> k]
    BY <1>1 DEF Hook
  <2>2. [hook[h] EXCEPT !.at = at] = [intent |-> i, outcome |-> o, at |-> at, no |-> k]
    BY <2>1
  <2>3. [[intent |-> i, outcome |-> o, at |-> at, no |-> k] EXCEPT !.no = n]
          = [intent |-> i, outcome |-> o, at |-> at, no |-> n]
    OBVIOUS
  <2>4. hook[h].intent = i /\ hook[h].outcome = o
    BY <2>1
  <2> QED
    BY <2>2, <2>3, <2>4, Zenon
<1>4. [intent |-> hook[h].intent, outcome |-> hook[h].outcome, at |-> at, no |-> n] \in Hook
  <2>1. hook[h].intent \in Intents \cup {"hand"} /\ hook[h].outcome \in Outcomes
    BY <1>1 DEF Hook
  <2>2. at \in Steps /\ n \in Nat
    OBVIOUS
  <2> HIDE DEF Steps, Outcomes
  <2> QED
    BY <2>1, <2>2 DEF Hook
<1>5. DOMAIN hook' = Handlers /\ \A g \in Handlers : g # h => hook'[g] = hook[g]
  BY <1>1 DEF Go
<1>6. hook' = [g \in Handlers |-> hook'[g]]
  BY <1>1 DEF Go
<1>7. \A g \in Handlers : hook'[g] \in Hook
  BY <1>1, <1>2, <1>3, <1>4, <1>5
<1> QED
  BY <1>2, <1>3, <1>5, <1>6, <1>7

LEMMA FreeHook == Free \in Hook /\ Free.at = "done"
BY DEF Free, Hook, Outcomes, Steps

LEMMA RestJob == Rest \in Job /\ Rest.at = "rest" /\ ~Rest.fifo
BY DEF Rest, Task, Job, Stages, Statuses

LEMMA Releases ==
  ASSUME TypeOK, NEW h \in Handlers, Release(h)
  PROVE  /\ hook' \in [Handlers -> Hook] /\ hook'[h] = Free
         /\ \A g \in Handlers : g # h => hook'[g] = hook[g]
BY FreeHook DEF TypeOK, Release

\* One actor's job moves on.
LEMMA Jobs ==
  ASSUME TypeOK, NEW a \in Actors, NEW j \in Job, job' = [job EXCEPT ![a] = j]
  PROVE  job' \in [Actors -> Job] /\ job'[a] = j /\ \A b \in Actors : b # a => job'[b] = job[b]
BY DEF TypeOK

-----------------------------------------------------------------------
\* The fields of a job, and of a receipt.

LEMMA JobTypes ==
  ASSUME NEW j \in Job
  PROVE  /\ j.op \in {"none", "confirm", "cancel"} /\ j.no \in Nat /\ j.at \in Stages /\ j.was \in Statuses
         /\ j.plan \in Nat /\ j.fifo \in BOOLEAN /\ j.seen \in Nat /\ j.late \in BOOLEAN
BY DEF Job

LEMMA JobAt ==
  ASSUME NEW j \in Job, NEW at \in Stages, NEW k, k = [j EXCEPT !.at = at]
  PROVE  /\ k \in Job
         /\ k.op = j.op /\ k.no = j.no /\ k.at = at /\ k.was = j.was
         /\ k.plan = j.plan /\ k.fifo = j.fifo /\ k.seen = j.seen /\ k.late = j.late
BY DEF Job

LEMMA JobWas ==
  ASSUME NEW j \in Job, NEW was \in Statuses, NEW k, k = [j EXCEPT !.was = was]
  PROVE  /\ k \in Job
         /\ k.op = j.op /\ k.no = j.no /\ k.at = j.at /\ k.was = was
         /\ k.plan = j.plan /\ k.fifo = j.fifo /\ k.seen = j.seen /\ k.late = j.late
BY DEF Job

LEMMA JobPlan ==
  ASSUME NEW j \in Job, NEW plan \in Nat, NEW k, k = [j EXCEPT !.plan = plan]
  PROVE  /\ k \in Job
         /\ k.op = j.op /\ k.no = j.no /\ k.at = j.at /\ k.was = j.was
         /\ k.plan = plan /\ k.fifo = j.fifo /\ k.seen = j.seen /\ k.late = j.late
BY DEF Job

LEMMA JobFifo ==
  ASSUME NEW j \in Job, NEW fifo \in BOOLEAN, NEW k, k = [j EXCEPT !.fifo = fifo]
  PROVE  /\ k \in Job
         /\ k.op = j.op /\ k.no = j.no /\ k.at = j.at /\ k.was = j.was
         /\ k.plan = j.plan /\ k.fifo = fifo /\ k.seen = j.seen /\ k.late = j.late
BY DEF Job

LEMMA JobSeen ==
  ASSUME NEW j \in Job, NEW seen \in Nat, NEW k, k = [j EXCEPT !.seen = seen]
  PROVE  /\ k \in Job
         /\ k.op = j.op /\ k.no = j.no /\ k.at = j.at /\ k.was = j.was
         /\ k.plan = j.plan /\ k.fifo = j.fifo /\ k.seen = seen /\ k.late = j.late
BY DEF Job

LEMMA JobLate ==
  ASSUME NEW j \in Job, NEW k, k = [j EXCEPT !.late = TRUE]
  PROVE  /\ k \in Job
         /\ k.op = j.op /\ k.no = j.no /\ k.at = j.at /\ k.was = j.was
         /\ k.plan = j.plan /\ k.fifo = j.fifo /\ k.seen = j.seen /\ k.late
BY DEF Job


-----------------------------------------------------------------------
\* The books of the invoice.

Booked(rs) == [n \in DOMAIN rs |-> Counted(rs[n])]
Balanced(rs, out) == out + Total(Booked(rs), DOMAIN rs) = Bill

LEMMA BookedTyped ==
  ASSUME NEW rs \in Seq(Row)
  PROVE  /\ IsFiniteSet(DOMAIN rs) /\ \A n \in DOMAIN rs : Booked(rs)[n] \in Nat
         /\ Total(Booked(rs), DOMAIN rs) \in Nat
<1>1. Len(rs) \in Nat /\ DOMAIN rs = 1..Len(rs) /\ \A n \in DOMAIN rs : rs[n] \in Row
  OBVIOUS
<1>2. IsFiniteSet(DOMAIN rs)
  BY <1>1, FS_Interval
<1>3. \A n \in DOMAIN rs : Booked(rs)[n] \in Nat
  BY <1>1 DEF Booked, Counted, Row
<1> QED
  BY <1>2, <1>3, TotalNat

\* The total moves with the one receipt that is added or settled.
LEMMA BookedAppends ==
  ASSUME TypeOK, NEW v \in Row, receipts' = Append(receipts, v)
  PROVE  Total(Booked(receipts'), DOMAIN receipts')
           = Total(Booked(receipts), DOMAIN receipts) + Counted(v)
<1> DEFINE k == Len(receipts) + 1
           f == Booked(receipts)
           g == Booked(receipts')
<1>1. /\ receipts' \in Seq(Row) /\ DOMAIN receipts' = DOMAIN receipts \cup {k} /\ k \notin DOMAIN receipts
      /\ receipts'[k] = v /\ \A n \in DOMAIN receipts : receipts'[n] = receipts[n]
  BY Appends
<1>2. IsFiniteSet(DOMAIN receipts') /\ \A n \in DOMAIN receipts' : g[n] \in Nat
  BY <1>1, BookedTyped
<1>3. g[k] = Counted(v) /\ \A n \in DOMAIN receipts : f[n] = g[n]
  BY <1>1 DEF Booked
<1>4. Total(f, DOMAIN receipts) \in Nat
  BY BookedTyped DEF TypeOK
<1> HIDE DEF f, g, k
<1>5. Total(g, DOMAIN receipts') = g[k] + Total(g, DOMAIN receipts' \ {k})
  BY <1>1, <1>2, TotalSplit
<1>6. DOMAIN receipts' \ {k} = DOMAIN receipts
  BY <1>1
<1>7. Total(f, DOMAIN receipts) = Total(g, DOMAIN receipts)
  BY <1>3, TotalSame
<1>8. g[k] \in Nat
  BY <1>1, <1>2
<1>9. Total(g, DOMAIN receipts') = Total(f, DOMAIN receipts) + g[k]
  BY <1>4, <1>5, <1>6, <1>7, <1>8
<1> QED
  BY <1>3, <1>9 DEF f, g, k

LEMMA BookedSets ==
  ASSUME TypeOK, NEW n \in DOMAIN receipts, NEW v \in Row, receipts' = [receipts EXCEPT ![n] = v],
         v.intent = receipts[n].intent, v.status # "draft"
  PROVE  Total(Booked(receipts'), DOMAIN receipts') + Counted(receipts[n])
           = Total(Booked(receipts), DOMAIN receipts) + Counted(v)
<1> DEFINE f == Booked(receipts)
           g == Booked(receipts')
           S == DOMAIN receipts
<1>1. /\ receipts' \in Seq(Row) /\ DOMAIN receipts' = S /\ receipts'[n] = v
      /\ \A m \in S : m # n => receipts'[m] = receipts[m]
  BY Sets
<1>2. IsFiniteSet(S) /\ \A m \in S : f[m] \in Nat
  BY BookedTyped DEF TypeOK
<1>3. \A m \in S : g[m] \in Nat
  BY <1>1, BookedTyped
<1>4. \A m \in S \ {n} : f[m] = g[m]
  BY <1>1 DEF Booked
<1>5. f[n] = Counted(receipts[n]) /\ g[n] = Counted(v)
  BY <1>1 DEF Booked
<1> HIDE DEF f, g
<1>6. Total(g, S) + f[n] = Total(f, S) + g[n]
  BY <1>2, <1>3, <1>4, TotalMoves
<1> QED
  BY <1>1, <1>5, <1>6 DEF f, g

LEMMA BalancedIsConserved == InvoiceConserved <=> crossed \/ Balanced(receipts, outstanding)
BY DEF InvoiceConserved, Balanced, Booked, Counted

LEMMA BalancedIsConservedNext == InvoiceConserved' <=> crossed' \/ Balanced(receipts', outstanding')
BY DEF InvoiceConserved, Balanced, Booked, Counted

-----------------------------------------------------------------------
\* The parts of the invariant under a step of one actor.

\* An accepted success keeps its receipt, and a new one has it.
LEMMA StaysConfirmed ==
  ASSUME GatewayInv, Grown, byRetailer \subseteq byRetailer',
         \A i \in Intents \ byRetailer' :
           i \in handled' =>
             \/ i \in handled
             \/ \E n \in DOMAIN receipts' : receipts'[n].intent = i /\ receipts'[n].status # "draft"
  PROVE  ProcessedIsConfirmed'
<1> SUFFICES ASSUME NEW i \in Intents, i \notin byRetailer', i \in handled'
             PROVE  \E n \in DOMAIN receipts' : receipts'[n].intent = i /\ receipts'[n].status # "draft"
  BY DEF ProcessedIsConfirmed, Settled, ReceiptsOf
<1>1. CASE i \in handled
  <2>1. PICK n \in DOMAIN receipts : receipts[n].intent = i /\ receipts[n].status # "draft"
    BY <1>1 DEF GatewayInv, ProcessedIsConfirmed, Settled, ReceiptsOf
  <2> QED
    BY <2>1 DEF Grown
<1> QED
  BY <1>1

\* The handlers that do not move keep their meaning as receipts grow.
LEMMA AllMeant ==
  ASSUME GatewayInv, Grown, NEW a \in Actors,
         \A b \in Actors : b # a => job'[b] = job[b] \/ job'[b] = [job[b] EXCEPT !.late = TRUE],
         \A h \in Handlers : h # a => hook'[h] = hook[h],
         a \in Handlers => HookMeant(hook'[a], job'[a], receipts')
  PROVE  HooksMeant'
<1> SUFFICES ASSUME NEW h \in Handlers PROVE HookMeant(hook'[h], job'[h], receipts')
  BY DEF HooksMeant
<1>1. CASE h = a
  BY <1>1
<1>2. CASE h # a
  <2>1. h \in Actors /\ job[h] \in Job /\ HookMeant(hook[h], job[h], receipts) /\ hook'[h] = hook[h]
    BY <1>2 DEF Actors, GatewayInv, TypeOK, HooksMeant
  <2>2. job'[h].at = job[h].at /\ job'[h].op = job[h].op /\ job'[h].no = job[h].no
    <3> PICK k : k = [job[h] EXCEPT !.late = TRUE]
      OBVIOUS
    <3>1. k.at = job[h].at /\ k.op = job[h].op /\ k.no = job[h].no
      BY <2>1, JobLate
    <3>2. job'[h] = job[h] \/ job'[h] = k
      BY <1>2, <2>1
    <3> QED
      BY <3>1, <3>2
  <2> QED
    BY <2>1, <2>2 DEF HookMeant, Grown
<1> QED
  BY <1>1, <1>2

\* The one handler of an intent moves on, lets go, or is a new one for it.
LEMMA OneHandlerStays ==
  ASSUME OneHandler, NEW a, \A g \in Handlers : g # a => hook'[g] = hook[g],
         a \in Handlers /\ hook'[a].at # "done" =>
           \/ hook[a].at # "done" /\ hook'[a].intent = hook[a].intent
           \/ \A g \in Handlers : hook[g].intent # hook'[a].intent
  PROVE  OneHandler'
<1> SUFFICES ASSUME NEW f \in Handlers, NEW g \in Handlers,
                    hook'[f].at # "done", hook'[g].at # "done", hook'[f].intent = hook'[g].intent, f # g
             PROVE  FALSE
  BY DEF OneHandler
<1>1. CASE f = a
  BY <1>1 DEF OneHandler
<1>2. CASE g = a
  BY <1>2 DEF OneHandler
<1>3. CASE f # a /\ g # a
  BY <1>3 DEF OneHandler
<1> QED
  BY <1>1, <1>2, <1>3

\* A handler moves while the receipts keep their intents.
LEMMA TurnsKept ==
  ASSUME GatewayInv, apart' = apart, NEW a, \A g \in Handlers : g # a => hook'[g] = hook[g],
         apart /\ a \in Handlers /\ hook'[a].at # "done" =>
           \/ hook[a].at # "done" /\ hook'[a].intent = hook[a].intent
           \/ \A g \in Handlers : hook[g].intent # hook'[a].intent,
         DOMAIN receipts' = DOMAIN receipts,
         \A n \in DOMAIN receipts : receipts'[n].intent = receipts[n].intent,
         apart /\ a \in Handlers /\ hook'[a].at \in {"checked", "numbered"} =>
           ReceiptsOf(hook'[a].intent) = {}
  PROVE  InTurn'
<1> SUFFICES ASSUME apart PROVE OneHandler' /\ NoneWhileDrawing' /\ OneEach'
  BY DEF InTurn
<1>1. OneHandler /\ NoneWhileDrawing /\ OneEach
  BY DEF GatewayInv, InTurn
<1>2. OneHandler'
  BY <1>1, OneHandlerStays
<1>3. OneEach'
  BY <1>1 DEF OneEach
<1>4. ASSUME NEW g \in Handlers, hook'[g].at \in {"checked", "numbered"}
      PROVE  \A n \in DOMAIN receipts' : receipts'[n].intent # hook'[g].intent
  <2>1. ReceiptsOf(hook'[g].intent) = {}
    BY <1>1, <1>4 DEF NoneWhileDrawing
  <2> QED
    BY <2>1 DEF ReceiptsOf
<1>5. NoneWhileDrawing'
  BY <1>4 DEF NoneWhileDrawing, ReceiptsOf
<1> QED
  BY <1>2, <1>3, <1>5

-----------------------------------------------------------------------
\* Steps that leave the receipts and the invoice alone.

LEMMA ActorSteps ==
  ASSUME GatewayInv, UNCHANGED <<chosen, books>>, NEW a \in Actors,
         job' \in [Actors -> Job], \A b \in Actors : b # a => job'[b] = job[b],
         hook' \in [Handlers -> Hook], \A h \in Handlers : h # a => hook'[h] = hook[h],
         JobMeant(job'[a], receipts, outstanding),
         a \in Handlers => HookMeant(hook'[a], job'[a], receipts),
         apart /\ a \in Handlers /\ hook'[a].at # "done" =>
           \/ hook[a].at # "done" /\ hook'[a].intent = hook[a].intent
           \/ \A g \in Handlers : hook[g].intent # hook'[a].intent,
         apart /\ a \in Handlers /\ hook'[a].at \in {"checked", "numbered"} =>
           ReceiptsOf(hook'[a].intent) = {},
         \A i \in Intents \ byRetailer :
           i \in handled' =>
             \/ i \in handled
             \/ \E n \in ReceiptsOf(i) : receipts[n].status # "draft"
  PROVE  GatewayInv'
<1>1. /\ receipts' = receipts /\ outstanding' = outstanding /\ crossed' = crossed
      /\ apart' = apart /\ byRetailer' = byRetailer /\ target' = target
  BY DEF chosen, books
<1>2. Grown
  BY <1>1 DEF Grown
<1>3. TypeOK'
  BY <1>1 DEF GatewayInv, TypeOK
<1>4. HooksMeant'
  BY <1>1, <1>2, AllMeant
<1>5. ASSUME NEW b \in Actors PROVE JobMeant(job'[b], receipts', outstanding')
  BY <1>1 DEF GatewayInv, JobsMeant
<1>6. JobsMeant'
  BY <1>5 DEF JobsMeant
<1>7. InTurn'
  BY <1>1, TurnsKept
<1>8. \A i \in Intents \ byRetailer' :
        i \in handled' =>
          \/ i \in handled
          \/ \E n \in DOMAIN receipts' : receipts'[n].intent = i /\ receipts'[n].status # "draft"
  BY <1>1 DEF ReceiptsOf
<1>9. ProcessedIsConfirmed'
  BY <1>1, <1>2, <1>8, StaysConfirmed
<1>10. InvoiceConserved'
  BY <1>1 DEF GatewayInv, InvoiceConserved
<1> QED
  BY <1>3, <1>4, <1>6, <1>7, <1>9, <1>10 DEF GatewayInv

LEMMA IntentSteps ==
  ASSUME GatewayInv, UNCHANGED <<apart, books, hook, job, handled>>,
         target' \in [Intents -> Nat], byRetailer \subseteq byRetailer'
  PROVE  GatewayInv'
<1>1. receipts' = receipts /\ outstanding' = outstanding /\ crossed' = crossed
  BY DEF books
<1>2. Grown
  BY <1>1 DEF Grown
<1>3. TypeOK'
  BY <1>1 DEF GatewayInv, TypeOK
<1>4. HooksMeant' /\ JobsMeant'
  BY <1>1 DEF GatewayInv, HooksMeant, JobsMeant
<1>5. InTurn'
  BY <1>1 DEF GatewayInv, InTurn, OneHandler, NoneWhileDrawing, OneEach, ReceiptsOf
<1>6. ProcessedIsConfirmed'
  BY <1>2, StaysConfirmed
<1>7. InvoiceConserved'
  BY <1>1 DEF GatewayInv, InvoiceConserved
<1> QED
  BY <1>3, <1>4, <1>5, <1>6, <1>7 DEF GatewayInv

LEMMA IntentActions ==
  ASSUME GatewayInv, NEW i \in Intents
  PROVE  /\ CancelIntent(i) \/ ExpireIntent(i) \/ Capture(i) => (UNCHANGED chosen => GatewayInv')
         /\ \A n \in 0..Bill, c \in {{}, {i}} : CreateIntent(i, n, c) /\ apart' = apart => GatewayInv'
<1>1. ASSUME CancelIntent(i) \/ ExpireIntent(i) \/ Capture(i), UNCHANGED chosen PROVE GatewayInv'
  <2>1. UNCHANGED <<apart, target, byRetailer, books, hook, job, handled>>
    BY <1>1 DEF CancelIntent, ExpireIntent, Capture, chosen
  <2> QED
    BY <2>1, IntentSteps DEF GatewayInv, TypeOK
<1>2. ASSUME NEW n \in 0..Bill, NEW c \in {{}, {i}}, CreateIntent(i, n, c), apart' = apart PROVE GatewayInv'
  <2>1. n \in Nat
    BY GatewayAssumption
  <2>2. target' \in [Intents -> Nat]
    BY <1>2, <2>1 DEF CreateIntent, GatewayInv, TypeOK
  <2>3. UNCHANGED <<apart, books, hook, job, handled>> /\ byRetailer \subseteq byRetailer'
    BY <1>2 DEF CreateIntent
  <2> QED
    BY <2>2, <2>3, IntentSteps
<1> QED
  BY <1>1, <1>2

-----------------------------------------------------------------------
\* Deliveries, and the handlers that write no receipt.

AtRest(j) == j.at = "rest" /\ ~j.fifo

\* A handler moves on, its job left alone at rest.
LEMMA HandlerSteps ==
  ASSUME GatewayInv, UNCHANGED <<chosen, books>>, NEW h \in Handlers,
         job' \in [Actors -> Job], \A b \in Actors : b # h => job'[b] = job[b], AtRest(job'[h]),
         hook' \in [Handlers -> Hook], \A g \in Handlers : g # h => hook'[g] = hook[g],
         hook'[h].at # "done" => hook'[h].intent \in Intents,
         hook'[h].at \in {"marked", "checked", "numbered", "confirming"} => hook'[h].outcome = "success",
         hook'[h].at = "closing" => hook'[h].outcome = "failed",
         apart /\ hook'[h].at # "done" =>
           \/ hook[h].at # "done" /\ hook'[h].intent = hook[h].intent
           \/ \A g \in Handlers : hook[g].intent # hook'[h].intent,
         apart /\ hook'[h].at \in {"checked", "numbered"} => ReceiptsOf(hook'[h].intent) = {},
         \A i \in Intents \ byRetailer :
           i \in handled' =>
             \/ i \in handled
             \/ \E n \in ReceiptsOf(i) : receipts[n].status # "draft"
  PROVE  GatewayInv'
<1>1. h \in Actors
  BY DEF Actors
<1>2. JobMeant(job'[h], receipts, outstanding)
  BY DEF JobMeant, Reading, AtRest
<1>3. HookMeant(hook'[h], job'[h], receipts)
  BY DEF HookMeant, AtRest
<1> QED
  BY <1>1, <1>2, <1>3, ActorSteps

\* A handler without a receipt has no job.
LEMMA NoJob ==
  ASSUME GatewayInv, NEW h \in Handlers, hook[h].at # "confirming"
  PROVE  AtRest(job[h])
BY DEF GatewayInv, HooksMeant, HookMeant, JobsMeant, JobMeant, AtRest, Actors

LEMMA SameJob ==
  ASSUME GatewayInv, job' = job
  PROVE  job' \in [Actors -> Job] /\ \A b \in Actors : job'[b] = job[b]
BY DEF GatewayInv, TypeOK

LEMMA Delivers ==
  ASSUME GatewayInv, NEW h \in Handlers, NEW i \in Intents, NEW o \in Outcomes, Deliver(h, i, o), UNCHANGED chosen
  PROVE  GatewayInv'
<1> DEFINE r == [intent |-> i, outcome |-> o, at |-> "stored", no |-> 0]
<1>1. r \in Hook
  BY DEF Hook, Steps
<1>2. r.at = "stored" /\ r.intent = i
  OBVIOUS
<1>3. hook' = [hook EXCEPT ![h] = r] /\ hook \in [Handlers -> Hook] /\ hook[h].at = "done"
  BY DEF Deliver, Working, GatewayInv, TypeOK
<1> HIDE DEF r
<1>4. hook' \in [Handlers -> Hook] /\ hook'[h] = r /\ \A g \in Handlers : g # h => hook'[g] = hook[g]
  BY <1>1, <1>3
<1>5. UNCHANGED <<books, job, handled>> /\ (apart => \A g \in Handlers : hook[g].intent # i)
  BY DEF Deliver
<1>6. /\ job' \in [Actors -> Job] /\ \A b \in Actors : b # h => job'[b] = job[b]
      /\ AtRest(job'[h])
  BY <1>3, <1>5, SameJob, NoJob
<1> QED
  BY <1>2, <1>4, <1>5, <1>6, HandlerSteps

\* A handler that lets go.
LEMMA LetsGo ==
  ASSUME GatewayInv, UNCHANGED <<chosen, books>>, NEW h \in Handlers, Release(h),
         job' = [job EXCEPT ![h] = Rest] \/ (job' = job /\ hook[h].at # "confirming"),
         \A i \in Intents \ byRetailer :
           i \in handled' =>
             \/ i \in handled
             \/ \E n \in ReceiptsOf(i) : receipts[n].status # "draft"
  PROVE  GatewayInv'
<1>1. hook' \in [Handlers -> Hook] /\ hook'[h] = Free /\ \A g \in Handlers : g # h => hook'[g] = hook[g]
  BY Releases DEF GatewayInv
<1>2. /\ job' \in [Actors -> Job] /\ \A b \in Actors : b # h => job'[b] = job[b]
      /\ AtRest(job'[h])
  <2>1. CASE job' = job /\ hook[h].at # "confirming"
    BY <2>1, SameJob, NoJob
  <2>2. CASE job' = [job EXCEPT ![h] = Rest]
    BY <2>2, Jobs, RestJob DEF GatewayInv, Actors, AtRest
  <2> QED
    BY <2>1, <2>2
<1> QED
  BY <1>1, <1>2, FreeHook, HandlerSteps

LEMMA Fails ==
  ASSUME GatewayInv, UNCHANGED chosen, NEW h \in Handlers,
         Die(h) \/ (Fail(h) /\ hook[h].at # "confirming")
  PROVE  GatewayInv'
BY LetsGo DEF Fail, Die

LEMMA Processes ==
  ASSUME GatewayInv, UNCHANGED chosen, NEW h \in Handlers, Process(h), hook[h].at # "confirming",
         hook[h].outcome = "success" =>
           \E n \in ReceiptsOf(hook[h].intent) : receipts[n].status # "draft"
  PROVE  GatewayInv'
<1>1. \A i \in handled' : i \in handled \/ (hook[h].outcome = "success" /\ i = hook[h].intent)
  BY DEF Process
<1>2. ASSUME NEW i \in Intents \ byRetailer, i \in handled', i \notin handled
      PROVE  \E n \in ReceiptsOf(i) : receipts[n].status # "draft"
  BY <1>1, <1>2
<1> QED
  BY <1>2, LetsGo DEF Process

\* A handler that goes on without a job.
LEMMA GoesOn ==
  ASSUME GatewayInv, UNCHANGED <<chosen, books, job, handled>>, NEW h \in Handlers,
         NEW at \in Steps \ {"done", "stored", "confirming"}, NEW n \in Nat, Go(h, at, n),
         hook[h].at \notin {"done", "confirming"},
         IF at = "closing" THEN hook[h].outcome = "failed" ELSE hook[h].outcome = "success",
         apart /\ at \in {"checked", "numbered"} => ReceiptsOf(hook[h].intent) = {}
  PROVE  GatewayInv'
<1> DEFINE r == [intent |-> hook[h].intent, outcome |-> hook[h].outcome, at |-> at, no |-> n]
<1>1. hook' \in [Handlers -> Hook] /\ hook'[h] = r /\ \A g \in Handlers : g # h => hook'[g] = hook[g]
  BY Goes DEF GatewayInv
<1>2. r.intent = hook[h].intent /\ r.outcome = hook[h].outcome /\ r.at = at
  OBVIOUS
<1> HIDE DEF r
<1>3. hook[h].intent \in Intents
  BY DEF GatewayInv, HooksMeant, HookMeant
<1>4. /\ job' \in [Actors -> Job] /\ \A b \in Actors : b # h => job'[b] = job[b]
      /\ AtRest(job'[h])
  BY SameJob, NoJob DEF Actors
<1> QED
  BY <1>1, <1>2, <1>3, <1>4, HandlerSteps

\* A handler that takes up the confirmation of a draft it found.
LEMMA TakesUp ==
  ASSUME GatewayInv, UNCHANGED chosen, NEW h \in Handlers, NEW n \in DOMAIN receipts, FindUnconfirmed(h, n)
  PROVE  GatewayInv'
<1> DEFINE r == [intent |-> hook[h].intent, outcome |-> hook[h].outcome, at |-> "confirming", no |-> 0]
           j == Begun("confirm", n)
<1>1. /\ hook[h].at = "marked" /\ receipts[n].intent = hook[h].intent
      /\ Go(h, "confirming", 0) /\ job' = [job EXCEPT ![h] = j] /\ UNCHANGED <<books, handled>>
  BY DEF FindUnconfirmed, Working, ReceiptsOf
<1>2. hook' \in [Handlers -> Hook] /\ hook'[h] = r /\ \A g \in Handlers : g # h => hook'[g] = hook[g]
  <2>1. "confirming" \in Steps
    BY DEF Steps
  <2> QED
    BY <1>1, <2>1, Goes DEF GatewayInv
<1>3. r.intent = hook[h].intent /\ r.outcome = hook[h].outcome /\ r.at = "confirming"
  OBVIOUS
<1>4. n \in Nat /\ h \in Actors
  BY Receipts DEF GatewayInv, Actors
<1>5. j \in Job /\ j.op = "confirm" /\ j.no = n /\ j.at = "called" /\ ~j.fifo
  BY <1>4 DEF Begun, Task, Job, Stages, Statuses
<1> HIDE DEF r, j
<1>6. job' \in [Actors -> Job] /\ job'[h] = j /\ \A b \in Actors : b # h => job'[b] = job[b]
  BY <1>1, <1>4, <1>5, Jobs DEF GatewayInv
<1>7. JobMeant(j, receipts, outstanding)
  BY <1>5 DEF JobMeant, Reading
<1>8. hook[h].intent \in Intents /\ hook[h].outcome = "success"
  BY <1>1 DEF GatewayInv, HooksMeant, HookMeant
<1>9. HookMeant(r, j, receipts)
  BY <1>1, <1>3, <1>5, <1>8 DEF HookMeant
<1> QED
  BY <1>1, <1>2, <1>3, <1>4, <1>6, <1>7, <1>9, ActorSteps

\* Looking for a receipt, drawing a number and failing write nothing down.
LEMMA HandlerReads ==
  ASSUME GatewayInv, UNCHANGED chosen, NEW h \in Handlers,
         \/ MarkSuccess(h) \/ MarkFailure(h) \/ ProcessPending(h) \/ ProcessFailure(h)
         \/ FindNone(h) \/ DrawNumber(h) \/ CreateFails(h)
         \/ \E n \in DOMAIN receipts : FindConfirmed(h, n) \/ FindUnconfirmed(h, n) \/ FindUnconfirmable(h, n)
  PROVE  GatewayInv'
<1>0. /\ {"marked", "closing", "checked", "numbered"} \subseteq Steps \ {"done", "stored", "confirming"}
      /\ 0 \in Nat /\ Len(receipts) + 1 \in Nat
  BY Receipts DEF Steps, GatewayInv
<1>1. /\ hook[h].at \in {"marked", "checked", "numbered", "confirming"} => hook[h].outcome = "success"
      /\ hook[h].at = "closing" => hook[h].outcome = "failed"
      /\ apart /\ hook[h].at \in {"checked", "numbered"} => ReceiptsOf(hook[h].intent) = {}
  BY DEF GatewayInv, HooksMeant, HookMeant, InTurn, NoneWhileDrawing
<1>2. CASE MarkSuccess(h)
  BY <1>0, <1>2, GoesOn DEF MarkSuccess, Working
<1>3. CASE MarkFailure(h)
  BY <1>0, <1>3, GoesOn DEF MarkFailure, Working
<1>4. CASE ProcessPending(h) \/ ProcessFailure(h)
  BY <1>1, <1>4, Processes DEF ProcessPending, ProcessFailure, Working
<1>5. CASE FindNone(h)
  BY <1>0, <1>1, <1>5, GoesOn DEF FindNone, Working
<1>6. CASE DrawNumber(h)
  BY <1>0, <1>1, <1>6, GoesOn DEF DrawNumber, Working
<1>7. CASE CreateFails(h)
  BY <1>7, Fails DEF CreateFails, Working
<1>8. ASSUME NEW n \in DOMAIN receipts, FindConfirmed(h, n) PROVE GatewayInv'
  <2>1. n \in ReceiptsOf(hook[h].intent) /\ receipts[n].status # "draft" /\ hook[h].at = "marked"
    BY <1>8 DEF FindConfirmed, Working
  <2> QED
    BY <1>8, <2>1, Processes DEF FindConfirmed
<1>9. ASSUME NEW n \in DOMAIN receipts, FindUnconfirmed(h, n) PROVE GatewayInv'
  BY <1>9, TakesUp
<1>10. ASSUME NEW n \in DOMAIN receipts, FindUnconfirmable(h, n) PROVE GatewayInv'
  BY <1>10, Fails DEF FindUnconfirmable, Working
<1> QED
  BY <1>2, <1>3, <1>4, <1>5, <1>6, <1>7, <1>8, <1>9, <1>10

-----------------------------------------------------------------------
\* Confirmations and cancellations that read, come back or throw.

\* A job moves on, whoever has it.
LEMMA JobMoves ==
  ASSUME GatewayInv, UNCHANGED chosen, NEW a \in Actors, NEW j \in Job, Move(a, j),
         JobMeant(j, receipts, outstanding),
         IF a \in Handlers THEN j.op = job[a].op /\ j.no = job[a].no /\ job[a].at # "rest" ELSE TRUE
  PROVE  GatewayInv'
<1>1. job' = [job EXCEPT ![a] = j] /\ UNCHANGED <<books, hook, handled>>
  BY DEF Move
<1>2. job' \in [Actors -> Job] /\ job'[a] = j /\ \A b \in Actors : b # a => job'[b] = job[b]
  BY <1>1, Jobs DEF GatewayInv
<1>3. hook' \in [Handlers -> Hook] /\ hook' = hook
  BY <1>1 DEF GatewayInv, TypeOK
<1>4. ASSUME a \in Handlers PROVE HookMeant(hook'[a], j, receipts)
  <2>1. HookMeant(hook[a], job[a], receipts)
    BY <1>4 DEF GatewayInv, HooksMeant
  <2> QED
    BY <1>3, <1>4, <2>1 DEF HookMeant
<1>5. apart /\ a \in Handlers /\ hook'[a].at \in {"checked", "numbered"} =>
        ReceiptsOf(hook'[a].intent) = {}
  BY <1>3 DEF GatewayInv, InTurn, NoneWhileDrawing
<1>6. apart /\ a \in Handlers /\ hook'[a].at # "done" =>
        hook[a].at # "done" /\ hook'[a].intent = hook[a].intent
  BY <1>3
<1> QED
  BY <1>1, <1>2, <1>3, <1>4, <1>5, <1>6, ActorSteps

\* What an actor with a job has, and what it reads.
LEMMA Having ==
  ASSUME GatewayInv, NEW a \in Actors, job[a].at # "rest"
  PROVE  /\ job[a] \in Job /\ job[a].op \in {"confirm", "cancel"} /\ job[a].no \in DOMAIN receipts
         /\ Receipt(a) = receipts[job[a].no] /\ Receipt(a) \in Row
         /\ Receipt(a).status \in Statuses
         /\ Receipt(a).amount \in Nat /\ Receipt(a).pays \in Nat /\ outstanding \in Nat
         /\ JobMeant(job[a], receipts, outstanding)
<1>1. job[a] \in Job /\ outstanding \in Nat
  BY DEF GatewayInv, TypeOK
<1>2. JobMeant(job[a], receipts, outstanding)
  BY DEF GatewayInv, JobsMeant
<1>3. job[a].no \in DOMAIN receipts /\ job[a].op \in {"confirm", "cancel"}
  BY <1>2 DEF JobMeant
<1>4. receipts[job[a].no] \in Row
  BY <1>3, Receipts DEF GatewayInv
<1> QED
  BY <1>1, <1>2, <1>3, <1>4 DEF Receipt, Row

LEMMA Looks ==
  ASSUME GatewayInv, UNCHANGED chosen, NEW a \in Actors,
         \/ LookAtDraft(a) \/ ReopenReceipt(a) \/ ReadAllocations(a) \/ LookAtReceipt(a)
         \/ ReadCancelled(a) \/ ReadInvoice(a)
  PROVE  GatewayInv'
<1> DEFINE j == job[a]
           r == Receipt(a)
<1>1. j.at # "rest"
  BY DEF LookAtDraft, ReopenReceipt, ReadAllocations, LookAtReceipt, ReadCancelled, ReadInvoice, At
<1>2. /\ j \in Job /\ j.op \in {"confirm", "cancel"} /\ j.no \in DOMAIN receipts /\ r = receipts[j.no]
      /\ r.status \in Statuses /\ r.pays \in Nat /\ outstanding \in Nat
      /\ JobMeant(j, receipts, outstanding)
  BY <1>1, Having
<1>3. j.plan \in Nat /\ j.late \in BOOLEAN /\ j.was \in Statuses
  BY <1>2, JobTypes
<1>4. {"begun", "opened", "planned", "paying"} \subseteq Stages /\ "draft" \in Statuses
  BY DEF Stages, Statuses
<1> HIDE DEF r
<1>5. CASE LookAtDraft(a)
  <2>0. PICK k : k = [j EXCEPT !.at = "begun"]
    OBVIOUS
  <2>1. Move(a, k) /\ j.op = "confirm" /\ j.at = "called" /\ r.status = "draft"
    BY <1>5, <2>0 DEF LookAtDraft, At, r
  <2>2. /\ k \in Job /\ k.op = j.op /\ k.no = j.no
        /\ k.at = "begun" /\ k.plan = j.plan /\ k.fifo = j.fifo /\ k.seen = j.seen /\ k.late = j.late
    BY <1>2, <1>4, <2>0, JobAt
  <2>3. JobMeant(k, receipts, outstanding)
    BY <1>2, <1>3, <2>1, <2>2 DEF JobMeant, Current, Reading
  <2> QED
    BY <1>1, <2>1, <2>2, <2>3, JobMoves
<1>6. CASE ReopenReceipt(a)
  <2>0. PICK k : k = [j EXCEPT !.at = "opened"]
    OBVIOUS
  <2>1. Move(a, k) /\ j.op = "confirm" /\ j.at = "begun"
    BY <1>6, <2>0 DEF ReopenReceipt, At, r
  <2>2. /\ k \in Job /\ k.op = j.op /\ k.no = j.no
        /\ k.at = "opened" /\ k.plan = j.plan /\ k.fifo = j.fifo /\ k.seen = j.seen /\ k.late = j.late
    BY <1>2, <1>4, <2>0, JobAt
  <2>3. JobMeant(k, receipts, outstanding)
    BY <1>2, <1>3, <2>1, <2>2 DEF JobMeant, Current, Reading
  <2> QED
    BY <1>1, <2>1, <2>2, <2>3, JobMoves
<1>7. CASE ReadAllocations(a)
  <2>c. j \in Job /\ "planned" \in Stages /\ r.pays \in Nat
    BY <1>2, <1>4
  <2>e. PICK k1 : k1 = [j EXCEPT !.at = "planned"]
    OBVIOUS
  <2>e1. /\ k1 \in Job
        /\ k1.op = j.op /\ k1.no = j.no /\ k1.at = "planned" /\ k1.was = j.was
        /\ k1.plan = j.plan /\ k1.fifo = j.fifo /\ k1.seen = j.seen /\ k1.late = j.late
    BY <2>c, <2>e, JobAt
  <2>f. PICK k : k = [k1 EXCEPT !.plan = r.pays]
    OBVIOUS
  <2>f1. /\ k \in Job
        /\ k.op = k1.op /\ k.no = k1.no /\ k.at = k1.at /\ k.was = k1.was
        /\ k.plan = r.pays /\ k.fifo = k1.fifo /\ k.seen = k1.seen /\ k.late = k1.late
    BY <2>c, <2>e1, <2>f, JobPlan
  <2>0. k = [j EXCEPT !.at = "planned", !.plan = r.pays]
    BY <2>e, <2>f
  <2>1. Move(a, k) /\ j.op = "confirm" /\ j.at = "opened"
    BY <1>7, <2>0 DEF ReadAllocations, At, r
  <2>2. /\ k \in Job /\ k.op = j.op /\ k.no = j.no
        /\ k.at = "planned" /\ k.plan = r.pays /\ k.fifo = j.fifo /\ k.seen = j.seen /\ k.late = j.late
    BY <2>e1, <2>f1
  <2>3. JobMeant(k, receipts, outstanding)
    BY <1>2, <1>3, <2>1, <2>2 DEF JobMeant, Current, Reading
  <2> QED
    BY <1>1, <2>1, <2>2, <2>3, JobMoves
<1>8. CASE LookAtReceipt(a)
  <2>c. j \in Job /\ "begun" \in Stages /\ r.status \in Statuses
    BY <1>2, <1>4
  <2>e. PICK k1 : k1 = [j EXCEPT !.at = "begun"]
    OBVIOUS
  <2>e1. /\ k1 \in Job
        /\ k1.op = j.op /\ k1.no = j.no /\ k1.at = "begun" /\ k1.was = j.was
        /\ k1.plan = j.plan /\ k1.fifo = j.fifo /\ k1.seen = j.seen /\ k1.late = j.late
    BY <2>c, <2>e, JobAt
  <2>f. PICK k : k = [k1 EXCEPT !.was = r.status]
    OBVIOUS
  <2>f1. /\ k \in Job
        /\ k.op = k1.op /\ k.no = k1.no /\ k.at = k1.at /\ k.was = r.status
        /\ k.plan = k1.plan /\ k.fifo = k1.fifo /\ k.seen = k1.seen /\ k.late = k1.late
    BY <2>c, <2>e1, <2>f, JobWas
  <2>0. k = [j EXCEPT !.at = "begun", !.was = r.status]
    BY <2>e, <2>f
  <2>1. Move(a, k) /\ j.op = "cancel" /\ j.at = "called" /\ r.status # "cancelled"
    BY <1>8, <2>0 DEF LookAtReceipt, At, r
  <2>2. /\ k \in Job /\ k.op = j.op /\ k.no = j.no
        /\ k.at = "begun" /\ k.was = r.status /\ k.plan = j.plan /\ k.fifo = j.fifo /\ k.late = j.late
    BY <2>e1, <2>f1
  <2>3. JobMeant(k, receipts, outstanding)
    BY <1>2, <1>3, <2>1, <2>2 DEF JobMeant, Current, Reading
  <2> QED
    BY <1>1, <2>1, <2>2, <2>3, JobMoves
<1>9. CASE ReadCancelled(a)
  <2> DEFINE back == IF j.was = "confirmed" THEN r.pays ELSE 0
             at == IF back > 0 THEN "planned" ELSE "paying"
  <2>a. /\ back \in Nat /\ at \in Stages /\ at \in {"planned", "paying"} /\ (at = "paying" => back = 0)
        /\ back = IF j.was = "confirmed" THEN r.pays ELSE 0
    BY <1>2, <1>4
  <2>c. j \in Job /\ at \in Stages /\ "draft" \in Statuses /\ back \in Nat
    BY <1>2, <1>4
  <2>e. PICK k1 : k1 = [j EXCEPT !.at = at]
    OBVIOUS
  <2>e1. /\ k1 \in Job
        /\ k1.op = j.op /\ k1.no = j.no /\ k1.at = at /\ k1.was = j.was
        /\ k1.plan = j.plan /\ k1.fifo = j.fifo /\ k1.seen = j.seen /\ k1.late = j.late
    BY <2>c, <2>e, JobAt
  <2>f. PICK k2 : k2 = [k1 EXCEPT !.was = "draft"]
    OBVIOUS
  <2>f1. /\ k2 \in Job
        /\ k2.op = k1.op /\ k2.no = k1.no /\ k2.at = k1.at /\ k2.was = "draft"
        /\ k2.plan = k1.plan /\ k2.fifo = k1.fifo /\ k2.seen = k1.seen /\ k2.late = k1.late
    BY <2>c, <2>e1, <2>f, JobWas
  <2>g. PICK k : k = [k2 EXCEPT !.plan = back]
    OBVIOUS
  <2>g1. /\ k \in Job
        /\ k.op = k2.op /\ k.no = k2.no /\ k.at = k2.at /\ k.was = k2.was
        /\ k.plan = back /\ k.fifo = k2.fifo /\ k.seen = k2.seen /\ k.late = k2.late
    BY <2>c, <2>f1, <2>g, JobPlan
  <2>0. k = [j EXCEPT !.at = at, !.was = "draft", !.plan = back]
    BY <2>e, <2>f, <2>g
  <2>1. Move(a, k) /\ j.op = "cancel" /\ j.at = "begun"
    BY <1>9, <2>0 DEF ReadCancelled, At, r
  <2> HIDE DEF back, at
  <2>2. /\ k \in Job /\ k.op = j.op /\ k.no = j.no
        /\ k.at = at /\ k.plan = back /\ k.fifo = j.fifo /\ k.late = j.late
    BY <2>e1, <2>f1, <2>g1
  <2>b. ~j.late => r.status # "cancelled" /\ back = Counted(r)
    BY <1>2, <1>3, <2>a, <2>1 DEF JobMeant, Current, Reading, Counted
  <2>3. JobMeant(k, receipts, outstanding)
    BY <1>2, <1>3, <2>a, <2>1, <2>2, <2>b DEF JobMeant, Current, Reading
  <2> QED
    BY <1>1, <2>1, <2>2, <2>3, JobMoves
<1>10. CASE ReadInvoice(a)
  <2>c. j \in Job /\ "paying" \in Stages /\ outstanding \in Nat
    BY <1>2, <1>4
  <2>e. PICK k1 : k1 = [j EXCEPT !.at = "paying"]
    OBVIOUS
  <2>e1. /\ k1 \in Job
        /\ k1.op = j.op /\ k1.no = j.no /\ k1.at = "paying" /\ k1.was = j.was
        /\ k1.plan = j.plan /\ k1.fifo = j.fifo /\ k1.seen = j.seen /\ k1.late = j.late
    BY <2>c, <2>e, JobAt
  <2>f. PICK k : k = [k1 EXCEPT !.seen = outstanding]
    OBVIOUS
  <2>f1. /\ k \in Job
        /\ k.op = k1.op /\ k.no = k1.no /\ k.at = k1.at /\ k.was = k1.was
        /\ k.plan = k1.plan /\ k.fifo = k1.fifo /\ k.seen = outstanding /\ k.late = k1.late
    BY <2>c, <2>e1, <2>f, JobSeen
  <2>0. k = [j EXCEPT !.at = "paying", !.seen = outstanding]
    BY <2>e, <2>f
  <2>1. Move(a, k) /\ j.at = "planned" /\ (j.op = "confirm" => j.plan <= outstanding)
    BY <1>10, <2>0 DEF ReadInvoice, r
  <2>2. /\ k \in Job /\ k.op = j.op /\ k.no = j.no
        /\ k.at = "paying" /\ k.plan = j.plan /\ k.fifo = j.fifo /\ k.seen = outstanding /\ k.late = j.late
    BY <2>e1, <2>f1
  <2>3. JobMeant(k, receipts, outstanding)
    BY <1>2, <1>3, <2>1, <2>2 DEF JobMeant, Current, Reading
  <2> QED
    BY <1>1, <2>1, <2>2, <2>3, JobMoves
<1> QED
  BY <1>5, <1>6, <1>7, <1>8, <1>9, <1>10

\* A confirmation that chooses what to pay.
LEMMA Chooses ==
  ASSUME GatewayInv, UNCHANGED chosen, NEW a \in Actors, PlanFifo(a)
  PROVE  GatewayInv'
<1> DEFINE j == job[a]
           r == Receipt(a)
<1>1. j.op = "confirm" /\ j.at = "opened" /\ r.pays = 0
  BY DEF PlanFifo, At
<1>2. /\ j \in Job /\ j.no \in DOMAIN receipts /\ r = receipts[j.no]
      /\ r.amount \in Nat /\ outstanding \in Nat
      /\ JobMeant(j, receipts, outstanding)
  BY <1>1, Having
<1> DEFINE plan == Least(r.amount, outstanding)
<1>3. plan \in Nat /\ plan <= outstanding
  BY <1>2 DEF Least
<1>4. "paying" \in Stages /\ TRUE \in BOOLEAN
  BY DEF Stages
<1>5. PICK k1 : k1 = [j EXCEPT !.at = "paying"]
  OBVIOUS
<1>6. /\ k1 \in Job
      /\ k1.op = j.op /\ k1.no = j.no /\ k1.at = "paying" /\ k1.late = j.late
  BY <1>2, <1>4, <1>5, JobAt
<1>7. PICK k2 : k2 = [k1 EXCEPT !.fifo = TRUE]
  OBVIOUS
<1>8. /\ k2 \in Job
      /\ k2.op = k1.op /\ k2.no = k1.no /\ k2.at = k1.at /\ k2.fifo = TRUE /\ k2.late = k1.late
  BY <1>4, <1>6, <1>7, JobFifo
<1>9. PICK k3 : k3 = [k2 EXCEPT !.seen = outstanding]
  OBVIOUS
<1>10. /\ k3 \in Job
       /\ k3.op = k2.op /\ k3.no = k2.no /\ k3.at = k2.at /\ k3.fifo = k2.fifo
       /\ k3.seen = outstanding /\ k3.late = k2.late
  BY <1>2, <1>8, <1>9, JobSeen
<1>11. PICK k : k = [k3 EXCEPT !.plan = plan]
  OBVIOUS
<1>12. k = [j EXCEPT !.at = "paying", !.fifo = TRUE, !.seen = outstanding, !.plan = plan]
  BY <1>5, <1>7, <1>9, <1>11
<1>13. Move(a, k)
  BY <1>12 DEF PlanFifo
<1> HIDE DEF plan, r
<1>14. /\ k \in Job
       /\ k.op = k3.op /\ k.no = k3.no /\ k.at = k3.at /\ k.fifo = k3.fifo
       /\ k.plan = plan /\ k.seen = k3.seen /\ k.late = k3.late
  BY <1>3, <1>10, <1>11, JobPlan
<1>15. JobMeant(k, receipts, outstanding)
  BY <1>1, <1>2, <1>3, <1>6, <1>8, <1>10, <1>14 DEF JobMeant, Current, Reading
<1> QED
  BY <1>1, <1>6, <1>8, <1>10, <1>13, <1>14, <1>15, JobMoves

\* A receipt that was confirmed meanwhile.
LEMMA Joins ==
  ASSUME GatewayInv, UNCHANGED chosen, NEW a \in Actors, ConfirmAgain(a)
  PROVE  GatewayInv'
<1> DEFINE j == Closing(a)
<1>1. /\ job[a].op = "confirm" /\ job[a].at = "called" /\ Receipt(a).status = "confirmed" /\ Move(a, j)
  BY DEF ConfirmAgain, At
<1>2. job[a] \in Job /\ job[a].no \in DOMAIN receipts /\ Receipt(a) = receipts[job[a].no]
  BY <1>1, Having
<1>3. job[a].no \in Nat
  BY <1>2, JobTypes
<1>4. j \in Job /\ j.op = "confirm" /\ j.no = job[a].no /\ j.at = "closing" /\ ~j.fifo
  BY <1>3 DEF Closing, Task, Job, Stages, Statuses
<1> HIDE DEF j
<1>5. JobMeant(j, receipts, outstanding)
  BY <1>1, <1>2, <1>4 DEF JobMeant, Reading
<1> QED
  BY <1>1, <1>4, <1>5, JobMoves

LEMMA Requests ==
  ASSUME GatewayInv, UNCHANGED chosen, NEW c \in Clerks, NEW op \in {"confirm", "cancel"},
         NEW n \in DOMAIN receipts, Request(c, op, n)
  PROVE  GatewayInv'
<1> DEFINE j == Begun(op, n)
<1>1. c \in Actors /\ c \notin Handlers /\ Move(c, j) /\ n \in Nat
  BY GatewayAssumption, Receipts DEF Actors, Request, GatewayInv
<1>2. j \in Job /\ j.op = op /\ j.no = n /\ j.at = "called" /\ ~j.fifo
  BY <1>1 DEF Begun, Task, Job, Stages, Statuses
<1> HIDE DEF j
<1>3. JobMeant(j, receipts, outstanding)
  BY <1>2 DEF JobMeant, Reading
<1> QED
  BY <1>1, <1>2, <1>3, JobMoves

\* An actor is rid of its job.
LEMMA Leaves ==
  ASSUME GatewayInv, UNCHANGED <<chosen, books>>, NEW a \in Actors, job' = [job EXCEPT ![a] = Rest],
         hook' \in [Handlers -> Hook], \A h \in Handlers : h # a => hook'[h] = hook[h],
         a \in Handlers => hook'[a] = Free,
         \A i \in Intents \ byRetailer :
           i \in handled' =>
             \/ i \in handled
             \/ \E n \in ReceiptsOf(i) : receipts[n].status # "draft"
  PROVE  GatewayInv'
<1>1. job' \in [Actors -> Job] /\ job'[a] = Rest /\ \A b \in Actors : b # a => job'[b] = job[b]
  BY Jobs, RestJob DEF GatewayInv
<1>2. JobMeant(Rest, receipts, outstanding)
  BY RestJob DEF JobMeant, Reading
<1>3. HookMeant(Free, Rest, receipts)
  BY RestJob, FreeHook DEF HookMeant
<1> QED
  BY <1>1, <1>2, <1>3, FreeHook, ActorSteps

LEMMA Throws ==
  ASSUME GatewayInv, UNCHANGED chosen, NEW a \in Actors, Throw(a)
  PROVE  GatewayInv'
<1>1. /\ job' = [job EXCEPT ![a] = Rest] /\ UNCHANGED <<books, handled>>
      /\ hook' = [h \in Handlers |-> IF h = a THEN Free ELSE hook[h]]
  BY DEF Throw
<1>2. hook \in [Handlers -> Hook]
  BY DEF GatewayInv, TypeOK
<1>3. hook' \in [Handlers -> Hook]
  BY <1>1, <1>2, FreeHook
<1>4. (\A h \in Handlers : h # a => hook'[h] = hook[h]) /\ (a \in Handlers => hook'[a] = Free)
  BY <1>1
<1> QED
  BY <1>1, <1>3, <1>4, Leaves

LEMMA ComesBack ==
  ASSUME GatewayInv, UNCHANGED chosen, NEW a \in Actors, CloseConfirm(a)
  PROVE  GatewayInv'
<1>1. job[a].op = "confirm" /\ job[a].at = "closing" /\ job' = [job EXCEPT ![a] = Rest] /\ UNCHANGED books
  BY DEF CloseConfirm, At, Return
<1>2. hook \in [Handlers -> Hook]
  BY DEF GatewayInv, TypeOK
<1>3. CASE a \in Handlers
  <2>1. handled' = handled \cup {hook[a].intent} /\ hook' = [hook EXCEPT ![a] = Free]
    BY <1>3 DEF CloseConfirm, Return
  <2>2. /\ hook' \in [Handlers -> Hook] /\ hook'[a] = Free
        /\ \A h \in Handlers : h # a => hook'[h] = hook[h]
    BY <1>2, <1>3, <2>1, FreeHook
  <2>3. job[a].no \in DOMAIN receipts /\ receipts[job[a].no].intent = hook[a].intent
    BY <1>1, <1>3 DEF GatewayInv, HooksMeant, HookMeant
  <2>4. receipts[job[a].no].status # "draft"
    BY <1>1 DEF GatewayInv, JobsMeant, JobMeant
  <2>5. job[a].no \in ReceiptsOf(hook[a].intent)
    BY <2>3 DEF ReceiptsOf
  <2> QED
    BY <1>1, <2>1, <2>2, <2>4, <2>5, Leaves
<1>4. CASE a \notin Handlers
  <2>1. handled' = handled /\ hook' = hook
    BY <1>4 DEF CloseConfirm, Return
  <2> QED
    BY <1>1, <1>2, <1>4, <2>1, Leaves
<1> QED
  BY <1>3, <1>4

-----------------------------------------------------------------------
\* Commits: whoever has read before is late.

LEMMA CommitSteps ==
  ASSUME GatewayInv, UNCHANGED chosen, NEW a \in Actors, NEW j \in Job, Commit(a, j),
         NEW n \in DOMAIN receipts, NEW v \in Row, receipts' = [receipts EXCEPT ![n] = v],
         v.intent = receipts[n].intent, v.status # "draft", outstanding' \in Nat,
         JobMeant(j, receipts', outstanding'),
         a \in Handlers => HookMeant(hook[a], j, receipts'),
         job[a].late \/ outstanding' + Counted(v) = outstanding + Counted(receipts[n])
  PROVE  GatewayInv'
<1>1. /\ receipts' \in Seq(Row) /\ Grown /\ DOMAIN receipts' = DOMAIN receipts
      /\ receipts'[n] = v /\ \A m \in DOMAIN receipts : m # n => receipts'[m] = receipts[m]
  BY Sets DEF GatewayInv
<1>2. /\ apart' = apart /\ target' = target /\ byRetailer' = byRetailer
      /\ hook' = hook /\ handled' = handled /\ crossed' = (crossed \/ job[a].late)
  BY DEF chosen, Commit
<1>3. job[a] \in Job /\ crossed \in BOOLEAN /\ outstanding \in Nat /\ receipts \in Seq(Row)
      /\ hook \in [Handlers -> Hook] /\ target \in [Intents -> Nat]
  BY DEF GatewayInv, TypeOK
<1>4. job[a].late \in BOOLEAN
  BY <1>3, JobTypes
<1>5. /\ job' = [b \in Actors |-> job'[b]] /\ job'[a] = j
      /\ \A b \in Actors : b # a =>
           job'[b] = IF job[b].at \in Reading THEN [job[b] EXCEPT !.late = TRUE] ELSE job[b]
  BY DEF Commit
<1>6. ASSUME NEW b \in Actors, b # a
      PROVE  /\ job'[b] \in Job
             /\ (job'[b] = job[b] \/ job'[b] = [job[b] EXCEPT !.late = TRUE])
             /\ JobMeant(job'[b], receipts', outstanding')
  <2>1. job[b] \in Job /\ JobMeant(job[b], receipts, outstanding)
    BY DEF GatewayInv, TypeOK, JobsMeant
  <2>2. CASE job[b].at \in Reading
    <3>1. job'[b] = [job[b] EXCEPT !.late = TRUE]
      BY <1>5, <1>6, <2>2
    <3>2. PICK k : k = job'[b] /\ k = [job[b] EXCEPT !.late = TRUE]
      BY <3>1
    <3>3. /\ k \in Job /\ k.op = job[b].op /\ k.no = job[b].no /\ k.at = job[b].at
          /\ k.plan = job[b].plan /\ k.fifo = job[b].fifo /\ k.seen = job[b].seen /\ k.late
      BY <2>1, <3>2, JobLate
    <3>4. JobMeant(k, receipts', outstanding')
      BY <1>1, <2>1, <2>2, <3>3 DEF JobMeant, Reading
    <3> QED
      BY <3>1, <3>2, <3>3, <3>4
  <2>3. CASE job[b].at \notin Reading
    <3>1. job'[b] = job[b]
      BY <1>5, <1>6, <2>3
    <3>2. JobMeant(job[b], receipts', outstanding')
      BY <1>1, <2>1, <2>3 DEF JobMeant, Grown
    <3> QED
      BY <2>1, <3>1, <3>2
  <2> QED
    BY <2>2, <2>3
<1>7. job' \in [Actors -> Job]
  BY <1>5, <1>6
<1>8. TypeOK'
  BY <1>1, <1>2, <1>3, <1>4, <1>7 DEF TypeOK
<1>9. HooksMeant'
  BY <1>1, <1>2, <1>5, <1>6, AllMeant
<1>10. ASSUME NEW b \in Actors PROVE JobMeant(job'[b], receipts', outstanding')
  BY <1>5, <1>6
<1>11. JobsMeant'
  BY <1>10 DEF JobsMeant
<1>12. \A m \in DOMAIN receipts : receipts'[m].intent = receipts[m].intent
  BY <1>1
<1>13. apart /\ a \in Handlers /\ hook'[a].at \in {"checked", "numbered"} => ReceiptsOf(hook'[a].intent) = {}
  BY <1>2 DEF GatewayInv, InTurn, NoneWhileDrawing
<1>14. InTurn'
  BY <1>1, <1>2, <1>12, <1>13, TurnsKept
<1>15. ProcessedIsConfirmed'
  BY <1>1, <1>2, StaysConfirmed
<1>16. InvoiceConserved'
  <2>1. CASE crossed \/ job[a].late
    BY <1>2, <2>1, BalancedIsConservedNext
  <2>2. CASE ~crossed /\ ~job[a].late
    <3> DEFINE t == Total(Booked(receipts), DOMAIN receipts)
               u == Total(Booked(receipts'), DOMAIN receipts')
    <3>1. t \in Nat /\ u \in Nat
      BY <1>1, <1>3, BookedTyped
    <3>2. outstanding + t = Bill
      BY <2>2, BalancedIsConserved DEF GatewayInv, Balanced
    <3>3. u + Counted(receipts[n]) = t + Counted(v)
      BY BookedSets DEF GatewayInv
    <3>4. Counted(receipts[n]) \in Nat /\ Counted(v) \in Nat
      <4>1. receipts[n] \in Row
        BY Receipts DEF GatewayInv
      <4> QED
        BY <4>1 DEF Counted, Row
    <3>4a. outstanding' + Counted(v) = outstanding + Counted(receipts[n]) /\ outstanding \in Nat
      BY <1>3, <2>2
    <3> DEFINE c == Counted(receipts[n])
               d == Counted(v)
    <3> HIDE DEF t, u, c, d
    <3>4b. c \in Nat /\ d \in Nat /\ u + c = t + d /\ outstanding' + d = outstanding + c
      BY <3>3, <3>4, <3>4a DEF c, d
    <3>5. outstanding' + u = Bill
      BY <3>1, <3>2, <3>4a, <3>4b
    <3> QED
      BY <3>5, BalancedIsConservedNext DEF u, Balanced
  <2> QED
    BY <2>1, <2>2
<1> QED
  BY <1>8, <1>9, <1>11, <1>14, <1>15, <1>16 DEF GatewayInv

LEMMA CommitsConfirm ==
  ASSUME GatewayInv, UNCHANGED chosen, NEW a \in Actors, CommitConfirm(a)
  PROVE  GatewayInv'
<1> DEFINE j == job[a]
           n == j.no
           r == receipts[n]
           pays == IF j.fifo THEN r.pays + j.plan ELSE r.pays
           v == [intent |-> r.intent, status |-> "confirmed", amount |-> r.amount, pays |-> pays]
           k == Closing(a)
<1>1. j.op = "confirm" /\ j.at = "paying" /\ Commit(a, k)
      /\ outstanding' = IF j.plan > 0 THEN j.seen - j.plan ELSE outstanding
  BY DEF CommitConfirm, At
<1>2. /\ j \in Job /\ n \in DOMAIN receipts /\ r \in Row /\ outstanding \in Nat
      /\ JobMeant(j, receipts, outstanding)
  BY <1>1, Having
<1>3. /\ n \in Nat /\ j.plan \in Nat /\ j.fifo \in BOOLEAN /\ j.seen \in Nat /\ j.late \in BOOLEAN
  BY <1>2, JobTypes
<1>4. r.intent \in Intents \cup {"hand"} /\ r.amount \in Nat /\ r.pays \in Nat
  BY <1>2 DEF Row
<1>5. pays \in Nat
  BY <1>3, <1>4
<1>6. v \in Row /\ v.intent = r.intent /\ v.status = "confirmed" /\ v.pays = pays
  BY <1>4, <1>5 DEF Row, Statuses
<1>7. receipts' = [receipts EXCEPT ![n] = v]
  <2>1. PICK i, s, m, p : r = [intent |-> i, status |-> s, amount |-> m, pays |-> p]
    BY <1>2 DEF Row
  <2>2. r.intent = i /\ r.amount = m /\ r.pays = p
    BY <2>1
  <2>3. [r EXCEPT !.status = "confirmed"] = [intent |-> i, status |-> "confirmed", amount |-> m, pays |-> p]
    BY <2>1
  <2>4. [[intent |-> i, status |-> "confirmed", amount |-> m, pays |-> p] EXCEPT !.pays = pays] = v
    BY <2>2
  <2>5. DOMAIN receipts = 1..Len(receipts) /\ receipts \in Seq(Row)
    BY Receipts DEF GatewayInv, TypeOK
  <2>6. receipts' = [receipts EXCEPT ![n] = [r EXCEPT !.status = "confirmed", !.pays = pays]]
    BY <1>2, <2>5 DEF CommitConfirm
  <2> QED
    BY <2>3, <2>4, <2>6
<1>8. k \in Job /\ k.op = "confirm" /\ k.no = n /\ k.at = "closing" /\ ~k.fifo
  BY <1>3 DEF Closing, Task, Job, Stages, Statuses
<1>9. j.plan <= j.seen /\ (~j.late => Current(j, r, outstanding))
  BY <1>1, <1>2 DEF JobMeant, Reading
<1>10. outstanding' \in Nat
  BY <1>1, <1>2, <1>3, <1>9
<1>11. j.late \/ outstanding' + Counted(v) = outstanding + Counted(r)
  <2> SUFFICES ASSUME ~j.late PROVE outstanding' + Counted(v) = outstanding + Counted(r)
    OBVIOUS
  <2>1. r.status = "draft" /\ j.seen = outstanding /\ IF j.fifo THEN r.pays = 0 ELSE j.plan = r.pays
    BY <1>1, <1>9 DEF Current
  <2>2. pays = j.plan
    BY <1>3, <1>4, <2>1
  <2>3. Counted(v) = j.plan /\ Counted(r) = 0
    BY <1>6, <2>1, <2>2 DEF Counted
  <2> QED
    BY <1>1, <1>2, <1>3, <1>9, <2>1, <2>3
<1> HIDE DEF v, k, pays
<1>12. receipts'[n] = v /\ DOMAIN receipts' = DOMAIN receipts
  BY <1>2, <1>6, <1>7, Sets DEF GatewayInv
<1>13. JobMeant(k, receipts', outstanding')
  BY <1>2, <1>6, <1>8, <1>12 DEF JobMeant, Reading
<1>14. a \in Handlers => HookMeant(hook[a], k, receipts')
  <2> SUFFICES ASSUME a \in Handlers PROVE HookMeant(hook[a], k, receipts')
    OBVIOUS
  <2>1. HookMeant(hook[a], j, receipts)
    BY DEF GatewayInv, HooksMeant
  <2> QED
    BY <1>1, <1>2, <1>6, <1>8, <1>12, <2>1 DEF HookMeant
<1> QED
  BY <1>1, <1>2, <1>6, <1>7, <1>8, <1>10, <1>11, <1>13, <1>14, CommitSteps

LEMMA CommitsCancel ==
  ASSUME GatewayInv, UNCHANGED chosen, NEW a \in Actors, CommitCancel(a)
  PROVE  GatewayInv'
<1> DEFINE j == job[a]
           n == j.no
           r == receipts[n]
           v == [intent |-> r.intent, status |-> "cancelled", amount |-> r.amount, pays |-> 0]
<1>1. j.op = "cancel" /\ j.at = "paying" /\ Commit(a, Rest)
      /\ outstanding' = IF j.plan > 0 THEN j.seen + j.plan ELSE outstanding
  BY DEF CommitCancel, At
<1>2. /\ j \in Job /\ n \in DOMAIN receipts /\ r \in Row /\ outstanding \in Nat
      /\ JobMeant(j, receipts, outstanding)
  BY <1>1, Having
<1>3. n \in Nat /\ j.plan \in Nat /\ j.seen \in Nat /\ j.late \in BOOLEAN
  BY <1>2, JobTypes
<1>4. r.intent \in Intents \cup {"hand"} /\ r.amount \in Nat /\ r.pays \in Nat
  BY <1>2 DEF Row
<1>5. v \in Row /\ v.intent = r.intent /\ v.status = "cancelled"
  BY <1>4 DEF Row, Statuses
<1>6. receipts' = [receipts EXCEPT ![n] = v]
  <2>1. PICK i, s, m, p : r = [intent |-> i, status |-> s, amount |-> m, pays |-> p]
    BY <1>2 DEF Row
  <2>2. r.intent = i /\ r.amount = m
    BY <2>1
  <2>3. [r EXCEPT !.status = "cancelled"] = [intent |-> i, status |-> "cancelled", amount |-> m, pays |-> p]
    BY <2>1
  <2>4. [[intent |-> i, status |-> "cancelled", amount |-> m, pays |-> p] EXCEPT !.pays = 0] = v
    BY <2>2
  <2>5. DOMAIN receipts = 1..Len(receipts) /\ receipts \in Seq(Row)
    BY Receipts DEF GatewayInv, TypeOK
  <2>6. receipts' = [receipts EXCEPT ![n] = [r EXCEPT !.status = "cancelled", !.pays = 0]]
    BY <1>2, <2>5 DEF CommitCancel
  <2> QED
    BY <2>3, <2>4, <2>6
<1>7. ~j.late => Current(j, r, outstanding)
  BY <1>1, <1>2 DEF JobMeant, Reading
<1>8. outstanding' \in Nat
  BY <1>1, <1>2, <1>3
<1>9. Counted(v) = 0
  BY <1>5 DEF Counted
<1>10. j.late \/ outstanding' + Counted(v) = outstanding + Counted(r)
  BY <1>1, <1>2, <1>3, <1>7, <1>9 DEF Current
<1> HIDE DEF v
<1>11. JobMeant(Rest, receipts', outstanding')
  BY RestJob DEF JobMeant, Reading
<1>12. a \notin Handlers
  BY <1>1 DEF GatewayInv, HooksMeant, HookMeant
<1> QED
  BY <1>1, <1>2, <1>5, <1>6, <1>8, <1>10, <1>11, <1>12, RestJob, CommitSteps

-----------------------------------------------------------------------
\* New receipts.

\* What is at the end of the receipts changes nothing for those who are at work on
\* another one.
LEMMA AppendMeant ==
  ASSUME GatewayInv, NEW v \in Row, receipts' = Append(receipts, v), outstanding' = outstanding,
         NEW b \in Actors
  PROVE  JobMeant(job[b], receipts', outstanding')
<1>1. JobMeant(job[b], receipts, outstanding) /\ job[b] \in Job
  BY DEF GatewayInv, JobsMeant, TypeOK
<1>2. Grown /\ \A n \in DOMAIN receipts : receipts'[n] = receipts[n]
  BY Appends DEF GatewayInv
<1>3. CASE job[b].at # "rest"
  <2>1. job[b].no \in DOMAIN receipts /\ receipts'[job[b].no] = receipts[job[b].no]
    BY <1>1, <1>2, <1>3 DEF JobMeant
  <2> QED
    BY <1>1, <1>2, <2>1 DEF JobMeant, Grown
<1>4. CASE job[b].at = "rest"
  BY <1>1, <1>4 DEF JobMeant, Reading
<1> QED
  BY <1>3, <1>4

LEMMA BooksAppend ==
  ASSUME GatewayInv, NEW v \in Row, v.status = "draft", receipts' = Append(receipts, v),
         outstanding' = outstanding, crossed' = crossed
  PROVE  InvoiceConserved'
<1>1. Counted(v) = 0
  BY DEF Counted
<1>2. Total(Booked(receipts'), DOMAIN receipts') = Total(Booked(receipts), DOMAIN receipts) + Counted(v)
  BY BookedAppends DEF GatewayInv
<1>3. Total(Booked(receipts), DOMAIN receipts) \in Nat
  BY BookedTyped DEF GatewayInv, TypeOK
<1>4. crossed \/ Balanced(receipts, outstanding)
  BY BalancedIsConserved DEF GatewayInv
<1>5. crossed' \/ Balanced(receipts', outstanding')
  BY <1>1, <1>2, <1>3, <1>4 DEF Balanced
<1> QED
  BY <1>5, BalancedIsConservedNext

\* A receipt that comes from no intent.
LEMMA ReceivesByHand ==
  ASSUME GatewayInv, UNCHANGED chosen, NEW n \in 1..Bill, NEW allocated \in BOOLEAN,
         ReceiveByHand(n, allocated)
  PROVE  GatewayInv'
<1> DEFINE pays == IF allocated THEN n ELSE 0
           v == Draft("hand", n, pays)
           k == Len(receipts) + 1
<1>1. n \in Nat /\ pays \in Nat
  BY GatewayAssumption
<1>2. v \in Row /\ v.intent = "hand" /\ v.status = "draft"
  BY <1>1 DEF Draft, Row, Statuses
<1>3. /\ receipts' = Append(receipts, v) /\ outstanding' = outstanding /\ crossed' = crossed
      /\ hook' = hook /\ job' = job /\ handled' = handled
  BY DEF ReceiveByHand
<1>4. apart' = apart /\ target' = target /\ byRetailer' = byRetailer
  BY DEF chosen
<1> HIDE DEF v
<1>5. /\ receipts' \in Seq(Row) /\ Grown /\ DOMAIN receipts' = DOMAIN receipts \cup {k} /\ k \notin DOMAIN receipts
      /\ receipts'[k] = v /\ \A m \in DOMAIN receipts : receipts'[m] = receipts[m]
  BY <1>2, <1>3, Appends DEF GatewayInv
<1>6. InvoiceConserved'
  BY <1>2, <1>3, BooksAppend
<1>7. TypeOK'
  BY <1>3, <1>4, <1>5 DEF GatewayInv, TypeOK
<1>8. ASSUME NEW b \in Actors PROVE JobMeant(job'[b], receipts', outstanding')
  BY <1>2, <1>3, AppendMeant
<1>9. JobsMeant'
  BY <1>8 DEF JobsMeant
<1>10. HooksMeant'
  BY <1>3, <1>5 DEF GatewayInv, HooksMeant, HookMeant, Grown
<1>11. ASSUME NEW h \in Handlers, hook[h].at # "done" PROVE hook[h].intent # "hand"
  BY <1>11, GatewayAssumption DEF GatewayInv, HooksMeant, HookMeant
<1>12. ASSUME apart PROVE OneHandler' /\ NoneWhileDrawing' /\ OneEach'
  <2>1. OneHandler /\ NoneWhileDrawing /\ OneEach
    BY <1>12 DEF GatewayInv, InTurn
  <2>2. OneHandler'
    BY <1>3, <2>1 DEF OneHandler
  <2>3. NoneWhileDrawing'
    BY <1>2, <1>3, <1>5, <1>11, <2>1 DEF NoneWhileDrawing, ReceiptsOf
  <2>4. OneEach'
    BY <1>2, <1>5, <2>1, GatewayAssumption DEF OneEach
  <2> QED
    BY <2>2, <2>3, <2>4
<1>13. InTurn'
  BY <1>4, <1>12 DEF InTurn
<1>14. ProcessedIsConfirmed'
  BY <1>3, <1>4, <1>5, StaysConfirmed
<1> QED
  BY <1>6, <1>7, <1>9, <1>10, <1>13, <1>14 DEF GatewayInv

\* The receipt of an intent, which has none if its reports are handled in turn.
LEMMA Creates ==
  ASSUME GatewayInv, UNCHANGED chosen, NEW h \in Handlers, CreateReceipt(h)
  PROVE  GatewayInv'
<1> DEFINE i == hook[h].intent
           v == Draft(i, target[i], target[i])
           k == Len(receipts) + 1
           r == [intent |-> i, outcome |-> hook[h].outcome, at |-> "confirming", no |-> 0]
           j == Begun("confirm", k)
<1>1. i \in Intents /\ hook[h].at = "numbered" /\ hook[h].outcome = "success" /\ hook[h].no = k /\ i # "hand"
  BY GatewayAssumption DEF CreateReceipt, Working, Creatable, GatewayInv, HooksMeant, HookMeant
<1>2. target[i] \in Nat /\ k \in Nat /\ h \in Actors
  BY <1>1, Receipts DEF GatewayInv, TypeOK, Actors
<1>3. v \in Row /\ v.intent = i /\ v.status = "draft"
  BY <1>1, <1>2 DEF Draft, Row, Statuses
<1>4. receipts' = Append(receipts, v) /\ outstanding' = outstanding /\ crossed' = crossed
  BY DEF CreateReceipt
<1>5. apart' = apart /\ target' = target /\ byRetailer' = byRetailer
  BY DEF chosen
<1>6. j \in Job /\ j.op = "confirm" /\ j.no = k /\ j.at = "called" /\ ~j.fifo
  BY <1>2 DEF Begun, Task, Job, Stages, Statuses
<1>7. r.intent = i /\ r.outcome = hook[h].outcome /\ r.at = "confirming"
  OBVIOUS
<1> HIDE DEF v
<1>8. /\ receipts' \in Seq(Row) /\ Grown /\ DOMAIN receipts' = DOMAIN receipts \cup {k} /\ k \notin DOMAIN receipts
      /\ receipts'[k] = v /\ \A m \in DOMAIN receipts : receipts'[m] = receipts[m]
  BY <1>3, <1>4, Appends DEF GatewayInv
<1>9. InvoiceConserved'
  BY <1>3, <1>4, BooksAppend
<1>10. job[h].at = "rest" /\ ~job[h].fifo
  BY <1>1, NoJob DEF AtRest
<1>11. /\ hook' \in [Handlers -> Hook] /\ \A g \in Handlers : g # h => hook'[g] = hook[g]
       /\ job' \in [Actors -> Job] /\ \A b \in Actors : b # h => job'[b] = job[b]
       /\ \/ hook'[h] = Free /\ job'[h] = job[h]
          \/ hook'[h] = r /\ job'[h] = j
  <2>1. CASE i \in byRetailer
    <3>1. Release(h) /\ job' = job
      BY <2>1 DEF CreateReceipt
    <3> QED
      BY <1>2, <3>1, Releases, SameJob DEF GatewayInv
  <2>2. CASE i \notin byRetailer
    <3>1. Go(h, "confirming", 0) /\ job' = [job EXCEPT ![h] = j]
      BY <1>1, <2>2 DEF CreateReceipt
    <3>2. 0 \in Nat /\ "confirming" \in Steps
      BY DEF Steps
    <3> HIDE DEF i, k, j
    <3>3. hook' \in [Handlers -> Hook] /\ hook'[h] = r /\ \A g \in Handlers : g # h => hook'[g] = hook[g]
      BY <3>1, <3>2, Goes DEF GatewayInv, i
    <3>4. job' \in [Actors -> Job] /\ job'[h] = j /\ \A b \in Actors : b # h => job'[b] = job[b]
      BY <1>2, <1>6, <3>1, Jobs DEF GatewayInv
    <3> QED
      BY <3>3, <3>4
  <2> QED
    BY <2>1, <2>2
<1> HIDE DEF k, r, j
<1>12. TypeOK'
  BY <1>4, <1>5, <1>8, <1>11 DEF GatewayInv, TypeOK
<1>13. HooksMeant'
  <2>1. HookMeant(r, j, receipts')
    BY <1>1, <1>3, <1>6, <1>7, <1>8 DEF HookMeant
  <2>2. HookMeant(Free, job[h], receipts')
    BY <1>10, FreeHook DEF HookMeant
  <2>3. HookMeant(hook'[h], job'[h], receipts')
    BY <1>11, <2>1, <2>2
  <2> QED
    BY <1>2, <1>8, <1>11, <2>3, AllMeant
<1>14. ASSUME NEW b \in Actors PROVE JobMeant(job'[b], receipts', outstanding')
  <2>1. JobMeant(j, receipts', outstanding')
    BY <1>6, <1>8 DEF JobMeant, Reading
  <2>2. JobMeant(job[b], receipts', outstanding')
    BY <1>3, <1>4, AppendMeant
  <2> QED
    BY <1>11, <2>1, <2>2
<1>15. JobsMeant'
  BY <1>14 DEF JobsMeant
<1>16. \/ hook'[h].at = "done"
       \/ hook'[h].at = "confirming" /\ hook'[h].intent = i
  BY <1>7, <1>11, FreeHook
<1>17. ASSUME apart PROVE OneHandler' /\ NoneWhileDrawing' /\ OneEach'
  <2>1. OneHandler /\ NoneWhileDrawing /\ OneEach
    BY <1>17 DEF GatewayInv, InTurn
  <2>2. \A n \in DOMAIN receipts : receipts[n].intent # i
    BY <1>1, <2>1 DEF NoneWhileDrawing, ReceiptsOf
  <2>3. OneHandler'
    BY <1>1, <1>11, <1>16, <2>1, OneHandlerStays
  <2>4. ASSUME NEW g \in Handlers, hook'[g].at \in {"checked", "numbered"}
        PROVE  \A n \in DOMAIN receipts' : receipts'[n].intent # hook'[g].intent
    <3>1. g # h /\ hook'[g] = hook[g]
      BY <1>11, <1>16, <2>4
    <3>2. hook[g].intent # i /\ ReceiptsOf(hook[g].intent) = {}
      BY <1>1, <2>1, <2>4, <3>1 DEF OneHandler, NoneWhileDrawing
    <3> QED
      BY <1>3, <1>8, <3>1, <3>2 DEF ReceiptsOf
  <2>5. NoneWhileDrawing'
    BY <2>4 DEF NoneWhileDrawing, ReceiptsOf
  <2>6. OneEach'
    BY <1>3, <1>8, <2>1, <2>2 DEF OneEach
  <2> QED
    BY <2>3, <2>5, <2>6
<1>18. InTurn'
  BY <1>5, <1>17 DEF InTurn
<1>19. \A m \in Intents \ byRetailer' : m \in handled' => m \in handled
  BY <1>5 DEF CreateReceipt
<1>20. ProcessedIsConfirmed'
  BY <1>5, <1>8, <1>19, StaysConfirmed
<1> QED
  BY <1>9, <1>12, <1>13, <1>15, <1>18, <1>20 DEF GatewayInv

-----------------------------------------------------------------------
LEMMA InitInv == Init => GatewayInv
<1> SUFFICES ASSUME Init PROVE GatewayInv
  OBVIOUS
<1>1. receipts = <<>> /\ DOMAIN receipts = {} /\ receipts \in Seq(Row)
  BY DEF Init
<1>2. hook \in [Handlers -> Hook] /\ \A h \in Handlers : hook[h].at = "done"
  BY FreeHook DEF Init
<1>3. job \in [Actors -> Job] /\ \A a \in Actors : job[a].at = "rest" /\ ~job[a].fifo
  BY RestJob DEF Init
<1>4. TypeOK
  BY <1>1, <1>2, <1>3, GatewayAssumption DEF Init, TypeOK
<1>5. HooksMeant
  BY <1>2, <1>3 DEF HooksMeant, HookMeant, Actors
<1>6. JobsMeant
  BY <1>3 DEF JobsMeant, JobMeant, Reading
<1>7. InTurn
  BY <1>1, <1>2 DEF InTurn, OneHandler, NoneWhileDrawing, OneEach
<1>8. ProcessedIsConfirmed
  BY DEF Init, ProcessedIsConfirmed
<1>9. Total(Booked(receipts), DOMAIN receipts) = 0
  BY <1>1, TotalZero
<1>10. Balanced(receipts, outstanding)
  BY <1>9, GatewayAssumption DEF Init, Balanced
<1>11. InvoiceConserved
  BY <1>10, BalancedIsConserved
<1> QED
  BY <1>4, <1>5, <1>6, <1>7, <1>8, <1>11 DEF GatewayInv

LEMMA Settles ==
  ASSUME GatewayInv, UNCHANGED chosen, NEW a \in Actors, Settle(a)
  PROVE  GatewayInv'
<1>1. CASE ConfirmRefused(a) \/ AllocationExceeds(a) \/ CancelRefused(a) \/ CloseFails(a)
  BY <1>1, Throws DEF ConfirmRefused, AllocationExceeds, CancelRefused, CloseFails
<1> QED
  BY <1>1, Looks, Chooses, Joins, ComesBack, CommitsConfirm, CommitsCancel DEF Settle

LEMMA NextInv == GatewayInv /\ [Next]_vars => GatewayInv'
<1> SUFFICES ASSUME GatewayInv, [Next]_vars PROVE GatewayInv'
  OBVIOUS
<1>1. CASE UNCHANGED vars
  <2>1. UNCHANGED <<apart, target, byRetailer, books, hook, job, handled>>
    BY <1>1 DEF vars, chosen
  <2> QED
    BY <2>1, IntentSteps DEF GatewayInv, TypeOK
<1>2. ASSUME NEW i \in Intents, NEW n \in 0..Bill, CreateIntent(i, n, {i}) \/ CreateIntent(i, n, {}), apart' = apart
      PROVE  GatewayInv'
  BY <1>2, IntentActions
<1>3. CASE Act /\ UNCHANGED chosen
  <2>0. Handlers \subseteq Actors /\ Clerks \subseteq Actors
    BY DEF Actors
  <2>1. ASSUME NEW i \in Intents, CancelIntent(i) \/ ExpireIntent(i) \/ Capture(i) PROVE GatewayInv'
    BY <1>3, <2>1, IntentActions
  <2>2. ASSUME NEW i \in Intents, NEW h \in Handlers, NEW o \in Outcomes, Deliver(h, i, o) PROVE GatewayInv'
    BY <1>3, <2>2, Delivers
  <2>3. ASSUME BackOffice PROVE GatewayInv'
    <3>1. ASSUME NEW n \in 1..Bill, NEW allocated \in BOOLEAN, ReceiveByHand(n, allocated) PROVE GatewayInv'
      BY <1>3, <3>1, ReceivesByHand
    <3>2. ASSUME NEW c \in Clerks, NEW op \in {"confirm", "cancel"}, NEW n \in DOMAIN receipts, Request(c, op, n)
          PROVE  GatewayInv'
      BY <1>3, <3>2, Requests
    <3>3. ASSUME NEW c \in Clerks, Settle(c) PROVE GatewayInv'
      BY <1>3, <2>0, <3>3, Settles
    <3> QED
      BY <2>3, <3>1, <3>2, <3>3 DEF BackOffice
  <2>4. ASSUME NEW h \in Handlers, Die(h) PROVE GatewayInv'
    BY <1>3, <2>4, Fails
  <2>5. ASSUME NEW h \in Handlers, Handle(h) PROVE GatewayInv'
    BY <1>3, <2>0, <2>5, HandlerReads, Creates, Settles DEF Handle
  <2> QED
    BY <1>3, <2>1, <2>2, <2>3, <2>4, <2>5 DEF Act
<1> QED
  BY <1>1, <1>2, <1>3 DEF Next

\* The strengthening the next three rest on: what every handler and every user may
\* assume when an await returns - that what it read is still so unless it is late -
\* with the books and, in turn, one handler and one receipt an intent.
THEOREM GatewayInvariant == Spec => []GatewayInv
BY InitInv, NextInv, PTL DEF Spec

\* Reports of one intent handled one after the other, repeated in any order and cut
\* off by a crash between any two awaits, never make a second receipt: the lookup in
\* createConfirmedGatewayReceiptForIntent is enough then.
THEOREM OneReceiptEach == Spec => []OneReceiptInTurn
<1>1. ASSUME GatewayInv PROVE OneReceiptInTurn
  <2> SUFFICES ASSUME apart, NEW i \in Intents PROVE Cardinality(ReceiptsOf(i)) <= 1
    BY DEF OneReceiptInTurn, OneReceiptPerIntent
  <2>1. OneEach
    BY <1>1 DEF GatewayInv, InTurn
  <2>2. CASE ReceiptsOf(i) = {}
    <3>1. Cardinality(ReceiptsOf(i)) = 0
      BY <2>2, FS_EmptySet
    <3> QED
      BY <3>1
  <2>3. ASSUME NEW n \in ReceiptsOf(i) PROVE Cardinality(ReceiptsOf(i)) <= 1
    <3>1. ReceiptsOf(i) = {n}
      BY <2>1 DEF OneEach, ReceiptsOf
    <3>2. Cardinality({n}) = 1
      BY FS_Singleton
    <3> QED
      BY <3>1, <3>2
  <2> QED
    BY <2>2, <2>3
<1> QED
  BY <1>1, GatewayInvariant, PTL

\* A success of the back office's own intent that is stored as processed has a receipt
\* that was confirmed, with any number of handlers and users at work on the same intent.
THEOREM AcceptedIsConfirmed == Spec => []ProcessedIsConfirmed
<1>1. GatewayInv => ProcessedIsConfirmed
  BY DEF GatewayInv
<1> QED
  BY <1>1, GatewayInvariant, PTL

\* Until a settlement is committed although another was committed since it first looked,
\* the invoice owes its bill less what the confirmed receipts pay of it: that is the one
\* way in which overlapping confirmations and cancellations lose or double money, and no
\* crash, refusal, repeat or late report of the gateway is another.
THEOREM InvoiceKeepsItsBooks == Spec => []InvoiceConserved
<1>1. GatewayInv => InvoiceConserved
  BY DEF GatewayInv
<1> QED
  BY <1>1, GatewayInvariant, PTL
=======================================================================

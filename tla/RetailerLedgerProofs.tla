--------------------- MODULE RetailerLedgerProofs ---------------------
(* Proofs about RetailerLedger, for any retailers, documents, amounts and *)
(* number of requests: balances of two retailers never mix, whatever      *)
(* happens; a document gets one entry when postings for one retailer do   *)
(* not overlap; and the running balance is right when, besides, no entry  *)
(* is dated before the retailer's last.  After them, those about          *)
(* CreditControl, the credit that rests on what a retailer owes.          *)
EXTENDS RetailerLedger, CreditControl, MoneyTheorems, TLAPS

IsLatest(k, r) == k \in EntriesOf(r) /\ \A j \in EntriesOf(r) \ {k} : Before(j, k)
LatestExists == \A r : EntriesOf(r) # {} => \E k \in EntriesOf(r) : IsLatest(k, r)

JobsMeant ==
  \A c \in Clients :
    Busy(c) => job[c].doc \in Documents /\ job[c].date \in Dates /\ job[c].at # "idle"

\* Two entries, made or still to be inserted, never have the same time.
TimesDistinct ==
  /\ \A k \in DOMAIN entries : entries[k].time <= stamp
  /\ \A j, k \in DOMAIN entries : entries[j].time = entries[k].time => j = k
  /\ \A c \in Clients :
       job[c].at = "numbered" =>
         job[c].time <= stamp /\ \A k \in DOMAIN entries : entries[k].time # job[c].time
  /\ \A c, d \in Clients :
       job[c].at = "numbered" /\ job[d].at = "numbered" /\ job[c].time = job[d].time => c = d

\* A balance that was read belongs to an entry of the retailer.
Known(b, r) == b = 0 \/ \E j \in EntriesOf(r) : entries[j].running = b
BalancesKnown ==
  \A c \in Clients :
    job[c].at \in {"read", "numbered"} => Known(job[c].balance, Owner[job[c].doc])

MixInv ==
  /\ TypeOK /\ JobsMeant /\ TimesDistinct /\ LatestExists /\ BalancesKnown
  /\ BalancesNeverMix

-----------------------------------------------------------------------
(* Facts about entries                                                  *)

LEMMA EntryKinds ==
  ASSUME TypeOK
  PROVE  \A k \in DOMAIN entries :
           /\ k \in Nat /\ entries[k] \in Entry
           /\ entries[k].date \in Nat /\ entries[k].time \in Nat /\ entries[k].running \in Int
           /\ entries[k].doc \in Documents
<1> SUFFICES ASSUME NEW k \in DOMAIN entries
             PROVE  /\ k \in Nat /\ entries[k] \in Entry
                    /\ entries[k].date \in Nat /\ entries[k].time \in Nat
                    /\ entries[k].running \in Int /\ entries[k].doc \in Documents
  OBVIOUS
<1>1. k \in Nat /\ entries[k] \in Entry
  BY DEF TypeOK
<1> QED
  BY <1>1, LedgerAssumption DEF Entry

LEMMA Owned ==
  \A r : EntriesOf(r) \subseteq DOMAIN entries /\ \A k \in EntriesOf(r) : OwnerOf(k) = r
BY DEF EntriesOf

\* The latest entry's balance is the one that is read.
LEMMA LatestRead ==
  ASSUME TypeOK, NEW r, NEW m \in EntriesOf(r), IsLatest(m, r)
  PROVE  LatestBalance(r) = entries[m].running
<1>1. \A k \in EntriesOf(r) : entries[k].date \in Nat /\ entries[k].time \in Nat
  BY EntryKinds, Owned
<1>2. \A k \in EntriesOf(r) : IsLatest(k, r) => k = m
  <2> SUFFICES ASSUME NEW k \in EntriesOf(r), IsLatest(k, r), k # m  PROVE FALSE
    OBVIOUS
  <2>1. Before(m, k) /\ Before(k, m)
    BY DEF IsLatest
  <2> QED
    BY <2>1, <1>1 DEF Before
<1>3. (CHOOSE k \in EntriesOf(r) : \A j \in EntriesOf(r) \ {k} : Before(j, k)) = m
  BY <1>2 DEF IsLatest
<1> QED
  BY <1>3 DEF LatestBalance

\* What inserting an entry does to the sequence.
LEMMA Appended ==
  ASSUME TypeOK, NEW e \in Entry, entries' = Append(entries, e)
  PROVE  /\ entries' \in Seq(Entry)
         /\ DOMAIN entries' = DOMAIN entries \cup {Len(entries) + 1}
         /\ Len(entries) + 1 \in Nat
         /\ \A k \in DOMAIN entries : k \in Nat /\ k < Len(entries) + 1
         /\ \A k \in DOMAIN entries : entries'[k] = entries[k]
         /\ entries'[Len(entries) + 1] = e
<1>1. entries \in Seq(Entry) /\ Len(entries) \in Nat /\ DOMAIN entries = 1..Len(entries)
  BY DEF TypeOK
<1> QED
  BY <1>1

\* The new entry joins its retailer's.
LEMMA OwnedAfter ==
  ASSUME TypeOK, NEW e \in Entry, entries' = Append(entries, e), NEW r
  PROVE  EntriesOf(r)' = IF Owner[e.doc] = r THEN EntriesOf(r) \cup {Len(entries) + 1}
                         ELSE EntriesOf(r)
<1> DEFINE n == Len(entries) + 1
<1>1. EntriesOf(r)' = {k \in DOMAIN entries' : Owner[entries'[k].doc] = r}
  BY DEF EntriesOf, OwnerOf
<1>2. EntriesOf(r) = {k \in DOMAIN entries : Owner[entries[k].doc] = r}
  BY DEF EntriesOf, OwnerOf
<1>3. DOMAIN entries' = DOMAIN entries \cup {n} /\ entries'[n] = e
  BY Appended
<1>4. \A k \in DOMAIN entries : entries'[k] = entries[k]
  BY Appended
<1> HIDE DEF n
<1>5. EntriesOf(r)' = {k \in DOMAIN entries : Owner[entries[k].doc] = r}
                        \cup (IF Owner[e.doc] = r THEN {n} ELSE {})
  BY <1>1, <1>3, <1>4
<1> QED
  BY <1>5, <1>2 DEF n

\* The entry a posting inserts.
LEMMA Inserted ==
  ASSUME TypeOK, JobsMeant, NEW c \in Clients, Insert(c)
  PROVE  /\ EntryOf(job[c]) \in Entry
         /\ entries' = Append(entries, EntryOf(job[c]))
         /\ EntryOf(job[c]).doc = job[c].doc /\ EntryOf(job[c]).date = job[c].date
         /\ EntryOf(job[c]).time = job[c].time
         /\ EntryOf(job[c]).running = job[c].balance + Amount[job[c].doc]
         /\ job[c].doc \in Documents /\ job[c].balance \in Int /\ Amount[job[c].doc] \in Int
<1>1. job[c] \in Job
  BY DEF TypeOK
<1>2. job[c].doc \in Documents /\ job[c].date \in Dates
  BY DEF Insert, JobsMeant, Busy, Idle, Posting
<1>3. job[c].balance \in Int /\ job[c].day \in Nat /\ job[c].no \in Nat /\ job[c].time \in Nat
  BY <1>1 DEF Job
<1>4. Amount[job[c].doc] \in Int
  BY <1>2, LedgerAssumption
<1>5. EntryOf(job[c]) \in Entry
  BY <1>2, <1>3, <1>4 DEF EntryOf, Entry
<1> QED
  BY <1>2, <1>3, <1>4, <1>5 DEF Insert, EntryOf

\* A balance that is read is a balance of the retailer.
LEMMA LatestKnown ==
  ASSUME TypeOK, LatestExists, NEW r
  PROVE  LatestBalance(r) \in Int /\ Known(LatestBalance(r), r)
<1>1. CASE EntriesOf(r) = {}
  BY <1>1 DEF LatestBalance, Known
<1>2. CASE EntriesOf(r) # {}
  <2>1. PICK m \in EntriesOf(r) : IsLatest(m, r)
    BY <1>2 DEF LatestExists
  <2>2. LatestBalance(r) = entries[m].running
    BY <2>1, LatestRead
  <2>3. entries[m].running \in Int
    BY EntryKinds, Owned
  <2> QED
    BY <2>1, <2>2, <2>3 DEF Known
<1> QED
  BY <1>1, <1>2

-----------------------------------------------------------------------
(* Types and times                                                      *)

LEMMA TypeStep ==
  ASSUME TypeOK, JobsMeant, LatestExists, [Next]_vars
  PROVE  TypeOK' /\ JobsMeant'
<1> USE LedgerAssumption
<1>d. discipline' = discipline
  BY DEF Next, vars
<1>0. Idle \in Job
  BY DEF Idle, Posting, Job, Steps
<1>1. ASSUME NEW c \in Clients, NEW d \in Documents, NEW date \in Dates, LookUp(c, d, date)
      PROVE  TypeOK' /\ JobsMeant'
  <2>1. Posting(d, date, "absent", 0, 0, 0, 0) \in Job
    BY DEF Posting, Job, Steps
  <2>2. TypeOK'
    BY <1>1, <1>d, <2>1 DEF LookUp, TypeOK
  <2>3. JobsMeant'
    BY <1>1 DEF LookUp, JobsMeant, TypeOK, Busy, Posting
  <2> QED
    BY <2>2, <2>3
<1>2. ASSUME NEW c \in Clients, ReadBalance(c)  PROVE TypeOK' /\ JobsMeant'
  <2>1. job[c] \in Job /\ Busy(c)
    BY <1>2 DEF TypeOK, ReadBalance, Busy, Idle, Posting
  <2>2. LatestBalance(Owner[job[c].doc]) \in Int
    BY LatestKnown
  <2> DEFINE j == [job[c] EXCEPT !.at = "read", !.balance = LatestBalance(Owner[job[c].doc])]
  <2>3. j \in Job /\ j.doc = job[c].doc /\ j.date = job[c].date /\ j.at # "idle"
    BY <2>1, <2>2 DEF Job, Steps
  <2>4. job' = [job EXCEPT ![c] = j] /\ UNCHANGED <<entries, today, stamp>>
    BY <1>2, <2>1 DEF ReadBalance, TypeOK
  <2> HIDE DEF j
  <2>5. TypeOK'
    BY <1>d, <2>3, <2>4 DEF TypeOK
  <2>6. JobsMeant'
    BY <2>1, <2>3, <2>4 DEF JobsMeant, TypeOK, Busy
  <2> QED
    BY <2>5, <2>6
<1>3. ASSUME NEW c \in Clients, DrawNumber(c)  PROVE TypeOK' /\ JobsMeant'
  <2>1. job[c] \in Job /\ Busy(c)
    BY <1>3 DEF TypeOK, DrawNumber, Busy, Idle, Posting
  <2>2. Len(entries) \in Nat /\ stamp \in Nat /\ today \in Nat
    BY DEF TypeOK
  <2> DEFINE j == [job[c] EXCEPT !.at = "numbered", !.day = today,
                     !.no = Len(entries) + 1, !.time = stamp + 1]
  <2>0. stamp + 1 \in Nat /\ Len(entries) + 1 \in Nat /\ "numbered" \in Steps
    BY <2>2 DEF Steps
  <2>3. j \in Job /\ j.doc = job[c].doc /\ j.date = job[c].date /\ j.at # "idle"
    BY <2>0, <2>1, <2>2 DEF Job
  <2>4. job' = [job EXCEPT ![c] = j] /\ UNCHANGED <<entries, today>> /\ stamp' = stamp + 1
    BY <1>3, <2>1 DEF DrawNumber, TypeOK
  <2> HIDE DEF j
  <2>5. TypeOK'
    BY <1>d, <2>2, <2>3, <2>4 DEF TypeOK
  <2>6. JobsMeant'
    BY <2>1, <2>3, <2>4 DEF JobsMeant, TypeOK, Busy
  <2> QED
    BY <2>5, <2>6
<1>4. ASSUME NEW c \in Clients, Insert(c)  PROVE TypeOK' /\ JobsMeant'
  <2>1. entries' \in Seq(Entry)
    BY <1>4, Inserted, Appended
  <2>2. TypeOK'
    BY <1>0, <1>d, <1>4, <2>1 DEF Insert, Finish, TypeOK
  <2>3. JobsMeant'
    BY <1>4 DEF Insert, Finish, JobsMeant, TypeOK, Busy
  <2> QED
    BY <2>2, <2>3
<1>5. ASSUME NEW c \in Clients, GiveUp(c)  PROVE TypeOK' /\ JobsMeant'
  BY <1>0, <1>d, <1>5 DEF GiveUp, Finish, TypeOK, JobsMeant, Busy
<1>6. ASSUME Midnight \/ UNCHANGED vars  PROVE TypeOK' /\ JobsMeant'
  BY <1>d, <1>6 DEF Midnight, vars, TypeOK, JobsMeant, Busy
<1> QED
  BY <1>1, <1>2, <1>3, <1>4, <1>5, <1>6 DEF Next, Act

LEMMA TimesStep ==
  ASSUME TypeOK, JobsMeant, TimesDistinct, [Next]_vars
  PROVE  TimesDistinct'
<1>0. Idle.at = "idle" /\ stamp \in Nat /\ \A k \in DOMAIN entries : entries[k].time \in Nat
  BY EntryKinds DEF Idle, Posting, TypeOK
<1>a. \A c \in Clients : job[c].time \in Nat
  BY DEF TypeOK, Job
<1>1. ASSUME NEW c \in Clients, NEW d \in Documents, NEW date \in Dates, LookUp(c, d, date)
      PROVE  TimesDistinct'
  BY <1>1 DEF LookUp, TypeOK, TimesDistinct, Posting
<1>2. ASSUME NEW c \in Clients, ReadBalance(c)  PROVE TimesDistinct'
  <2>1. /\ job'[c].at = "read" /\ \A d \in Clients \ {c} : job'[d] = job[d]
        /\ UNCHANGED <<entries, stamp>>
    BY <1>2 DEF ReadBalance, TypeOK, Job
  <2>2. \A d \in Clients : job'[d].at = "numbered" => job'[d] = job[d]
    BY <2>1
  <2> QED
    BY <2>1, <2>2 DEF TimesDistinct
<1>3. ASSUME NEW c \in Clients, DrawNumber(c)  PROVE TimesDistinct'
  <2>1. /\ job'[c].at = "numbered" /\ job'[c].time = stamp + 1
        /\ \A d \in Clients \ {c} : job'[d] = job[d]
        /\ UNCHANGED entries /\ stamp' = stamp + 1
    BY <1>3 DEF DrawNumber, TypeOK, Job
  <2> QED
    BY <1>0, <1>a, <2>1 DEF TimesDistinct
<1>4. ASSUME NEW c \in Clients, Insert(c)  PROVE TimesDistinct'
  <2> DEFINE n == Len(entries) + 1
  <2>1. /\ DOMAIN entries' = DOMAIN entries \cup {n}
        /\ \A k \in DOMAIN entries : entries'[k] = entries[k]
        /\ entries'[n].time = job[c].time
    BY <1>4, Inserted, Appended
  <2>2. /\ job[c].at = "numbered" /\ job'[c].at = "idle"
        /\ \A d \in Clients \ {c} : job'[d] = job[d]
        /\ UNCHANGED stamp
    BY <1>0, <1>4 DEF Insert, Finish, TypeOK
  <2> HIDE DEF n
  <2> QED
    BY <2>1, <2>2 DEF TimesDistinct
<1>5. ASSUME NEW c \in Clients, GiveUp(c)  PROVE TimesDistinct'
  <2>1. job'[c].at = "idle" /\ \A d \in Clients \ {c} : job'[d] = job[d]
    BY <1>0, <1>5 DEF GiveUp, Finish, TypeOK
  <2> QED
    BY <1>5, <2>1 DEF GiveUp, TimesDistinct
<1>6. ASSUME Midnight \/ UNCHANGED vars  PROVE TimesDistinct'
  BY <1>6 DEF Midnight, vars, TimesDistinct
<1> QED
  BY <1>1, <1>2, <1>3, <1>4, <1>5, <1>6 DEF Next, Act

-----------------------------------------------------------------------
(* Balances never mix                                                   *)

\* What inserting does to any retailer's entries, and which steps insert.
LEMMA EntriesStep ==
  ASSUME TypeOK, JobsMeant, [Next]_vars
  PROVE  UNCHANGED entries \/ \E c \in Clients : Insert(c)
BY DEF Next, Act, LookUp, ReadBalance, DrawNumber, GiveUp, Midnight, vars

LEMMA LatestStep ==
  ASSUME TypeOK, JobsMeant, TimesDistinct, LatestExists, [Next]_vars
  PROVE  LatestExists'
<1>1. CASE UNCHANGED entries
  BY <1>1 DEF LatestExists, IsLatest, EntriesOf, OwnerOf, Before
<1>2. ASSUME NEW c \in Clients, Insert(c)  PROVE LatestExists'
  <2>0. PICK n, e : n = Len(entries) + 1 /\ e = EntryOf(job[c])
    OBVIOUS
  <2>1. /\ e \in Entry /\ entries' = Append(entries, e)
        /\ e.time = job[c].time /\ job[c].at = "numbered"
    BY <1>2, <2>0, Inserted DEF Insert
  <2>2. /\ \A k \in DOMAIN entries : entries'[k] = entries[k]
        /\ entries'[n] = e /\ n \notin DOMAIN entries
    BY <2>0, <2>1, Appended
  <2>3. \A k \in DOMAIN entries :
          /\ entries[k].time \in Nat /\ entries[k].date \in Nat
          /\ entries[k].time # e.time
    BY <2>1, EntryKinds DEF TimesDistinct
  <2>4. e.time \in Nat /\ e.date \in Nat
    BY <2>1, LedgerAssumption DEF Entry
  <2>a. \A j, k : Before(j, k)' <=>
          \/ entries'[j].date < entries'[k].date
          \/ entries'[j].date = entries'[k].date /\ entries'[j].time < entries'[k].time
    BY DEF Before
  <2>b. \A k, r : IsLatest(k, r)' <=>
          k \in EntriesOf(r)' /\ \A j \in EntriesOf(r)' \ {k} : Before(j, k)'
    BY DEF IsLatest
  <2>5. \A j, k \in DOMAIN entries : Before(j, k)' <=> Before(j, k)
    BY <2>2, <2>a DEF Before
  <2>6. ASSUME NEW r, EntriesOf(r)' # {}  PROVE \E k \in EntriesOf(r)' : IsLatest(k, r)'
    <3>1. EntriesOf(r)' = IF Owner[e.doc] = r THEN EntriesOf(r) \cup {n} ELSE EntriesOf(r)
      BY <2>0, <2>1, OwnedAfter
    <3>2. EntriesOf(r) \subseteq DOMAIN entries
      BY Owned
    <3>3. CASE Owner[e.doc] # r
      <4>1. PICK k \in EntriesOf(r) : IsLatest(k, r)
        BY <2>6, <3>1, <3>3 DEF LatestExists
      <4>2. IsLatest(k, r)'
        BY <2>5, <2>b, <3>1, <3>2, <3>3, <4>1 DEF IsLatest
      <4> QED
        BY <3>1, <3>3, <4>2
    <3>4. CASE Owner[e.doc] = r /\ EntriesOf(r) = {}
      BY <2>b, <3>1, <3>4
    <3>5. CASE Owner[e.doc] = r /\ EntriesOf(r) # {}
      <4>1. PICK k \in EntriesOf(r) : IsLatest(k, r)
        BY <3>5 DEF LatestExists
      <4>2. CASE Before(k, n)'
        <5>1. ASSUME NEW j \in EntriesOf(r)  PROVE Before(j, n)'
          <6>1. j = k \/ Before(j, k)
            BY <4>1 DEF IsLatest
          <6> QED
            BY <2>2, <2>3, <2>4, <2>a, <3>2, <4>2, <6>1 DEF Before
        <5> QED
          BY <2>b, <3>1, <3>5, <5>1
      <4>3. CASE ~Before(k, n)'
        <5>1. Before(n, k)'
          BY <2>2, <2>3, <2>4, <2>a, <3>2, <4>3
        <5>2. IsLatest(k, r)'
          BY <2>5, <2>b, <3>1, <3>2, <3>5, <4>1, <5>1 DEF IsLatest
        <5> QED
          BY <3>1, <3>5, <5>2
      <4> QED
        BY <4>2, <4>3
    <3> QED
      BY <3>3, <3>4, <3>5
  <2> QED
    BY <2>6 DEF LatestExists
<1> QED
  BY <1>1, <1>2, EntriesStep

\* What was known stays known.
LEMMA KnownStays ==
  ASSUME TypeOK, JobsMeant, [Next]_vars, NEW b, NEW r, Known(b, r)
  PROVE  Known(b, r)'
<1>1. CASE UNCHANGED entries
  BY <1>1 DEF Known, EntriesOf, OwnerOf
<1>2. ASSUME NEW c \in Clients, Insert(c)  PROVE Known(b, r)'
  <2> DEFINE e == EntryOf(job[c])
  <2>1. e \in Entry /\ entries' = Append(entries, e)
    BY <1>2, Inserted
  <2>2. \A k \in DOMAIN entries : entries'[k] = entries[k]
    BY <2>1, Appended
  <2>3. EntriesOf(r) \subseteq EntriesOf(r)' /\ EntriesOf(r) \subseteq DOMAIN entries
    BY <2>1, OwnedAfter, Owned
  <2> QED
    BY <2>2, <2>3 DEF Known
<1> QED
  BY <1>1, <1>2, EntriesStep

LEMMA BalancesStep ==
  ASSUME TypeOK, JobsMeant, LatestExists, BalancesKnown, [Next]_vars
  PROVE  BalancesKnown'
<1>0. Idle.at = "idle"
  BY DEF Idle, Posting
<1> SUFFICES ASSUME NEW c \in Clients, job'[c].at \in {"read", "numbered"}
             PROVE  Known(job[c].balance, Owner[job[c].doc])'
  BY DEF BalancesKnown
<1> PICK b, r : b = job'[c].balance /\ r = Owner[job'[c].doc]
  OBVIOUS
<1>1. ASSUME job'[c] = job[c]  PROVE Known(b, r)
  BY <1>1 DEF BalancesKnown
<1>2. ASSUME ReadBalance(c)  PROVE Known(b, r)
  <2>1. job'[c].doc = job[c].doc /\ job'[c].balance = LatestBalance(Owner[job[c].doc])
    BY <1>2 DEF ReadBalance, TypeOK, Job
  <2>2. Known(b, r)
    BY <2>1, LatestKnown
  <2> QED
    BY <2>2
<1>3. ASSUME DrawNumber(c)  PROVE Known(b, r)
  <2>1. job'[c].doc = job[c].doc /\ job'[c].balance = job[c].balance /\ job[c].at = "read"
    BY <1>3 DEF DrawNumber, TypeOK, Job
  <2> QED
    BY <2>1 DEF BalancesKnown
<1>4. ASSUME Insert(c) \/ GiveUp(c)  PROVE Known(b, r)
  BY <1>0, <1>4 DEF Insert, GiveUp, Finish, TypeOK
<1>5. ASSUME \E d \in Documents, date \in Dates : LookUp(c, d, date)  PROVE Known(b, r)
  BY <1>5 DEF LookUp, Posting, TypeOK
<1>6. \/ job'[c] = job[c] \/ ReadBalance(c) \/ DrawNumber(c) \/ Insert(c) \/ GiveUp(c)
      \/ \E d \in Documents, date \in Dates : LookUp(c, d, date)
  BY DEF Next, Act, vars, LookUp, ReadBalance, DrawNumber, Insert, GiveUp, Midnight, Finish, TypeOK
<1>7. Known(b, r)
  BY <1>1, <1>2, <1>3, <1>4, <1>5, <1>6
<1>8. Known(b, r)'
  BY <1>7, KnownStays
<1> QED
  BY <1>8 DEF Known

LEMMA MixStep ==
  ASSUME MixInv, [Next]_vars
  PROVE  BalancesNeverMix'
<1> USE DEF MixInv
<1> DEFINE derived(k) ==
      entries[k].running - Amount[entries[k].doc] = 0 \/
        \E j \in EntriesOf(OwnerOf(k)) :
          j < k /\ entries[j].running = entries[k].running - Amount[entries[k].doc]
<1>1. CASE UNCHANGED entries
  BY <1>1 DEF BalancesNeverMix, EntriesOf, OwnerOf
<1>2. ASSUME NEW c \in Clients, Insert(c)  PROVE BalancesNeverMix'
  <2>0. PICK n, e, r : n = Len(entries) + 1 /\ e = EntryOf(job[c]) /\ r = Owner[e.doc]
    OBVIOUS
  <2>1. /\ e \in Entry /\ entries' = Append(entries, e)
        /\ e.running = job[c].balance + Amount[e.doc] /\ e.doc = job[c].doc
        /\ job[c].balance \in Int /\ Amount[e.doc] \in Int /\ job[c].at = "numbered"
    BY <1>2, <2>0, Inserted DEF Insert
  <2>2. /\ DOMAIN entries' = DOMAIN entries \cup {n}
        /\ \A k \in DOMAIN entries : entries'[k] = entries[k] /\ k < n
        /\ entries'[n] = e
    BY <2>0, <2>1, Appended
  <2>3. \A q : EntriesOf(q) \subseteq DOMAIN entries /\ EntriesOf(q) \subseteq EntriesOf(q)'
    BY <2>1, Owned, OwnedAfter
  <2>4. ASSUME NEW k \in DOMAIN entries  PROVE derived(k)'
    <3>1. derived(k) /\ OwnerOf(k)' = OwnerOf(k)
      BY <2>2 DEF BalancesNeverMix, OwnerOf
    <3> QED
      BY <2>2, <2>3, <3>1
  <2>5. /\ OwnerOf(n)' = r /\ entries'[n].running - Amount[entries'[n].doc] = job[c].balance
    BY <2>0, <2>1, <2>2 DEF OwnerOf
  <2>6. Known(job[c].balance, r)
    BY <2>0, <2>1 DEF BalancesKnown
  <2>7. job[c].balance = 0 \/
          \E j \in EntriesOf(r)' : j < n /\ entries'[j].running = job[c].balance
    BY <2>2, <2>3, <2>6 DEF Known
  <2>8. derived(n)'
    BY <2>5, <2>7
  <2> QED
    BY <2>2, <2>4, <2>8 DEF BalancesNeverMix
<1> QED
  BY <1>1, <1>2, EntriesStep

LEMMA MixStart == Init => MixInv
<1> SUFFICES ASSUME Init  PROVE MixInv
  OBVIOUS
<1>1. entries = <<>> /\ \A c \in Clients : job[c] = Idle
  BY DEF Init
<1>2. Idle \in Job /\ Idle.at = "idle"
  BY DEF Idle, Posting, Job, Steps
<1>3. TypeOK
  BY <1>2 DEF Init, TypeOK
<1>4. \A r : EntriesOf(r) = {}
  BY <1>1 DEF EntriesOf
<1> QED
  BY <1>1, <1>2, <1>3, <1>4
     DEF MixInv, JobsMeant, Busy, TimesDistinct, LatestExists, BalancesKnown, BalancesNeverMix

LEMMA MixKept == MixInv /\ [Next]_vars => MixInv'
BY TypeStep, TimesStep, LatestStep, BalancesStep, MixStep DEF MixInv

\* In any interleaving of any number of postings, with entry dates in any
\* order, a running balance is derived from one of the same retailer.
THEOREM BalancesApart == Spec => []BalancesNeverMix
<1>1. MixInv => BalancesNeverMix
  BY DEF MixInv
<1> QED
  BY <1>1, MixStart, MixKept, PTL DEF Spec

-----------------------------------------------------------------------
(* One entry per document                                               *)

\* Postings for a retailer do not overlap.
Alone ==
  \A c, d \in Clients :
    Busy(c) /\ Busy(d) /\ Owner[job[c].doc] = Owner[job[d].doc] => c = d

Fresh == \A c \in Clients : Busy(c) => ~Posted(job[c].doc)

OnceInv == MixInv /\ Alone /\ Fresh /\ EntriesDiffer

\* A step starts a posting, goes on with one that was started, or ends it.
LEMMA JobStep ==
  ASSUME TypeOK, [Next]_vars, NEW d \in Clients, Busy(d)'
  PROVE  \/ Busy(d) /\ job'[d].doc = job[d].doc /\ job'[d].date = job[d].date /\ ~Insert(d)
         \/ \E doc \in Documents, date \in Dates :
              LookUp(d, doc, date) /\ job'[d].doc = doc /\ job'[d].date = date
<1>0. job'[d] # Idle
  BY DEF Busy
<1>1. ASSUME NEW c \in Clients, NEW doc \in Documents, NEW date \in Dates, LookUp(c, doc, date), c = d
      PROVE  job'[d].doc = doc /\ job'[d].date = date
  BY <1>1 DEF LookUp, Posting, TypeOK
<1>2. ASSUME ReadBalance(d) \/ DrawNumber(d)
      PROVE  Busy(d) /\ job'[d].doc = job[d].doc /\ job'[d].date = job[d].date /\ ~Insert(d)
  BY <1>2 DEF ReadBalance, DrawNumber, Insert, Busy, Idle, Posting, TypeOK, Job
<1>3. ~Insert(d) /\ ~GiveUp(d)
  BY <1>0 DEF Insert, GiveUp, Finish, TypeOK
<1>4. \/ job'[d] = job[d] \/ ReadBalance(d) \/ DrawNumber(d) \/ Insert(d) \/ GiveUp(d)
      \/ \E doc \in Documents, date \in Dates : LookUp(d, doc, date)
  BY DEF Next, Act, vars, LookUp, ReadBalance, DrawNumber, Insert, GiveUp, Midnight, Finish, TypeOK
<1> QED
  BY <1>0, <1>1, <1>2, <1>3, <1>4 DEF Busy

LEMMA AloneStep ==
  ASSUME TypeOK, Alone, Apart, [Next]_vars
  PROVE  Alone'
<1> SUFFICES ASSUME NEW c \in Clients, NEW d \in Clients, Busy(c)', Busy(d)',
                    Owner[job'[c].doc] = Owner[job'[d].doc], c # d
             PROVE  FALSE
  BY DEF Alone
<1>1. ASSUME NEW b \in Clients, NEW doc \in Documents, NEW date \in Dates, LookUp(b, doc, date)
      PROVE  /\ \A x \in Clients : Busy(x) => Owner[job[x].doc] # Owner[doc]
             /\ \A x \in Clients \ {b} : job'[x] = job[x]
  BY <1>1 DEF LookUp, InTurn, TypeOK
<1>2. CASE \E doc \in Documents, date \in Dates :
             LookUp(c, doc, date) /\ job'[c].doc = doc /\ job'[c].date = date
  BY <1>1, <1>2 DEF Busy
<1>3. CASE \E doc \in Documents, date \in Dates :
             LookUp(d, doc, date) /\ job'[d].doc = doc /\ job'[d].date = date
  BY <1>1, <1>3 DEF Busy
<1>4. CASE Busy(c) /\ job'[c].doc = job[c].doc /\ Busy(d) /\ job'[d].doc = job[d].doc
  BY <1>4 DEF Alone
<1> QED
  BY <1>2, <1>3, <1>4, JobStep

LEMMA OnceStep ==
  ASSUME TypeOK, JobsMeant, Alone, Fresh, EntriesDiffer, Apart, [Next]_vars
  PROVE  Fresh' /\ EntriesDiffer'
<1>1. ASSUME NEW c \in Clients, Insert(c)  PROVE Fresh' /\ EntriesDiffer'
  <2>0. PICK n, e : n = Len(entries) + 1 /\ e = EntryOf(job[c])
    OBVIOUS
  <2>1. /\ e \in Entry /\ entries' = Append(entries, e) /\ e.doc = job[c].doc
        /\ Busy(c)
    BY <1>1, <2>0, Inserted DEF Insert, Busy, Idle, Posting
  <2>2. /\ DOMAIN entries' = DOMAIN entries \cup {n}
        /\ \A k \in DOMAIN entries : entries'[k] = entries[k]
        /\ entries'[n] = e
    BY <2>0, <2>1, Appended
  <2>3. \A k \in DOMAIN entries : entries[k].doc # e.doc
    BY <2>1 DEF Fresh, Posted
  <2>4. EntriesDiffer'
    BY <2>2, <2>3 DEF EntriesDiffer
  <2>5. ASSUME NEW d \in Clients, Busy(d)'  PROVE ~Posted(job[d].doc)'
    <3>1. Busy(d) /\ job'[d].doc = job[d].doc /\ d # c
      <4>1. ~\E doc \in Documents, date \in Dates : LookUp(d, doc, date)
        BY <1>1, <2>2, <2>0, Appended, <2>1 DEF LookUp, TypeOK
      <4> QED
        BY <1>1, <2>5, <4>1, JobStep
    <3>2. job[d].doc # e.doc
      BY <2>1, <3>1 DEF Alone
    <3>3. \A k \in DOMAIN entries : entries[k].doc # job[d].doc
      BY <3>1 DEF Fresh, Posted
    <3> QED
      BY <2>2, <3>1, <3>2, <3>3 DEF Posted
  <2> QED
    BY <2>4, <2>5 DEF Fresh
<1>2. ASSUME UNCHANGED entries  PROVE Fresh' /\ EntriesDiffer'
  <2>1. ASSUME NEW d \in Clients, Busy(d)'  PROVE ~Posted(job[d].doc)'
    <3>1. CASE Busy(d) /\ job'[d].doc = job[d].doc
      BY <1>2, <3>1 DEF Fresh, Posted
    <3>2. CASE \E doc \in Documents, date \in Dates : LookUp(d, doc, date) /\ job'[d].doc = doc
      BY <1>2, <3>2 DEF LookUp, Posted
    <3> QED
      BY <2>1, <3>1, <3>2, JobStep
  <2> QED
    BY <1>2, <2>1 DEF Fresh, EntriesDiffer
<1> QED
  BY <1>1, <1>2, EntriesStep

\* When postings for one retailer do not overlap, a document gets one entry,
\* however often posting it is repeated, fails or dies half way.
THEOREM PostedOnce == Spec => []OncePerDocument
<1>1. Init => MixInv /\ (Apart => OnceInv)
  <2> SUFFICES ASSUME Init  PROVE MixInv /\ OnceInv
    OBVIOUS
  <2>1. MixInv
    BY MixStart
  <2>2. entries = <<>> /\ \A c \in Clients : ~Busy(c)
    BY DEF Init, Busy
  <2> QED
    BY <2>1, <2>2 DEF OnceInv, Alone, Fresh, EntriesDiffer
<1>2. (Apart => OnceInv) /\ [Next]_vars => (Apart => OnceInv)'
  <2>1. [Next]_vars => (Apart' = Apart)
    BY DEF Next, vars, Apart
  <2> QED
    BY <2>1, MixKept, AloneStep, OnceStep DEF OnceInv, MixInv
<1>3. (Apart => OnceInv) => OncePerDocument
  BY DEF OnceInv, OncePerDocument
<1> QED
  BY <1>1, <1>2, <1>3, PTL DEF Spec

-----------------------------------------------------------------------
(* The running balance follows the posting sequence                     *)

\* The order by date and time is the posting order.
InOrder ==
  \A j, k \in DOMAIN entries : OwnerOf(j) = OwnerOf(k) /\ j < k => Before(j, k)

\* What a posting has read is still so: nothing is dated after it, timed
\* after it or posted since.
Current ==
  \A c \in Clients :
    Busy(c) =>
      /\ \A k \in EntriesOf(Owner[job[c].doc]) :
           /\ entries[k].date <= job[c].date
           /\ job[c].at = "numbered" => entries[k].time < job[c].time
      /\ job[c].at \in {"read", "numbered"} =>
           job[c].balance = LatestBalance(Owner[job[c].doc])

SequenceInv == OnceInv /\ InOrder /\ Current /\ RunningInSequence

LatestSound ==
  TypeOK => \A r : \A m \in EntriesOf(r) :
    IsLatest(m, r) => LatestBalance(r) = entries[m].running

LEMMA AlwaysSound == LatestSound
BY LatestRead DEF LatestSound

LEMMA SoundNext == LatestSound'
BY AlwaysSound, PTL

\* A retailer none of whose entries changes keeps its latest balance.
LEMMA LatestStays ==
  ASSUME TypeOK, TypeOK', LatestExists, NEW r, EntriesOf(r)' = EntriesOf(r),
         \A k \in DOMAIN entries : entries'[k] = entries[k]
  PROVE  LatestBalance(r)' = LatestBalance(r)
<1>1. CASE EntriesOf(r) = {}
  BY <1>1 DEF LatestBalance
<1>2. CASE EntriesOf(r) # {}
  <2>1. PICK m \in EntriesOf(r) : IsLatest(m, r)
    BY <1>2 DEF LatestExists
  <2>2. \A j, k \in EntriesOf(r) : Before(j, k) => Before(j, k)'
    BY Owned DEF Before
  <2>3. IsLatest(m, r)'
    BY <2>1, <2>2 DEF IsLatest
  <2>4. LatestBalance(r)' = entries'[m].running
    BY <2>3, SoundNext DEF LatestSound
  <2>5. LatestBalance(r) = entries[m].running
    BY <2>1, LatestRead
  <2> QED
    BY <2>1, <2>4, <2>5, Owned
<1> QED
  BY <1>1, <1>2

\* In posting order the latest entry is the last one posted.
LEMMA LatestIsLast ==
  ASSUME TypeOK, InOrder, NEW r, NEW m \in EntriesOf(r), IsLatest(m, r), NEW i \in EntriesOf(r)
  PROVE  i <= m
<1>1. \A k \in EntriesOf(r) :
        k \in Nat /\ entries[k].date \in Nat /\ entries[k].time \in Nat /\ OwnerOf(k) = r
  BY EntryKinds, Owned
<1> SUFFICES ASSUME m < i  PROVE FALSE
  BY <1>1
<1>2. Before(m, i) /\ Before(i, m)
  BY <1>1, Owned DEF InOrder, IsLatest
<1> QED
  BY <1>1, <1>2 DEF Before

LEMMA CurrentStep ==
  ASSUME OnceInv, OnceInv', Current, Forward, [Next]_vars
  PROVE  Current'
<1> USE DEF OnceInv, MixInv
<1> DEFINE CurrentFor(d) ==
      /\ \A k \in EntriesOf(Owner[job[d].doc]) :
           /\ entries[k].date <= job[d].date
           /\ job[d].at = "numbered" => entries[k].time < job[d].time
      /\ job[d].at \in {"read", "numbered"} =>
           job[d].balance = LatestBalance(Owner[job[d].doc])
<1> SUFFICES ASSUME NEW d \in Clients, Busy(d)'  PROVE CurrentFor(d)'
  BY DEF Current
<1>1. CASE \E c \in Clients : Insert(c)
  <2>1. PICK c \in Clients : Insert(c)
    BY <1>1
  <2>2. PICK n, e, r : n = Len(entries) + 1 /\ e = EntryOf(job[c]) /\ r = Owner[job[d].doc]
    OBVIOUS
  <2>a. Busy(c) /\ job'[c] = Idle /\ \A x \in Clients \ {c} : job'[x] = job[x]
    BY <2>1 DEF Insert, Finish, Busy, Idle, Posting, TypeOK
  <2>3. /\ e \in Entry /\ entries' = Append(entries, e) /\ e.doc = job[c].doc
        /\ Busy(c) /\ job'[c] = Idle /\ \A x \in Clients \ {c} : job'[x] = job[x]
    BY <2>1, <2>2, <2>a, Inserted
  <2>4. d # c /\ job'[d] = job[d] /\ Busy(d)
    BY <2>3 DEF Busy
  <2>5. Owner[e.doc] # r
    BY <2>2, <2>3, <2>4 DEF Alone
  <2>6. EntriesOf(r)' = EntriesOf(r) /\ \A k \in DOMAIN entries : entries'[k] = entries[k]
    BY <2>3, <2>5, OwnedAfter, Appended
  <2>7. LatestBalance(r)' = LatestBalance(r)
    BY <2>6, LatestStays
  <2>8. CurrentFor(d)
    BY <2>4 DEF Current
  <2>9. \A k \in EntriesOf(r) : entries'[k] = entries[k]
    BY <2>6, Owned
  <2>10. LatestBalance(Owner[job[d].doc])' = LatestBalance(r)'
    BY <2>2, <2>4 DEF LatestBalance, EntriesOf, OwnerOf, Before
  <2>11. EntriesOf(Owner[job[d].doc])' = EntriesOf(r)'
    BY <2>2, <2>4 DEF EntriesOf, OwnerOf
  <2> QED
    BY <2>2, <2>4, <2>6, <2>7, <2>8, <2>9, <2>10, <2>11
<1>2. ASSUME UNCHANGED entries  PROVE CurrentFor(d)'
  <2>1. PICK r : r = Owner[job'[d].doc]
    OBVIOUS
  <2>2. /\ EntriesOf(Owner[job[d].doc])' = EntriesOf(r)
        /\ LatestBalance(Owner[job[d].doc])' = LatestBalance(r)
    BY <1>2, <2>1 DEF EntriesOf, OwnerOf, LatestBalance, Before
  <2>3. CASE \E doc \in Documents, date \in Dates :
               LookUp(d, doc, date) /\ job'[d].doc = doc /\ job'[d].date = date
    <3>1. /\ job'[d].at = "absent"
          /\ \A k \in EntriesOf(r) : entries[k].date <= job'[d].date
      BY <2>1, <2>3 DEF LookUp, Dated, Posting, TypeOK
    <3> QED
      BY <1>2, <2>2, <3>1
  <2>4. ASSUME Busy(d), job'[d].doc = job[d].doc, job'[d].date = job[d].date, ~Insert(d)
        PROVE  CurrentFor(d)'
    <3>1. CurrentFor(d) /\ r = Owner[job[d].doc]
      BY <2>1, <2>4 DEF Current
    <3>2. CASE job'[d] = job[d]
      BY <1>2, <2>2, <3>1, <3>2
    <3>3. CASE ReadBalance(d)
      <4>1. job'[d].at = "read" /\ job'[d].balance = LatestBalance(r)
        BY <3>1, <3>3 DEF ReadBalance, TypeOK, Job
      <4> QED
        BY <1>2, <2>2, <2>4, <3>1, <4>1
    <3>4. CASE DrawNumber(d)
      <4>1. /\ job[d].at = "read" /\ job'[d].balance = job[d].balance
            /\ job'[d].time = stamp + 1
        BY <3>4 DEF DrawNumber, TypeOK, Job
      <4>2. \A k \in EntriesOf(r) : entries[k].time < stamp + 1
        BY EntryKinds, Owned DEF TimesDistinct, TypeOK
      <4> QED
        BY <1>2, <2>2, <2>4, <3>1, <4>1, <4>2
    <3>5. CASE GiveUp(d)
      BY <3>5 DEF GiveUp, Finish, Busy, TypeOK
    <3>6. ~\E doc \in Documents, date \in Dates : LookUp(d, doc, date)
      BY <2>4 DEF LookUp
    <3> QED
      BY <2>4, <3>2, <3>3, <3>4, <3>5, <3>6
         DEF Next, Act, vars, LookUp, ReadBalance, DrawNumber, Insert, GiveUp, Midnight, Finish, TypeOK
  <2> QED
    BY <2>3, <2>4, JobStep
<1> QED
  BY <1>1, <1>2, EntriesStep

LEMMA SequenceStep ==
  ASSUME OnceInv, InOrder, Current, RunningInSequence, [Next]_vars
  PROVE  InOrder' /\ RunningInSequence'
<1> USE DEF OnceInv, MixInv
<1>1. ASSUME NEW c \in Clients, Insert(c)  PROVE InOrder' /\ RunningInSequence'
  <2>0. PICK n, e, r : n = Len(entries) + 1 /\ e = EntryOf(job[c]) /\ r = Owner[e.doc]
    OBVIOUS
  <2>1. /\ e \in Entry /\ entries' = Append(entries, e)
        /\ e.running = job[c].balance + Amount[e.doc] /\ e.doc = job[c].doc
        /\ e.date = job[c].date /\ e.time = job[c].time
        /\ job[c].at = "numbered" /\ Busy(c)
    BY <1>1, <2>0, Inserted DEF Insert, Busy, Idle, Posting
  <2>2. /\ DOMAIN entries' = DOMAIN entries \cup {n} /\ n \in Nat
        /\ \A k \in DOMAIN entries : entries'[k] = entries[k] /\ k < n /\ k \in Nat
        /\ entries'[n] = e
    BY <2>0, <2>1, Appended
  <2>3. /\ \A q : EntriesOf(q)' = IF q = r THEN EntriesOf(q) \cup {n} ELSE EntriesOf(q)
        /\ \A q : EntriesOf(q) \subseteq DOMAIN entries
    BY <2>0, <2>1, OwnedAfter, Owned
  <2>4. /\ \A k \in DOMAIN entries : OwnerOf(k)' = OwnerOf(k)
        /\ OwnerOf(n)' = r
    BY <2>0, <2>2 DEF OwnerOf
  <2>5. \A k \in EntriesOf(r) : entries[k].date <= e.date /\ entries[k].time < e.time
    BY <2>0, <2>1 DEF Current
  <2>6. job[c].balance = LatestBalance(r)
    BY <2>0, <2>1 DEF Current
  <2>a. \A j, k : Before(j, k)' <=>
          \/ entries'[j].date < entries'[k].date
          \/ entries'[j].date = entries'[k].date /\ entries'[j].time < entries'[k].time
    BY DEF Before
  <2>7. InOrder'
    <3> SUFFICES ASSUME NEW j \in DOMAIN entries', NEW k \in DOMAIN entries',
                        OwnerOf(j)' = OwnerOf(k)', j < k
                 PROVE  Before(j, k)'
      BY DEF InOrder
    <3>1. j \in DOMAIN entries
      BY <2>2
    <3>2. CASE k \in DOMAIN entries
      BY <2>2, <2>4, <2>a, <3>1, <3>2 DEF InOrder, Before
    <3>3. CASE k = n
      <4>1. j \in EntriesOf(r)
        BY <2>4, <3>1, <3>3 DEF EntriesOf
      <4>2. e.date \in Nat /\ entries[j].date \in Nat
        BY <2>1, <3>1, EntryKinds, LedgerAssumption DEF Entry
      <4> QED
        BY <2>2, <2>5, <2>a, <3>1, <3>3, <4>1, <4>2
    <3> QED
      BY <2>2, <3>2, <3>3
  <2>8. ASSUME NEW k \in DOMAIN entries
        PROVE  \/ First(k)' /\ entries'[k].running = Amount[entries'[k].doc]
               \/ \E j \in DOMAIN entries' :
                    /\ JustBefore(j, k)'
                    /\ entries'[k].running = entries'[j].running + Amount[entries'[k].doc]
    <3>1. First(k) => First(k)'
      BY <2>2, <2>3, <2>4 DEF First
    <3>2. \A j \in DOMAIN entries : JustBefore(j, k) => JustBefore(j, k)'
      BY <2>2, <2>3, <2>4 DEF JustBefore
    <3> QED
      BY <2>2, <3>1, <3>2 DEF RunningInSequence
  <2>9. \/ First(n)' /\ entries'[n].running = Amount[entries'[n].doc]
        \/ \E j \in DOMAIN entries' :
             /\ JustBefore(j, n)'
             /\ entries'[n].running = entries'[j].running + Amount[entries'[n].doc]
    <3>0. Amount[e.doc] \in Int
      BY <2>1, LedgerAssumption DEF Entry
    <3>1. CASE EntriesOf(r) = {}
      <4>1. First(n)'
        BY <2>2, <2>3, <2>4, <3>1 DEF First
      <4>2. LatestBalance(r) = 0
        BY <3>1 DEF LatestBalance
      <4> QED
        BY <2>1, <2>2, <2>6, <3>0, <4>1, <4>2
    <3>2. CASE EntriesOf(r) # {}
      <4>1. PICK m \in EntriesOf(r) : IsLatest(m, r)
        BY <3>2 DEF LatestExists
      <4>2. LatestBalance(r) = entries[m].running
        BY <4>1, LatestRead
      <4>3. \A i \in EntriesOf(r) : i <= m
        BY <4>1, LatestIsLast
      <4>4. JustBefore(m, n)'
        BY <2>2, <2>3, <2>4, <4>3 DEF JustBefore
      <4> QED
        BY <2>1, <2>2, <2>3, <2>6, <4>2, <4>4
    <3> QED
      BY <3>1, <3>2
  <2>10. RunningInSequence'
    BY <2>2, <2>8, <2>9 DEF RunningInSequence
  <2> QED
    BY <2>7, <2>10
<1>2. CASE UNCHANGED entries
  BY <1>2 DEF InOrder, RunningInSequence, First, JustBefore, EntriesOf, OwnerOf, Before
<1> QED
  BY <1>1, <1>2, EntriesStep

\* When postings for one retailer neither overlap nor go back in time, the
\* running balances are computed in posting sequence, however postings for
\* other retailers interleave and whatever fails half way.
THEOREM BalancesInSequence == Spec => []OrderlyRunning
<1> DEFINE Inv == Apart /\ Forward => SequenceInv
<1>1. Init => Inv
  <2> SUFFICES ASSUME Init  PROVE SequenceInv
    OBVIOUS
  <2>1. MixInv
    BY MixStart
  <2>2. entries = <<>> /\ \A c \in Clients : ~Busy(c)
    BY DEF Init, Busy
  <2> QED
    BY <2>1, <2>2
       DEF SequenceInv, OnceInv, Alone, Fresh, EntriesDiffer, InOrder, Current, RunningInSequence
<1>2. Inv /\ [Next]_vars => Inv'
  <2>0. [Next]_vars => (Apart' = Apart) /\ (Forward' = Forward)
    BY DEF Next, vars, Apart, Forward
  <2> SUFFICES ASSUME SequenceInv, Apart, Forward, [Next]_vars  PROVE SequenceInv'
    BY <2>0
  <2>1. OnceInv'
    BY MixKept, AloneStep, OnceStep DEF SequenceInv, OnceInv, MixInv
  <2>2. Current'
    BY <2>1, CurrentStep DEF SequenceInv
  <2>3. InOrder' /\ RunningInSequence'
    BY SequenceStep DEF SequenceInv
  <2> QED
    BY <2>1, <2>2, <2>3 DEF SequenceInv
<1>3. Inv => OrderlyRunning
  BY DEF SequenceInv, OrderlyRunning
<1> HIDE DEF Inv
<1> QED
  BY <1>1, <1>2, <1>3, PTL DEF Spec

-----------------------------------------------------------------------
(* The credit of a retailer, for any number of invoices, overrides and    *)
(* requests.                                                               *)

CreditSteps == {"read", "cacheProfile", "cacheMetric", "decide", "create", "post", "setLimit", "setProfile"}
InvoiceRow == [status : {"none", "draft", "posted", "cancelled"}, total : Nat, owed : Nat, late : BOOLEAN]
Asking ==
  [op : {"look", "bill", "settle"} \cup Terms, todo : Seq(CreditSteps),
   invoice : Invoices \cup {"none"}, order : Orders \cup {"none"}, amount : Nat,
   status : {"none", "draft", "posted"}, policy : Policies, limit : Nat, owed : Nat, late : BOOLEAN]

CreditTyped ==
  /\ invoice \in [Invoices -> InvoiceRow] /\ limit \in Nat
  /\ profile \in [made : BOOLEAN, limit : Nat, policy : Policies, owed : Nat]
  /\ metric \in [made : BOOLEAN, owed : Nat, late : BOOLEAN]
  /\ agreed \in [limit : Nat, policy : Policies]
  /\ req \in [Sessions -> {AtRest} \cup Asking]

\* A request has steps left, in the order its kind has them; what it posts it
\* refreshes for.
Has(r, s) == \E i \in 1..Len(r.todo) : r.todo[i] = s
Ordered(r) ==
  \A i \in 2..Len(r.todo) :
    /\ r.todo[i] = "cacheProfile" => r.todo[i - 1] = "read"
    /\ r.todo[i] = "cacheMetric" => r.todo[i - 1] = "cacheProfile"
    /\ r.todo[i] = "decide" => r.todo[i - 1] = "cacheMetric"
    /\ r.todo[i] \in {"create", "post"} => r.todo[i - 1] = "decide"
    /\ r.todo[i] = "setProfile" => r.todo[i - 1] = "setLimit"
Planned(r) ==
  \A i \in 1..Len(r.todo) :
    /\ r.todo[i] \in {"decide", "create", "post"} => r.op = "bill"
    /\ r.todo[i] \in {"setLimit", "setProfile"} => r.op \in Terms
    /\ r.todo[i] = "setLimit" => i < Len(r.todo) /\ r.todo[i + 1] = "setProfile"
    /\ r.todo[i] = "create" => r.status # "none"
    /\ r.todo[i] = "post" => r.invoice \in Invoices /\ r.status = "posted" /\ \A j \in i + 1..Len(r.todo) : r.todo[j] # "post"
    /\ r.todo[i] \in {"create", "post"} /\ r.status = "posted" =>
         /\ \E j \in i + 1..Len(r.todo) : r.todo[j] = "cacheProfile"
         /\ \E j \in i + 1..Len(r.todo) : r.todo[j] = "cacheMetric"
Shaped(r) == r.todo # <<>> /\ Ordered(r) /\ Planned(r)
Shapes == \A c \in Sessions : req[c] # AtRest => Shaped(req[c])

\* While terms are given alone: what was agreed on is in force, but between the two
\* steps that give it, and every limit that was read is the one agreed on.
AgreedOn == profile.policy = agreed.policy /\ (profile.made => profile.limit = agreed.limit)
GivenAlone == \A c, d \in Sessions : req[c].op \in Terms /\ req[d] # AtRest => c = d
OnTerms(c) ==
  /\ At(c, "setProfile") =>
       /\ req[c].amount = agreed.limit
       /\ agreed.policy = IF req[c].op = "upsertProfile" THEN req[c].policy ELSE profile.policy
  /\ At(c, "cacheProfile") => req[c].limit = agreed.limit
  /\ At(c, "create") \/ At(c, "post") => agreed.policy.active
TermsInv ==
  TermsAlone =>
    /\ GivenAlone /\ limit = agreed.limit
    /\ (\A c \in Sessions : ~At(c, "setProfile")) => AgreedOn
    /\ \A c \in Sessions : OnTerms(c)

\* Requests one by one: what a request has read still is so, and what is cached is
\* what is owed, or will be by the request that is under way.
Comes(s) == \E c \in Sessions : req[c] # AtRest /\ Has(req[c], s)
OneAtATime == \A c, d \in Sessions : req[c] # AtRest /\ req[d] # AtRest => c = d
Informed(c) ==
  /\ At(c, "cacheProfile") \/ At(c, "cacheMetric") => req[c].owed = Owed /\ req[c].late = Late
  /\ At(c, "cacheMetric") => profile.made /\ profile.owed = Owed
  /\ At(c, "decide") \/ At(c, "create") \/ At(c, "post") =>
       profile.made /\ profile.owed = Owed /\ metric.owed = Owed /\ metric.late = Late
  /\ At(c, "create") \/ At(c, "post") => Allowed(req[c].amount, req[c].order)
  /\ req[c] # AtRest /\ Has(req[c], "post") =>
       invoice[req[c].invoice].status = "draft" /\ invoice[req[c].invoice].owed = req[c].amount
Cached ==
  died = {} => /\ profile.owed = Owed \/ Comes("cacheProfile")
               /\ metric.owed = Owed \/ Comes("cacheMetric")
TurnInv == OneByOne => OneAtATime /\ Cached /\ \A c \in Sessions : Informed(c)

CreditInv == CreditTyped /\ Shapes /\ TermsInv /\ TurnInv

-----------------------------------------------------------------------
\* The plans requests begin with.
LEMMA RefreshIs ==
  /\ Refresh \in Seq(CreditSteps) /\ Len(Refresh) = 3
  /\ Refresh[1] = "read" /\ Refresh[2] = "cacheProfile" /\ Refresh[3] = "cacheMetric"
BY DEF Refresh, CreditSteps

LEMMA JoinedPlans ==
  ASSUME NEW s \in Seq(CreditSteps), NEW t \in Seq(CreditSteps)
  PROVE  /\ s \o t \in Seq(CreditSteps) /\ Len(s \o t) = Len(s) + Len(t)
         /\ \A i \in 1..Len(s) : (s \o t)[i] = s[i]
         /\ \A i \in 1..Len(t) : (s \o t)[Len(s) + i] = t[i]
OBVIOUS

\* A refresh, the two steps it is for, and a refresh after them or nothing.
Long(a, b, n) == Refresh \o <<a, b>> \o IF n = 8 THEN Refresh ELSE <<>>

Spelled(s, a, b, n) ==
  /\ s \in Seq(CreditSteps) /\ Len(s) = n
  /\ s[1] = "read" /\ s[2] = "cacheProfile" /\ s[3] = "cacheMetric" /\ s[4] = a /\ s[5] = b
  /\ n = 8 => s[6] = "read" /\ s[7] = "cacheProfile" /\ s[8] = "cacheMetric"

LEMMA NotEmpty ==
  ASSUME NEW s \in Seq(CreditSteps), Len(s) # 0
  PROVE  s # <<>> /\ Head(s) = s[1]
OBVIOUS

LEMMA LongPlan ==
  ASSUME NEW a \in CreditSteps, NEW b \in CreditSteps, NEW n \in {5, 8},
         NEW s, s = Long(a, b, n)
  PROVE  Spelled(s, a, b, n)
<1> DEFINE m == <<a, b>>
           t == IF n = 8 THEN Refresh ELSE <<>>
           u == Refresh \o m
<1>0. s = u \o t
  BY DEF Long
<1>1. m \in Seq(CreditSteps) /\ Len(m) = 2 /\ m[1] = a /\ m[2] = b
  OBVIOUS
<1> HIDE DEF m
<1>2. t \in Seq(CreditSteps) /\ Len(t) = (IF n = 8 THEN 3 ELSE 0) /\ (n = 8 => t = Refresh)
  <2>1. CASE n = 8
    BY <2>1, RefreshIs
  <2>2. CASE n = 5
    BY <2>2
  <2> QED
    BY <2>1, <2>2
<1> HIDE DEF m, t
<1>3. /\ u \in Seq(CreditSteps) /\ Len(u) = 5
      /\ u[1] = "read" /\ u[2] = "cacheProfile" /\ u[3] = "cacheMetric" /\ u[4] = m[1] /\ u[5] = m[2]
  <2>1. /\ u \in Seq(CreditSteps) /\ Len(u) = Len(Refresh) + Len(m)
        /\ \A i \in 1..Len(Refresh) : u[i] = Refresh[i]
        /\ \A i \in 1..Len(m) : u[Len(Refresh) + i] = m[i]
    BY <1>1, RefreshIs, JoinedPlans
  <2> HIDE DEF u
  <2>2. u[1] = "read" /\ u[2] = "cacheProfile" /\ u[3] = "cacheMetric" /\ Len(u) = 5
    BY <1>1, <2>1, RefreshIs
  <2>3. 1 \in 1..Len(m) /\ 2 \in 1..Len(m) /\ Len(Refresh) + 1 = 4 /\ Len(Refresh) + 2 = 5
    BY <1>1, RefreshIs
  <2>4. u[Len(Refresh) + 1] = m[1] /\ u[Len(Refresh) + 2] = m[2]
    BY <2>1, <2>3
  <2> QED
    BY <1>1, <2>1, <2>2, <2>3, <2>4
<1> HIDE DEF u
<1>4. /\ s \in Seq(CreditSteps) /\ Len(s) = Len(u) + Len(t)
      /\ \A i \in 1..Len(u) : s[i] = u[i]
      /\ \A i \in 1..Len(t) : s[Len(u) + i] = t[i]
  <2>1. /\ u \o t \in Seq(CreditSteps) /\ Len(u \o t) = Len(u) + Len(t)
        /\ \A i \in 1..Len(u) : (u \o t)[i] = u[i]
        /\ \A i \in 1..Len(t) : (u \o t)[Len(u) + i] = t[i]
    BY <1>2, <1>3, JoinedPlans
  <2> QED
    BY <1>0, <2>1
<1>5. s[1] = "read" /\ s[2] = "cacheProfile" /\ s[3] = "cacheMetric" /\ s[4] = a /\ s[5] = b
  BY <1>1, <1>3, <1>4
<1>6. ASSUME n = 8 PROVE s[6] = "read" /\ s[7] = "cacheProfile" /\ s[8] = "cacheMetric"
  <2>0. /\ 1 \in 1..Len(t) /\ 2 \in 1..Len(t) /\ 3 \in 1..Len(t)
        /\ Len(u) + 1 = 6 /\ Len(u) + 2 = 7 /\ Len(u) + 3 = 8
    <3>1. Len(t) = 3 /\ Len(u) = 5
      BY <1>2, <1>3, <1>6
    <3> QED
      BY <3>1
  <2>1. s[6] = t[1] /\ s[7] = t[2] /\ s[8] = t[3]
    BY <1>4, <2>0
  <2> QED
    BY <1>2, <1>3, <1>4, <1>6, <2>1, RefreshIs
<1>7. Len(s) = n
  BY <1>2, <1>3, <1>4
<1> QED
  BY <1>4, <1>5, <1>6, <1>7 DEF Spelled

\* A request that begins is shaped as its kind has it, and has something to do.
LEMMA AsksIs ==
  ASSUME NEW op, NEW todo
  PROVE  /\ Asks(op, todo).op = op /\ Asks(op, todo).todo = todo /\ Asks(op, todo).status = "none"
         /\ Asks(op, todo) # AtRest
BY DEF Asks, AtRest

LEMMA ShapedRefresh ==
  ASSUME NEW r, r.todo = Refresh, r.op \in {"look", "bill", "settle"}
  PROVE  Shaped(r) /\ Head(r.todo) = "read" /\ ~Has(r, "post") /\ Has(r, "cacheProfile") /\ Has(r, "cacheMetric")
<1> DEFINE s == r.todo
<1>1. s \in Seq(CreditSteps) /\ Len(s) = 3 /\ s[1] = "read" /\ s[2] = "cacheProfile" /\ s[3] = "cacheMetric"
  BY RefreshIs
<1> HIDE DEF s
<1>2. s # <<>> /\ Head(s) = s[1]
  BY <1>1
<1>3. 1..Len(s) = {1, 2, 3} /\ 2..Len(s) = {2, 3}
  BY <1>1
<1>4. Ordered(r)
  BY <1>1, <1>3 DEF Ordered, s
<1>5. Planned(r)
  BY <1>1, <1>3 DEF Planned, s
<1>6. ~Has(r, "post") /\ Has(r, "cacheProfile") /\ Has(r, "cacheMetric")
  BY <1>1, <1>3 DEF Has, s
<1> QED
  BY <1>1, <1>2, <1>4, <1>5, <1>6 DEF Shaped, s

LEMMA ShapedBill ==
  ASSUME NEW r, NEW b \in {"create", "post"}, NEW n \in {5, 8}, r.todo = Long("decide", b, n),
         r.op = "bill", r.status \in {"draft", "posted"}, r.status = "posted" => n = 8,
         b = "post" => r.invoice \in Invoices /\ r.status = "posted"
  PROVE  Shaped(r) /\ r.todo \in Seq(CreditSteps) /\ Head(r.todo) = "read" /\ (Has(r, "post") => b = "post")
         /\ Has(r, "cacheProfile") /\ Has(r, "cacheMetric")
<1> DEFINE s == r.todo
<1>0. s = Long("decide", b, n)
  OBVIOUS
<1> HIDE DEF s
<1>1. /\ s \in Seq(CreditSteps) /\ Len(s) = n
      /\ s[1] = "read" /\ s[2] = "cacheProfile" /\ s[3] = "cacheMetric" /\ s[4] = "decide" /\ s[5] = b
      /\ n = 8 => s[6] = "read" /\ s[7] = "cacheProfile" /\ s[8] = "cacheMetric"
  <2>1. "decide" \in CreditSteps /\ b \in CreditSteps
    BY DEF CreditSteps
  <2>2. Spelled(s, "decide", b, n)
    BY <1>0, <2>1, LongPlan
  <2> QED
    BY <2>2 DEF Spelled
<1>2. s # <<>> /\ Head(s) = s[1]
  BY <1>1
<1>3. \/ n = 8 /\ 1..Len(s) = {1, 2, 3, 4, 5, 6, 7, 8} /\ 2..Len(s) = {2, 3, 4, 5, 6, 7, 8}
      \/ n = 5 /\ 1..Len(s) = {1, 2, 3, 4, 5} /\ 2..Len(s) = {2, 3, 4, 5}
  <2>1. CASE n = 8
    BY <1>1, <2>1
  <2>2. CASE n = 5
    BY <1>1, <2>2
  <2> QED
    BY <2>1, <2>2
<1>4. Ordered(r)
  <2>1. CASE n = 8
    <3>1. \A i \in {2, 3, 4, 5, 6, 7, 8} :
            /\ s[i] = "cacheProfile" => s[i - 1] = "read"
            /\ s[i] = "cacheMetric" => s[i - 1] = "cacheProfile"
            /\ s[i] = "decide" => s[i - 1] = "cacheMetric"
            /\ s[i] \in {"create", "post"} => s[i - 1] = "decide"
            /\ s[i] # "setProfile"
      BY <1>1, <2>1
    <3>2. 2..Len(s) = {2, 3, 4, 5, 6, 7, 8}
      BY <1>1, <2>1
    <3> QED
      BY <3>1, <3>2 DEF Ordered, s
  <2>2. CASE n = 5
    <3>1. \A i \in {2, 3, 4, 5} :
            /\ s[i] = "cacheProfile" => s[i - 1] = "read"
            /\ s[i] = "cacheMetric" => s[i - 1] = "cacheProfile"
            /\ s[i] = "decide" => s[i - 1] = "cacheMetric"
            /\ s[i] \in {"create", "post"} => s[i - 1] = "decide"
            /\ s[i] # "setProfile"
      BY <1>1
    <3>2. 2..Len(s) = {2, 3, 4, 5}
      BY <1>1, <2>2
    <3> QED
      BY <3>1, <3>2 DEF Ordered, s
  <2> QED
    BY <2>1, <2>2
<1>5. Planned(r)
  <2> SUFFICES ASSUME NEW i \in 1..Len(s)
               PROVE  /\ s[i] \in {"decide", "create", "post"} => r.op = "bill"
                      /\ s[i] \notin {"setLimit", "setProfile"}
                      /\ s[i] = "create" => r.status # "none"
                      /\ s[i] = "post" => r.invoice \in Invoices /\ r.status = "posted" /\ \A j \in i + 1..Len(s) : s[j] # "post"
                      /\ s[i] \in {"create", "post"} /\ r.status = "posted" =>
                           /\ \E j \in i + 1..Len(s) : s[j] = "cacheProfile"
                           /\ \E j \in i + 1..Len(s) : s[j] = "cacheMetric"
    BY DEF Planned, s
  <2>1. s[i] \in {"create", "post"} => i = 5 /\ s[i] = b
    BY <1>1, <1>3
  <2>2. n = 8 => 7 \in 5 + 1..Len(s) /\ 8 \in 5 + 1..Len(s)
    BY <1>1
  <2>3. s[i] \notin {"setLimit", "setProfile"}
    BY <1>1, <1>3
  <2>4. s[i] \in {"create", "post"} /\ r.status = "posted" =>
           /\ \E j \in i + 1..Len(s) : s[j] = "cacheProfile"
           /\ \E j \in i + 1..Len(s) : s[j] = "cacheMetric"
    BY <1>1, <2>1, <2>2
  <2>5. s[i] = "post" => \A j \in i + 1..Len(s) : s[j] # "post"
    BY <1>1, <2>1
  <2> QED
    BY <2>1, <2>3, <2>4, <2>5
<1>6. (Has(r, "post") => b = "post") /\ Has(r, "cacheProfile") /\ Has(r, "cacheMetric")
  BY <1>1, <1>3 DEF Has, s
<1> QED
  BY <1>1, <1>2, <1>4, <1>5, <1>6 DEF Shaped, s

LEMMA ShapedUpsert ==
  ASSUME NEW r, r.op \in Terms, NEW n, n = 8, r.todo = Long("setLimit", "setProfile", n)
  PROVE  Shaped(r) /\ r.todo \in Seq(CreditSteps) /\ Head(r.todo) = "read" /\ ~Has(r, "post")
<1> DEFINE s == r.todo
<1>1. /\ s \in Seq(CreditSteps) /\ Len(s) = 8 /\ s[1] = "read" /\ s[2] = "cacheProfile" /\ s[3] = "cacheMetric"
      /\ s[4] = "setLimit" /\ s[5] = "setProfile" /\ s[6] = "read" /\ s[7] = "cacheProfile" /\ s[8] = "cacheMetric"
  <2>1. "setLimit" \in CreditSteps /\ "setProfile" \in CreditSteps
    BY DEF CreditSteps
  <2> HIDE DEF s
  <2>2. s = Long("setLimit", "setProfile", n)
    BY DEF s
  <2>3. Spelled(s, "setLimit", "setProfile", n)
    BY <2>1, <2>2, LongPlan
  <2> QED
    BY <2>3 DEF Spelled
<1> HIDE DEF s
<1>2. s # <<>> /\ Head(s) = s[1]
  <2>1. Len(s) # 0
    BY <1>1
  <2> QED
    BY <1>1, <2>1, NotEmpty
<1>3. 1..Len(s) = {1, 2, 3, 4, 5, 6, 7, 8} /\ 2..Len(s) = {2, 3, 4, 5, 6, 7, 8}
  BY <1>1
<1>4. Ordered(r)
  <2>1. \A i \in {2, 3, 4, 5, 6, 7, 8} :
          /\ s[i] = "cacheProfile" => s[i - 1] = "read"
          /\ s[i] = "cacheMetric" => s[i - 1] = "cacheProfile"
          /\ s[i] \notin {"decide", "create", "post"}
          /\ s[i] = "setProfile" => s[i - 1] = "setLimit"
    BY <1>1
  <2> QED
    BY <1>3, <2>1 DEF Ordered, s
<1>5. Planned(r)
  <2> SUFFICES ASSUME NEW i \in 1..Len(s)
               PROVE  /\ s[i] \notin {"decide", "create", "post"}
                      /\ s[i] = "setLimit" => i < Len(s) /\ s[i + 1] = "setProfile"
    BY DEF Planned, s
  <2>1. s[i] = "setLimit" => i = 4
    BY <1>1, <1>3
  <2> QED
    BY <1>1, <1>3, <2>1
<1>6. ~Has(r, "post")
  BY <1>1, <1>3 DEF Has, s
<1> QED
  BY <1>1, <1>2, <1>4, <1>5, <1>6 DEF Shaped, s

LEMMA ShapedSettings ==
  ASSUME NEW r, r.op \in Terms, r.todo = <<"setLimit", "setProfile">>
  PROVE  Shaped(r) /\ r.todo \in Seq(CreditSteps) /\ Head(r.todo) = "setLimit" /\ ~Has(r, "post")
<1> DEFINE s == r.todo
<1>1. s \in Seq(CreditSteps) /\ Len(s) = 2 /\ s[1] = "setLimit" /\ s[2] = "setProfile"
  BY DEF CreditSteps
<1> HIDE DEF s
<1>2. s # <<>> /\ Head(s) = s[1] /\ 1..Len(s) = {1, 2} /\ 2..Len(s) = {2}
  BY <1>1
<1> QED
  BY <1>1, <1>2 DEF Shaped, Ordered, Planned, Has, s

-----------------------------------------------------------------------
\* A request after its first step.

LEMMA EmptyPlan == \A s \in Seq(CreditSteps) : s = <<>> <=> Len(s) = 0
OBVIOUS

LEMMA TailOfPlan ==
  ASSUME NEW s \in Seq(CreditSteps), s # <<>>
  PROVE  /\ Len(s) \in Nat /\ Len(s) >= 1 /\ Head(s) = s[1] /\ Head(s) \in CreditSteps
         /\ Tail(s) \in Seq(CreditSteps) /\ Len(Tail(s)) = Len(s) - 1
         /\ \A i \in 1..Len(s) - 1 : Tail(s)[i] = s[i + 1]
         /\ Tail(s) = <<>> <=> Len(s) = 1
<1>1. /\ Len(s) \in Nat /\ Len(s) >= 1 /\ Head(s) = s[1] /\ Head(s) \in CreditSteps
      /\ Tail(s) \in Seq(CreditSteps) /\ Len(Tail(s)) = Len(s) - 1
      /\ \A i \in 1..Len(s) - 1 : Tail(s)[i] = s[i + 1]
  OBVIOUS
<1> QED
  BY <1>1, EmptyPlan

\* Each step comes after the one it needs.
Follows(old, new) ==
  /\ new = "cacheProfile" => old = "read"
  /\ new = "cacheMetric" => old = "cacheProfile"
  /\ new = "decide" => old = "cacheMetric"
  /\ new \in {"create", "post"} => old = "decide"
  /\ new = "setProfile" <=> old = "setLimit"

\* What is left of a request keeps its shape.
SameButTodo(q, r) ==
  q.op = r.op /\ q.invoice = r.invoice /\ q.order = r.order /\ q.amount = r.amount /\ q.status = r.status /\ q.policy = r.policy

LEMMA GoesOn ==
  ASSUME NEW r, r.todo \in Seq(CreditSteps), Shaped(r), NEW q, q.todo = Tail(r.todo), SameButTodo(q, r)
  PROVE  /\ q.todo \in Seq(CreditSteps)
         /\ q.todo # <<>> => Shaped(q) /\ Follows(Head(r.todo), Head(q.todo))
         /\ Head(r.todo) = "setLimit" => q.todo # <<>>
         /\ \A s : Has(q, s) => Has(r, s)
         /\ \A s : Has(r, s) => s = Head(r.todo) \/ Has(q, s)
         /\ Head(r.todo) = "post" => ~Has(q, "post")
         /\ Head(r.todo) \in {"create", "post"} /\ r.status = "posted" => Has(q, "cacheProfile") /\ Has(q, "cacheMetric")
<1> DEFINE s == r.todo
           u == q.todo
           n == Len(s)
<1>1. /\ n \in Nat /\ n >= 1 /\ Head(s) = s[1] /\ u \in Seq(CreditSteps) /\ Len(u) = n - 1
      /\ \A i \in 1..n - 1 : u[i] = s[i + 1]
      /\ u = <<>> <=> n = 1
  BY TailOfPlan DEF Shaped
<1>2. /\ Ordered(r) /\ Planned(r)
      /\ q.op = r.op /\ q.invoice = r.invoice /\ q.status = r.status
  BY DEF Shaped, SameButTodo
<1> HIDE DEF s, u, n
<1>3. \A x : Has(q, x) => Has(r, x)
  <2> SUFFICES ASSUME NEW x, NEW i \in 1..Len(u), u[i] = x PROVE \E j \in 1..n : s[j] = x
    BY DEF Has, s, u, n
  <2> QED
    BY <1>1
<1>4. \A x : Has(r, x) => x = Head(s) \/ Has(q, x)
  <2> SUFFICES ASSUME NEW x, NEW i \in 1..n, s[i] = x, i # 1 PROVE \E j \in 1..Len(u) : u[j] = x
    BY <1>1 DEF Has, s, u, n
  <2>1. i - 1 \in 1..n - 1 /\ (i - 1) + 1 = i
    BY <1>1
  <2> QED
    BY <1>1, <2>1
<1>5. ASSUME u # <<>> PROVE Shaped(q) /\ Follows(Head(s), Head(u))
  <2>1. n >= 2 /\ Head(u) = u[1] /\ u[1] = s[2]
    BY <1>1, <1>5, TailOfPlan
  <2>2. Ordered(q)
    <3> SUFFICES ASSUME NEW i \in 2..Len(u)
                 PROVE  /\ u[i] = "cacheProfile" => u[i - 1] = "read"
                        /\ u[i] = "cacheMetric" => u[i - 1] = "cacheProfile"
                        /\ u[i] = "decide" => u[i - 1] = "cacheMetric"
                        /\ u[i] \in {"create", "post"} => u[i - 1] = "decide"
                        /\ u[i] = "setProfile" => u[i - 1] = "setLimit"
      BY DEF Ordered, u
    <3>1. i + 1 \in 2..n /\ (i + 1) - 1 = i /\ u[i] = s[i + 1] /\ i - 1 \in 1..n - 1 /\ u[i - 1] = s[(i - 1) + 1] /\ (i - 1) + 1 = i
      BY <1>1
    <3>2. s[(i + 1) - 1] = u[i - 1]
      BY <3>1
    <3> QED
      BY <1>2, <3>1, <3>2 DEF Ordered, s, n
  <2>3. Planned(q)
    <3> SUFFICES ASSUME NEW i \in 1..Len(u)
                 PROVE  /\ u[i] \in {"decide", "create", "post"} => r.op = "bill"
                        /\ u[i] \in {"setLimit", "setProfile"} => r.op \in Terms
                        /\ u[i] = "setLimit" => i < Len(u) /\ u[i + 1] = "setProfile"
                        /\ u[i] = "create" => r.status # "none"
                        /\ u[i] = "post" => r.invoice \in Invoices /\ r.status = "posted" /\ \A j \in i + 1..Len(u) : u[j] # "post"
                        /\ u[i] \in {"create", "post"} /\ r.status = "posted" =>
                             /\ \E j \in i + 1..Len(u) : u[j] = "cacheProfile"
                             /\ \E j \in i + 1..Len(u) : u[j] = "cacheMetric"
      BY <1>2 DEF Planned, u
    <3> DEFINE k == i + 1
    <3>1. k \in 1..n /\ u[i] = s[k]
      BY <1>1
    <3>2. /\ s[k] \in {"decide", "create", "post"} => r.op = "bill"
          /\ s[k] \in {"setLimit", "setProfile"} => r.op \in Terms
          /\ s[k] = "setLimit" => k < n /\ s[k + 1] = "setProfile"
          /\ s[k] = "create" => r.status # "none"
          /\ s[k] = "post" => r.invoice \in Invoices /\ r.status = "posted" /\ \A j \in k + 1..n : s[j] # "post"
          /\ s[k] \in {"create", "post"} /\ r.status = "posted" =>
               /\ \E j \in k + 1..n : s[j] = "cacheProfile"
               /\ \E j \in k + 1..n : s[j] = "cacheMetric"
      BY <1>2, <3>1 DEF Planned, s, n
    <3>3. \A x : (\E j \in k + 1..n : s[j] = x) => \E j \in i + 1..Len(u) : u[j] = x
      <4> SUFFICES ASSUME NEW x, NEW j \in k + 1..n, s[j] = x PROVE \E l \in i + 1..Len(u) : u[l] = x
        OBVIOUS
      <4>1. j - 1 \in i + 1..Len(u) /\ j - 1 \in 1..n - 1 /\ (j - 1) + 1 = j
        BY <1>1, <3>1
      <4> QED
        BY <1>1, <4>1
    <3>4. \A x : (\A j \in k + 1..n : s[j] # x) => \A j \in i + 1..Len(u) : u[j] # x
      <4> SUFFICES ASSUME NEW x, NEW j \in i + 1..Len(u), u[j] = x PROVE \E l \in k + 1..n : s[l] = x
        OBVIOUS
      <4>1. j + 1 \in k + 1..n /\ j \in 1..n - 1
        BY <1>1, <3>1
      <4> QED
        BY <1>1, <4>1
    <3>5. k < n => i < Len(u) /\ u[i + 1] = s[k + 1]
      BY <1>1, <3>1
    <3> HIDE DEF k
    <3> QED
      BY <3>1, <3>2, <3>3, <3>4, <3>5
  <2>4. Follows(s[1], s[2])
    <3>1. 2 \in 2..n /\ 1 \in 1..n /\ 2 - 1 = 1 /\ 1 + 1 = 2
      BY <1>1, <2>1
    <3>2. /\ s[2] = "cacheProfile" => s[1] = "read"
          /\ s[2] = "cacheMetric" => s[1] = "cacheProfile"
          /\ s[2] = "decide" => s[1] = "cacheMetric"
          /\ s[2] \in {"create", "post"} => s[1] = "decide"
          /\ s[2] = "setProfile" => s[1] = "setLimit"
      BY <1>2, <3>1 DEF Ordered, s, n
    <3>3. s[1] = "setLimit" => s[2] = "setProfile"
      BY <1>2, <3>1 DEF Planned, s, n
    <3> QED
      BY <3>2, <3>3 DEF Follows
  <2> QED
    BY <1>1, <1>5, <2>1, <2>2, <2>3, <2>4 DEF Shaped, u
<1>6. Head(s) = "setLimit" => u # <<>>
  <2>1. s[1] = "setLimit" => 1 < n
    BY <1>1, <1>2 DEF Planned, s, n
  <2> QED
    BY <1>1, <2>1
<1>7. Head(s) = "post" => ~Has(q, "post")
  <2> SUFFICES ASSUME s[1] = "post", NEW i \in 1..Len(u), u[i] = "post" PROVE FALSE
    BY <1>1 DEF Has, u
  <2>1. 1 \in 1..n /\ i + 1 \in 1 + 1..n /\ s[i + 1] = "post"
    BY <1>1
  <2>2. \A j \in 1 + 1..n : s[j] # "post"
    BY <1>2, <2>1 DEF Planned, s, n
  <2> QED
    BY <2>1, <2>2
<1>8. ASSUME Head(s) \in {"create", "post"}, r.status = "posted" PROVE Has(q, "cacheProfile") /\ Has(q, "cacheMetric")
  <2>1. 1 \in 1..n /\ s[1] \in {"create", "post"}
    BY <1>1, <1>8
  <2>2. (\E j \in 1 + 1..n : s[j] = "cacheProfile") /\ (\E j \in 1 + 1..n : s[j] = "cacheMetric")
    BY <1>2, <1>8, <2>1 DEF Planned, s, n
  <2>3. Has(r, "cacheProfile") /\ Has(r, "cacheMetric")
    <3>1. \A j \in 1 + 1..n : j \in 1..n
      BY <1>1
    <3> QED
      BY <2>2, <3>1 DEF Has, s, n
  <2> QED
    BY <1>4, <1>8, <2>3
<1> QED
  BY <1>1, <1>3, <1>4, <1>5, <1>6, <1>7, <1>8 DEF s, u

-----------------------------------------------------------------------
\* What is owed of all invoices: a total, whatever the order they are summed in.
Live(v) == {i \in Invoices : v[i].status = "posted"}
OwedOf(v) == FoldFunctionOnSet(+, 0, [i \in Live(v) |-> v[i].owed], Live(v))

LEMMA OwedIs == Owed = OwedOf(invoice) /\ Owed' = OwedOf(invoice')
<1>1. Owed = OwedOf(invoice)
  BY DEF Owed, OwedOf, Live
<1>2. (Owed = OwedOf(invoice))'
  BY <1>1, PTL
<1> QED
  BY <1>1, <1>2

LEMMA OwedTotal ==
  ASSUME NEW v \in [Invoices -> InvoiceRow]
  PROVE  /\ IsFiniteSet(Live(v)) /\ Live(v) \in SUBSET Invoices /\ OwedOf(v) \in Nat
         /\ OwedOf(v) = Total([i \in Live(v) |-> v[i].owed], Live(v))
<1> DEFINE f == [i \in Live(v) |-> v[i].owed]
<1>1. Live(v) \in SUBSET Invoices /\ IsFiniteSet(Invoices)
  BY CreditAssumption DEF Live
<1>2. IsFiniteSet(Live(v))
  BY <1>1, FS_Subset
<1>3. \A i \in Live(v) : f[i] \in Nat
  BY <1>1 DEF InvoiceRow
<1>4. FoldFunctionOnSet(+, 0, f, Live(v)) = Total(f, Live(v)) /\ Total(f, Live(v)) \in Nat
  <2> HIDE DEF f
  <2> QED
    BY <1>2, <1>3, SumIsTotal, TotalNat
<1> QED
  BY <1>1, <1>2, <1>4 DEF OwedOf

\* The invoices that are live, and what is owed of them, are all that counts.
LEMMA OwedSame ==
  ASSUME NEW v, NEW w, Live(w) = Live(v), \A i \in Live(v) : w[i].owed = v[i].owed
  PROVE  OwedOf(w) = OwedOf(v)
<1>1. [i \in Live(w) |-> w[i].owed] = [i \in Live(v) |-> v[i].owed]
  OBVIOUS
<1> QED
  BY <1>1 DEF OwedOf

\* One more invoice is live.
LEMMA OwedMore ==
  ASSUME NEW v \in [Invoices -> InvoiceRow], NEW w \in [Invoices -> InvoiceRow], NEW i \in Invoices,
         v[i].status # "posted", w[i].status = "posted", \A j \in Invoices \ {i} : w[j] = v[j]
  PROVE  OwedOf(w) = OwedOf(v) + w[i].owed
<1>1. PICK f, g : f = [j \in Live(v) |-> v[j].owed] /\ g = [j \in Live(w) |-> w[j].owed]
  OBVIOUS
<1>2. i \in Live(w) /\ Live(w) \ {i} = Live(v)
  BY DEF Live
<1>3. /\ IsFiniteSet(Live(w)) /\ \A j \in Live(w) : g[j] \in Nat
      /\ OwedOf(v) = Total(f, Live(v)) /\ OwedOf(w) = Total(g, Live(w))
  <2>1. Live(w) \in SUBSET Invoices /\ \A j \in Invoices : w[j].owed \in Nat
    BY OwedTotal DEF InvoiceRow
  <2> QED
    BY <1>1, <2>1, OwedTotal
<1>4. Total(g, Live(w)) = g[i] + Total(g, Live(v))
  BY <1>2, <1>3, TotalSplit
<1>5. Total(g, Live(v)) = Total(f, Live(v))
  <2>1. \A j \in Live(v) : g[j] = f[j]
    BY <1>1, <1>2 DEF Live
  <2> QED
    BY <2>1, TotalSame
<1>6. g[i] = w[i].owed /\ w[i].owed \in Nat /\ OwedOf(v) \in Nat
  BY <1>1, <1>2, OwedTotal DEF InvoiceRow
<1> QED
  BY <1>3, <1>4, <1>5, <1>6

\* Nothing is owed of no invoices.
LEMMA OwedNothing ==
  ASSUME NEW v \in [Invoices -> InvoiceRow], Live(v) = {}
  PROVE  OwedOf(v) = 0
<1>1. \A i \in Live(v) : [j \in Live(v) |-> v[j].owed][i] = 0
  OBVIOUS
<1> QED
  BY <1>1, OwedTotal, TotalZero

-----------------------------------------------------------------------
\* Requests begin, move on and end.

Active(c) == req[c] # AtRest
LEMMA ActiveRequest ==
  ASSUME CreditTyped, Shapes, NEW c \in Sessions, Active(c)
  PROVE  /\ req[c] \in Asking /\ req[c].todo \in Seq(CreditSteps) /\ Shaped(req[c])
         /\ Has(req[c], Head(req[c].todo))
         /\ Head(req[c].todo) \in {"setLimit", "setProfile"} => req[c].op \in Terms
         /\ Head(req[c].todo) = "create" => req[c].status \in {"draft", "posted"}
         /\ Head(req[c].todo) = "post" => req[c].invoice \in Invoices /\ req[c].status = "posted"
<1>1. req[c] \in Asking /\ req[c].todo \in Seq(CreditSteps) /\ Shaped(req[c])
  BY DEF CreditTyped, Shapes, Active, Asking
<1> DEFINE s == req[c].todo
<1>2. Len(s) \in Nat /\ 1 \in 1..Len(s) /\ Head(s) = s[1]
  BY <1>1, TailOfPlan DEF Shaped
<1>3. Has(req[c], Head(s))
  BY <1>2 DEF Has
<1>4. /\ s[1] \in {"setLimit", "setProfile"} => req[c].op \in Terms
      /\ s[1] = "create" => req[c].status # "none"
      /\ s[1] = "post" => req[c].invoice \in Invoices /\ req[c].status = "posted"
  BY <1>1, <1>2 DEF Shaped, Planned
<1>5. req[c].status \in {"none", "draft", "posted"}
  BY <1>1 DEF Asking
<1> QED
  BY <1>1, <1>2, <1>3, <1>4, <1>5

\* A step changes the request of c only.
OnlyOf(c) == \A d \in Sessions \ {c} : req'[d] = req[d]

MovesOn(c) ==
  /\ Active(c) /\ OnlyOf(c)
  /\ \/ /\ Active(c)' /\ Follows(Head(req[c].todo), Head(req'[c].todo)) /\ SameButTodo(req'[c], req[c])
        /\ \A s : Has(req'[c], s) => Has(req[c], s)
        /\ \A s : Has(req[c], s) => s = Head(req[c].todo) \/ Has(req'[c], s)
        /\ Head(req[c].todo) = "post" => ~Has(req'[c], "post")
     \/ /\ ~Active(c)' /\ Head(req[c].todo) # "setLimit"
        /\ \A s : Has(req[c], s) => s = Head(req[c].todo)
  /\ Head(req[c].todo) \in {"create", "post"} /\ req[c].status = "posted" =>
       Active(c)' /\ Has(req'[c], "cacheProfile") /\ Has(req'[c], "cacheMetric")
Ends(c) == OnlyOf(c) /\ Active(c) /\ ~Active(c)'
Starts(c) ==
  /\ OnlyOf(c) /\ ~Active(c) /\ Active(c)' /\ Head(req'[c].todo) \in {"read", "setLimit"}
  /\ \A d \in Sessions : Active(d) => {req'[c].op, req[d].op} \subseteq overlap

ReqTyped == req \in [Sessions -> {AtRest} \cup Asking]

LEMMA BecomesIs ==
  ASSUME CreditTyped, NEW c \in Sessions, NEW r, Becomes(c, r), r.todo # <<>> => r \in Asking
  PROVE  /\ ReqTyped' /\ OnlyOf(c)
         /\ req'[c] = IF r.todo = <<>> THEN AtRest ELSE r
BY DEF CreditTyped, ReqTyped, OnlyOf, Becomes

LEMMA AskingIsActive == ASSUME NEW r \in Asking PROVE r # AtRest /\ r.op # "none"
<1>1. r.op \in {"look", "bill", "settle"} \cup Terms
  BY DEF Asking
<1>2. r.op # "none" /\ AtRest.op = "none"
  BY <1>1 DEF Terms, AtRest
<1> QED
  BY <1>2

LEMMA Moving ==
  ASSUME CreditTyped, Shapes, NEW c \in Sessions, Active(c), NEW q, Becomes(c, q),
         q.todo = Tail(req[c].todo), SameButTodo(q, req[c]), q.todo \in Seq(CreditSteps) => q \in Asking
  PROVE  /\ ReqTyped' /\ Shapes' /\ MovesOn(c)
         /\ Active(c)' => req'[c] = q
<1>1. /\ req[c] \in Asking /\ req[c].todo \in Seq(CreditSteps) /\ Shaped(req[c])
  BY ActiveRequest
<1>2. /\ q.todo \in Seq(CreditSteps)
      /\ q.todo # <<>> => Shaped(q) /\ Follows(Head(req[c].todo), Head(q.todo))
      /\ Head(req[c].todo) = "setLimit" => q.todo # <<>>
      /\ \A s : Has(q, s) => Has(req[c], s)
      /\ \A s : Has(req[c], s) => s = Head(req[c].todo) \/ Has(q, s)
      /\ Head(req[c].todo) = "post" => ~Has(q, "post")
      /\ Head(req[c].todo) \in {"create", "post"} /\ req[c].status = "posted" => Has(q, "cacheProfile") /\ Has(q, "cacheMetric")
  BY <1>1, GoesOn
<1>3. q \in Asking /\ q # AtRest
  BY <1>2, AskingIsActive
<1>4. ReqTyped' /\ OnlyOf(c) /\ req'[c] = IF q.todo = <<>> THEN AtRest ELSE q
  BY <1>3, BecomesIs
<1>5. Shapes'
  <2> SUFFICES ASSUME NEW d \in Sessions, req'[d] # AtRest PROVE Shaped(req'[d])
    BY DEF Shapes
  <2> QED
    BY <1>2, <1>4 DEF Shapes, OnlyOf
<1>6. CASE q.todo # <<>>
  BY <1>2, <1>3, <1>4, <1>5, <1>6 DEF MovesOn, Active
<1>7. CASE q.todo = <<>>
  <2>1. \A s : ~Has(q, s)
    <3>1. Len(q.todo) = 0
      BY <1>2, <1>7, EmptyPlan
    <3> QED
      BY <3>1 DEF Has
  <2>2. req'[c] = AtRest
    BY <1>4, <1>7
  <2>3. ~(Head(req[c].todo) \in {"create", "post"} /\ req[c].status = "posted") /\ Head(req[c].todo) # "setLimit"
    BY <1>2, <1>7, <2>1
  <2>4. \A s : Has(req[c], s) => s = Head(req[c].todo)
    BY <1>2, <2>1
  <2>5. ~Active(c)'
    BY <2>2 DEF Active
  <2> QED
    BY <1>4, <1>5, <2>3, <2>4, <2>5 DEF MovesOn
<1> QED
  BY <1>6, <1>7

LEMMA Going ==
  ASSUME CreditTyped, Shapes, NEW c \in Sessions, NEW s, At(c, s), Goes(c)
  PROVE  /\ ReqTyped' /\ Shapes' /\ MovesOn(c) /\ Active(c) /\ Head(req[c].todo) = s
         /\ Active(c)' => /\ req'[c].owed = req[c].owed /\ req'[c].late = req[c].late
                          /\ req'[c].limit = req[c].limit
<1>1. Active(c) /\ Head(req[c].todo) = s
  BY DEF At, Active
<1>2. req[c] \in Asking
  BY <1>1, ActiveRequest
<1>3. PICK q : q = [req[c] EXCEPT !.todo = Tail(@)]
  OBVIOUS
<1>4. /\ q.todo = Tail(req[c].todo) /\ SameButTodo(q, req[c])
      /\ q.owed = req[c].owed /\ q.late = req[c].late /\ q.limit = req[c].limit
      /\ q.todo \in Seq(CreditSteps) => q \in Asking
  BY <1>2, <1>3 DEF Asking, SameButTodo
<1>5. Becomes(c, q)
  BY <1>3 DEF Goes
<1> QED
  BY <1>1, <1>4, <1>5, Moving

LEMMA Starting ==
  ASSUME CreditTyped, Shapes, NEW c \in Sessions, NEW r \in Asking, Begins(c, r), Shaped(r),
         Head(r.todo) \in {"read", "setLimit"}
  PROVE  ReqTyped' /\ Shapes' /\ Starts(c) /\ req'[c] = r
<1>1. r # AtRest /\ r.todo # <<>>
  BY AskingIsActive DEF Shaped
<1>2. ReqTyped' /\ OnlyOf(c) /\ req'[c] = r
  BY <1>1, BecomesIs DEF Begins
<1>3. Shapes'
  <2> SUFFICES ASSUME NEW d \in Sessions, req'[d] # AtRest PROVE Shaped(req'[d])
    BY DEF Shapes
  <2> QED
    BY <1>2 DEF Shapes, OnlyOf
<1> QED
  BY <1>1, <1>2, <1>3 DEF Begins, Free, Starts, Active

LEMMA Ending ==
  ASSUME CreditTyped, Shapes, NEW c \in Sessions, Active(c), req' = [req EXCEPT ![c] = AtRest]
  PROVE  ReqTyped' /\ Shapes' /\ Ends(c)
<1>1. ReqTyped' /\ OnlyOf(c) /\ req'[c] = AtRest
  BY DEF CreditTyped, ReqTyped, OnlyOf
<1>2. Shapes'
  <2> SUFFICES ASSUME NEW d \in Sessions, req'[d] # AtRest PROVE Shaped(req'[d])
    BY DEF Shapes
  <2> QED
    BY <1>1 DEF Shapes, OnlyOf
<1> QED
  BY <1>1, <1>2 DEF Ends, Active

-----------------------------------------------------------------------
\* Terms given alone.

SameTerms ==
  /\ limit' = limit /\ agreed' = agreed
  /\ profile'.made = profile.made /\ profile'.limit = profile.limit /\ profile'.policy = profile.policy
Later == overlap' = overlap /\ died \subseteq died'

LEMMA StillAlone == ASSUME Later, TermsAlone' PROVE TermsAlone
BY DEF Later, TermsAlone

\* Nobody but one who gives the terms is about to write them to the profile.
LEMMA NotGiving ==
  ASSUME CreditTyped, Shapes, GivenAlone, NEW c \in Sessions, Active(c), Head(req[c].todo) # "setProfile"
  PROVE  \A d \in Sessions : ~At(d, "setProfile")
<1> SUFFICES ASSUME NEW d \in Sessions, At(d, "setProfile") PROVE FALSE
  OBVIOUS
<1>1. req[d].op \in Terms
  BY ActiveRequest DEF At, Active
<1>2. d = c
  BY <1>1 DEF GivenAlone, Active
<1> QED
  BY <1>2 DEF At

LEMMA OthersOnTerms ==
  ASSUME NEW c \in Sessions, OnlyOf(c), NEW d \in Sessions \ {c}, OnTerms(d),
         agreed' = agreed, profile'.policy = profile.policy
  PROVE  OnTerms(d)'
<1>1. req'[d] = req[d]
  BY DEF OnlyOf
<1> QED
  BY <1>1 DEF OnTerms, At

LEMMA GivenAloneStays ==
  ASSUME CreditTyped, GivenAlone, NEW c \in Sessions,
         MovesOn(c) \/ Ends(c) \/ (Starts(c) /\ overlap \cap Terms = {})
  PROVE  GivenAlone'
<1> SUFFICES ASSUME NEW a \in Sessions, NEW b \in Sessions, req'[a].op \in Terms, req'[b] # AtRest PROVE a = b
  BY DEF GivenAlone
<1>1. AtRest.op \notin Terms
  BY DEF AtRest, Terms
<1>2. OnlyOf(c)
  BY DEF MovesOn, Ends, Starts
<1>3. CASE MovesOn(c)
  <2>1. req[a].op \in Terms
    BY <1>1, <1>2, <1>3 DEF MovesOn, SameButTodo, OnlyOf, Active
  <2>2. req[b] # AtRest
    BY <1>2, <1>3 DEF MovesOn, OnlyOf, Active
  <2> QED
    BY <2>1, <2>2 DEF GivenAlone
<1>4. CASE Ends(c)
  <2>1. req'[a] # AtRest
    BY <1>1
  <2>2. req'[a] = req[a] /\ req'[b] = req[b]
    BY <1>4, <2>1 DEF Ends, OnlyOf, Active
  <2> QED
    BY <2>2 DEF GivenAlone
<1>5. CASE Starts(c) /\ overlap \cap Terms = {}
  <2>1. \A d \in Sessions : Active(d) => {req'[c].op, req[d].op} \subseteq overlap
    BY <1>5 DEF Starts
  <2>2. CASE a = c
    <3>1. \A d \in Sessions : ~Active(d)
      BY <1>5, <2>1, <2>2
    <3> QED
      BY <1>2, <2>2, <3>1 DEF OnlyOf, Active
  <2>3. CASE a # c
    <3>1. req'[a] = req[a] /\ req[a] # AtRest
      BY <1>1, <1>2, <2>3 DEF OnlyOf
    <3>2. FALSE \/ b # c
      BY <1>5, <2>1, <3>1 DEF Active
    <3> QED
      BY <1>2, <3>1, <3>2 DEF OnlyOf, GivenAlone
  <2> QED
    BY <2>2, <2>3
<1> QED
  BY <1>3, <1>4, <1>5

LEMMA TermsMoved ==
  ASSUME CreditTyped, Shapes, TermsInv, Later, SameTerms, NEW c \in Sessions, MovesOn(c),
         Head(req[c].todo) \notin {"setLimit", "setProfile"},
         Active(c)' /\ Head(req[c].todo) = "read" => req'[c].limit = IF profile.made THEN profile.limit ELSE limit,
         Active(c)' /\ Head(req[c].todo) = "decide" => profile.policy.active
  PROVE  TermsInv'
<1> SUFFICES ASSUME TermsAlone'
             PROVE  /\ GivenAlone' /\ limit' = agreed'.limit /\ AgreedOn' /\ \A d \in Sessions : OnTerms(d)'
  BY DEF TermsInv
<1>1. /\ GivenAlone /\ limit = agreed.limit /\ \A d \in Sessions : OnTerms(d)
      /\ (\A d \in Sessions : ~At(d, "setProfile")) => AgreedOn
  BY StillAlone DEF TermsInv
<1>2. GivenAlone'
  BY <1>1, GivenAloneStays
<1>3. AgreedOn
  BY <1>1, NotGiving DEF MovesOn
<1>4. limit' = agreed'.limit /\ AgreedOn'
  BY <1>1, <1>3 DEF SameTerms, AgreedOn
<1>5. ASSUME NEW d \in Sessions PROVE OnTerms(d)'
  <2>1. CASE d # c
    BY <1>1, <2>1, OthersOnTerms DEF MovesOn, SameTerms
  <2>2. CASE d = c /\ ~Active(c)'
    BY <2>2 DEF OnTerms, At, Active
  <2>3. CASE d = c /\ Active(c)'
    <3> DEFINE new == Head(req'[c].todo)
    <3>1. Follows(Head(req[c].todo), new)
      BY <2>3 DEF MovesOn
    <3>2. new # "setProfile"
      BY <3>1 DEF Follows
    <3>3. new = "cacheProfile" => req'[c].limit = agreed'.limit
      BY <1>1, <1>3, <2>3, <3>1 DEF Follows, AgreedOn, SameTerms
    <3>4. new \in {"create", "post"} => agreed'.policy.active
      BY <1>3, <2>3, <3>1 DEF Follows, AgreedOn, SameTerms
    <3> QED
      BY <2>3, <3>2, <3>3, <3>4 DEF OnTerms, At
  <2> QED
    BY <2>1, <2>2, <2>3
<1> QED
  BY <1>2, <1>4, <1>5

LEMMA TermsStarted ==
  ASSUME CreditTyped, Shapes, TermsInv, Later, SameTerms, NEW c \in Sessions, Starts(c)
  PROVE  TermsInv'
<1> SUFFICES ASSUME TermsAlone'
             PROVE  /\ GivenAlone' /\ limit' = agreed'.limit /\ \A d \in Sessions : OnTerms(d)'
                    /\ (\A d \in Sessions : ~At(d, "setProfile")') => AgreedOn'
  BY DEF TermsInv
<1>1. /\ GivenAlone /\ limit = agreed.limit /\ \A d \in Sessions : OnTerms(d)
      /\ (\A d \in Sessions : ~At(d, "setProfile")) => AgreedOn
  BY StillAlone DEF TermsInv
<1>2. GivenAlone'
  <2>1. overlap \cap Terms = {}
    BY StillAlone DEF TermsAlone
  <2> QED
    BY <1>1, <2>1, GivenAloneStays
<1>3. (\A d \in Sessions : ~At(d, "setProfile")') => AgreedOn'
  <2>1. (\A d \in Sessions : ~At(d, "setProfile")') => \A d \in Sessions : ~At(d, "setProfile")
    BY DEF Starts, OnlyOf, At, Active
  <2>2. AgreedOn => AgreedOn'
    BY DEF AgreedOn, SameTerms
  <2> QED
    BY <1>1, <2>1, <2>2
<1>4. ASSUME NEW d \in Sessions PROVE OnTerms(d)'
  <2>1. CASE d # c
    BY <1>1, <2>1, OthersOnTerms DEF Starts, SameTerms
  <2>2. CASE d = c
    BY <2>2 DEF OnTerms, At, Starts
  <2> QED
    BY <2>1, <2>2
<1> QED
  BY <1>1, <1>2, <1>3, <1>4 DEF SameTerms

LEMMA TermsEnded ==
  ASSUME CreditTyped, Shapes, TermsInv, Later, SameTerms, NEW c \in Sessions, Ends(c),
         TermsAlone' => Head(req[c].todo) # "setProfile"
  PROVE  TermsInv'
<1> SUFFICES ASSUME TermsAlone'
             PROVE  /\ GivenAlone' /\ limit' = agreed'.limit /\ AgreedOn' /\ \A d \in Sessions : OnTerms(d)'
  BY DEF TermsInv
<1>1. /\ GivenAlone /\ limit = agreed.limit /\ \A d \in Sessions : OnTerms(d)
      /\ (\A d \in Sessions : ~At(d, "setProfile")) => AgreedOn
  BY StillAlone DEF TermsInv
<1>2. GivenAlone'
  BY <1>1, GivenAloneStays
<1>3. AgreedOn'
  <2>1. AgreedOn
    BY <1>1, NotGiving DEF Ends
  <2> QED
    BY <2>1 DEF AgreedOn, SameTerms
<1>4. ASSUME NEW d \in Sessions PROVE OnTerms(d)'
  <2>1. CASE d # c
    BY <1>1, <2>1, OthersOnTerms DEF Ends, SameTerms
  <2>2. CASE d = c
    BY <2>2 DEF OnTerms, At, Ends, Active
  <2> QED
    BY <2>1, <2>2
<1> QED
  BY <1>1, <1>2, <1>3, <1>4 DEF SameTerms

LEMMA TermsStill ==
  ASSUME TermsInv, Later, SameTerms, req' = req
  PROVE  TermsInv'
<1> SUFFICES ASSUME TermsAlone'
             PROVE  /\ GivenAlone' /\ limit' = agreed'.limit /\ \A d \in Sessions : OnTerms(d)'
                    /\ (\A d \in Sessions : ~At(d, "setProfile")') => AgreedOn'
  BY DEF TermsInv
<1>1. /\ GivenAlone /\ limit = agreed.limit /\ \A d \in Sessions : OnTerms(d)
      /\ (\A d \in Sessions : ~At(d, "setProfile")) => AgreedOn
  BY StillAlone DEF TermsInv
<1>2. (\A d \in Sessions : ~At(d, "setProfile")') => AgreedOn'
  BY <1>1 DEF At, AgreedOn, SameTerms
<1>3. \A d \in Sessions : OnTerms(d)'
  BY <1>1 DEF OnTerms, At, SameTerms
<1> QED
  BY <1>1, <1>2, <1>3 DEF SameTerms, GivenAlone

\* The three writes of terms.
LEMMA TermsCached ==
  ASSUME CreditTyped, Shapes, TermsInv, NEW c \in Sessions, CacheProfile(c)
  PROVE  TermsInv'
<1> SUFFICES ASSUME TermsAlone'
             PROVE  /\ GivenAlone' /\ limit' = agreed'.limit /\ AgreedOn' /\ \A d \in Sessions : OnTerms(d)'
  BY DEF TermsInv
<1>0. At(c, "cacheProfile") /\ Goes(c) /\ Later /\ agreed' = agreed /\ limit' = limit
      /\ profile' = [profile EXCEPT !.made = TRUE, !.limit = req[c].limit, !.owed = req[c].owed]
  BY DEF CacheProfile, Later
<1>1. /\ GivenAlone /\ limit = agreed.limit /\ \A d \in Sessions : OnTerms(d)
      /\ (\A d \in Sessions : ~At(d, "setProfile")) => AgreedOn
  BY <1>0, StillAlone DEF TermsInv
<1>2. MovesOn(c) /\ Active(c) /\ Head(req[c].todo) = "cacheProfile"
  BY <1>0, Going
<1>3. GivenAlone'
  BY <1>1, <1>2, GivenAloneStays
<1>4. AgreedOn
  BY <1>1, <1>2, NotGiving
<1>5. profile'.limit = agreed.limit /\ profile'.policy = profile.policy
  BY <1>0, <1>1 DEF OnTerms, CreditTyped
<1>6. ASSUME NEW d \in Sessions PROVE OnTerms(d)'
  <2>1. CASE d # c
    BY <1>0, <1>1, <1>2, <1>5, <2>1, OthersOnTerms DEF MovesOn
  <2>2. CASE d = c /\ ~Active(c)'
    BY <2>2 DEF OnTerms, At, Active
  <2>3. CASE d = c /\ Active(c)'
    <3>1. Follows("cacheProfile", Head(req'[c].todo))
      BY <1>2, <2>3 DEF MovesOn
    <3> QED
      BY <2>3, <3>1 DEF OnTerms, At, Follows
  <2> QED
    BY <2>1, <2>2, <2>3
<1> QED
  BY <1>0, <1>1, <1>3, <1>4, <1>5, <1>6 DEF AgreedOn

\* Only one gives terms, and nobody else is under way.
LEMMA TermsSetLimit ==
  ASSUME CreditTyped, Shapes, TermsInv, NEW c \in Sessions, SetLimit(c)
  PROVE  TermsInv'
<1> SUFFICES ASSUME TermsAlone'
             PROVE  /\ GivenAlone' /\ limit' = agreed'.limit /\ At(c, "setProfile")'
                    /\ \A d \in Sessions : OnTerms(d)'
  BY DEF TermsInv
<1>0. /\ At(c, "setLimit") /\ Goes(c) /\ Later /\ profile' = profile /\ limit' = req[c].amount
      /\ agreed' = [limit |-> req[c].amount,
                    policy |-> IF req[c].op = "upsertProfile" THEN req[c].policy ELSE agreed.policy]
  BY DEF SetLimit, Later
<1>1. /\ GivenAlone
      /\ (\A d \in Sessions : ~At(d, "setProfile")) => AgreedOn
  BY <1>0, StillAlone DEF TermsInv
<1>2. MovesOn(c) /\ Active(c) /\ Head(req[c].todo) = "setLimit"
  BY <1>0, Going
<1>3. GivenAlone'
  BY <1>1, <1>2, GivenAloneStays
<1>4. AgreedOn
  BY <1>1, <1>2, NotGiving
<1>5. Active(c)' /\ Head(req'[c].todo) = "setProfile" /\ SameButTodo(req'[c], req[c])
  BY <1>2 DEF MovesOn, Follows
<1>6. \A d \in Sessions \ {c} : ~Active(d)'
  BY <1>1, <1>2, ActiveRequest DEF GivenAlone, MovesOn, OnlyOf, Active
<1>7. agreed'.limit = req[c].amount
      /\ agreed'.policy = IF req[c].op = "upsertProfile" THEN req[c].policy ELSE agreed.policy
  BY <1>0
<1>8. OnTerms(c)'
  BY <1>0, <1>4, <1>5, <1>7 DEF OnTerms, At, SameButTodo, AgreedOn
<1>9. \A d \in Sessions : OnTerms(d)'
  <2> SUFFICES ASSUME NEW d \in Sessions, d # c PROVE OnTerms(d)'
    BY <1>8
  <2> QED
    BY <1>6 DEF OnTerms, At, Active
<1> QED
  BY <1>0, <1>3, <1>5, <1>7, <1>9 DEF At, Active

LEMMA TermsSetProfile ==
  ASSUME CreditTyped, Shapes, TermsInv, NEW c \in Sessions, SetProfile(c)
  PROVE  TermsInv'
<1> SUFFICES ASSUME TermsAlone'
             PROVE  /\ GivenAlone' /\ limit' = agreed'.limit /\ AgreedOn' /\ \A d \in Sessions : OnTerms(d)'
  BY DEF TermsInv
<1>0. /\ At(c, "setProfile") /\ Goes(c) /\ Later /\ agreed' = agreed /\ limit' = limit
      /\ profile' = [profile EXCEPT !.made = TRUE, !.limit = req[c].amount,
                                    !.policy = IF req[c].op = "upsertProfile" THEN req[c].policy ELSE @]
  BY DEF SetProfile, Later
<1>1. GivenAlone /\ limit = agreed.limit /\ OnTerms(c)
  BY <1>0, StillAlone DEF TermsInv
<1>2. MovesOn(c) /\ Active(c) /\ Head(req[c].todo) = "setProfile"
  BY <1>0, Going
<1>3. GivenAlone'
  BY <1>1, <1>2, GivenAloneStays
<1>4. profile'.limit = agreed.limit /\ profile'.policy = agreed.policy
  <2>1. profile'.limit = req[c].amount
        /\ profile'.policy = IF req[c].op = "upsertProfile" THEN req[c].policy ELSE profile.policy
    BY <1>0 DEF CreditTyped
  <2> QED
    BY <1>0, <1>1, <2>1 DEF OnTerms
<1>5. \A d \in Sessions \ {c} : ~Active(d)'
  BY <1>1, <1>2, ActiveRequest DEF GivenAlone, MovesOn, OnlyOf, Active
<1>6. OnTerms(c)'
  <2>1. CASE Active(c)'
    <3>1. Follows("setProfile", Head(req'[c].todo))
      BY <1>2, <2>1 DEF MovesOn
    <3> QED
      BY <3>1 DEF OnTerms, At, Follows
  <2>2. CASE ~Active(c)'
    BY <2>2 DEF OnTerms, At, Active
  <2> QED
    BY <2>1, <2>2
<1>7. \A d \in Sessions : OnTerms(d)'
  <2> SUFFICES ASSUME NEW d \in Sessions, d # c PROVE OnTerms(d)'
    BY <1>6
  <2> QED
    BY <1>5 DEF OnTerms, At, Active
<1> QED
  BY <1>0, <1>1, <1>3, <1>4, <1>7 DEF AgreedOn

-----------------------------------------------------------------------
\* Requests one by one.

LEMMA SameInvoices ==
  ASSUME invoice' = invoice
  PROVE  Owed' = Owed /\ Late' = Late
<1>1. Owed' = Owed
  BY OwedIs
<1>2. Late' = Late
  BY DEF Late
<1> QED
  BY <1>1, <1>2

\* It is enough to look at the one request that moves.
LEMMA TurnOfOne ==
  ASSUME NEW c \in Sessions, OneByOne' => (\A d \in Sessions \ {c} : ~Active(d)') /\ Informed(c)' /\ Cached'
  PROVE  TurnInv'
<1> SUFFICES ASSUME OneByOne' PROVE OneAtATime' /\ Cached' /\ \A d \in Sessions : Informed(d)'
  BY DEF TurnInv
<1>1. \A d \in Sessions \ {c} : ~Active(d)'
  OBVIOUS
<1>2. OneAtATime'
  BY <1>1 DEF OneAtATime, Active
<1>3. \A d \in Sessions \ {c} : Informed(d)'
  BY <1>1 DEF Informed, At, Active
<1> QED
  BY <1>2, <1>3

LEMMA OthersRest ==
  ASSUME TurnInv, OneByOne, NEW c \in Sessions, MovesOn(c) \/ Ends(c) \/ Starts(c)
  PROVE  /\ \A d \in Sessions \ {c} : ~Active(d) /\ ~Active(d)'
         /\ Starts(c) => \A d \in Sessions : ~Active(d)
<1>1. OnlyOf(c)
  BY DEF MovesOn, Ends, Starts
<1>2. Starts(c) => \A d \in Sessions : ~Active(d)
  BY DEF Starts, OneByOne
<1>3. \A d \in Sessions \ {c} : ~Active(d)
  BY <1>2 DEF MovesOn, Ends, TurnInv, OneAtATime, Active
<1> QED
  BY <1>1, <1>2, <1>3 DEF OnlyOf, Active

\* What a request still is to do, it does.
LEMMA ComesStays ==
  ASSUME NEW c \in Sessions, MovesOn(c), NEW s, s # Head(req[c].todo), Comes(s)
  PROVE  Comes(s)'
<1>1. PICK d \in Sessions : req[d] # AtRest /\ Has(req[d], s)
  BY DEF Comes
<1>2. req'[d] # AtRest /\ Has(req'[d], s)
  <2>1. CASE d # c
    BY <1>1, <2>1 DEF MovesOn, OnlyOf
  <2>2. CASE d = c
    BY <1>1, <2>2 DEF MovesOn, Active
  <2> QED
    BY <2>1, <2>2
<1> QED
  BY <1>2 DEF Comes, Has

LEMMA PostsStay ==
  ASSUME NEW c \in Sessions, MovesOn(c), Informed(c), Active(c)', Has(req'[c], "post"),
         Has(req[c], "post") /\ Head(req[c].todo) # "post" => invoice'[req[c].invoice] = invoice[req[c].invoice]
  PROVE  invoice'[req'[c].invoice].status = "draft" /\ invoice'[req'[c].invoice].owed = req'[c].amount
<1>1. /\ Has(req[c], "post") /\ Head(req[c].todo) # "post" /\ req[c] # AtRest
      /\ req'[c].invoice = req[c].invoice /\ req'[c].amount = req[c].amount
  BY DEF MovesOn, SameButTodo, Active
<1>2. invoice[req[c].invoice].status = "draft" /\ invoice[req[c].invoice].owed = req[c].amount
  BY <1>1 DEF Informed
<1> QED
  BY <1>1, <1>2

\* What the next step takes for granted.
Knows(c, s) ==
  /\ s \in {"cacheProfile", "cacheMetric"} => req[c].owed = Owed /\ req[c].late = Late
  /\ s = "cacheMetric" => profile.made /\ profile.owed = Owed
  /\ s \in {"decide", "create", "post"} =>
       profile.made /\ profile.owed = Owed /\ metric.owed = Owed /\ metric.late = Late
  /\ s \in {"create", "post"} => Allowed(req[c].amount, req[c].order)

LEMMA InformedNow ==
  ASSUME NEW c \in Sessions, Active(c), Informed(c)
  PROVE  Knows(c, Head(req[c].todo))
BY DEF Informed, Knows, At, Active

LEMMA InformedNext ==
  ASSUME NEW c \in Sessions, MovesOn(c), Informed(c),
         Has(req[c], "post") /\ Head(req[c].todo) # "post" => invoice'[req[c].invoice] = invoice[req[c].invoice],
         Active(c)' => Knows(c, Head(req[c].todo))'
  PROVE  Informed(c)'
<1>1. CASE ~Active(c)'
  BY <1>1 DEF Informed, At, Active
<1>2. CASE Active(c)'
  <2>1. Has(req'[c], "post") => invoice'[req'[c].invoice].status = "draft" /\ invoice'[req'[c].invoice].owed = req'[c].amount
    BY <1>2, PostsStay
  <2>2. Knows(c, Head(req[c].todo))'
    BY <1>2
  <2> QED
    BY <2>1, <2>2 DEF Informed, Knows, At
<1> QED
  BY <1>1, <1>2

LEMMA Reading ==
  ASSUME CreditTyped, Shapes, NEW c \in Sessions, Read(c)
  PROVE  /\ ReqTyped' /\ Shapes' /\ MovesOn(c) /\ Head(req[c].todo) = "read"
         /\ Active(c)' => /\ req'[c].owed = Owed /\ req'[c].late = Late
                          /\ req'[c].limit = IF profile.made THEN profile.limit ELSE limit
<1>1. Active(c) /\ Head(req[c].todo) = "read"
  BY DEF Read, At, Active
<1>2. req[c] \in Asking
  BY <1>1, ActiveRequest
<1>3. PICK o, l, m : o = Owed /\ l = Late /\ m = IF profile.made THEN profile.limit ELSE limit
  OBVIOUS
<1>4. o \in Nat /\ l \in BOOLEAN /\ m \in Nat
  <2>1. o \in Nat
    BY <1>3, OwedIs, OwedTotal DEF CreditTyped
  <2>2. l \in BOOLEAN
    BY <1>3 DEF Late
  <2>3. m \in Nat
    BY <1>3 DEF CreditTyped
  <2> QED
    BY <2>1, <2>2, <2>3
<1>5. PICK q : q = [req[c] EXCEPT !.todo = Tail(@), !.owed = o, !.late = l, !.limit = m]
  OBVIOUS
<1>6. /\ q.todo = Tail(req[c].todo) /\ SameButTodo(q, req[c])
      /\ q.owed = o /\ q.late = l /\ q.limit = m
      /\ q.todo \in Seq(CreditSteps) => q \in Asking
  BY <1>2, <1>4, <1>5 DEF Asking, SameButTodo
<1>7. Becomes(c, q)
  BY <1>3, <1>5 DEF Read
<1> QED
  BY <1>1, <1>3, <1>6, <1>7, Moving

LEMMA TurnRead ==
  ASSUME CreditTyped, Shapes, TurnInv, NEW c \in Sessions, Read(c)
  PROVE  TurnInv'
<1>0. UNCHANGED <<overlap, invoice, profile, metric, grants, died>>
  BY DEF Read, rows
<1>1. /\ MovesOn(c) /\ Head(req[c].todo) = "read"
      /\ Active(c)' => req'[c].owed = Owed /\ req'[c].late = Late
  BY Reading
<1> SUFFICES ASSUME OneByOne PROVE (\A d \in Sessions \ {c} : ~Active(d)') /\ Informed(c)' /\ Cached'
  BY <1>0, TurnOfOne DEF OneByOne
<1>2. Informed(c) /\ Cached
  BY DEF TurnInv
<1>3. Owed' = Owed /\ Late' = Late
  BY <1>0, SameInvoices
<1>4. Active(c)' => Knows(c, Head(req[c].todo))'
  <2> SUFFICES ASSUME Active(c)' PROVE Knows(c, Head(req[c].todo))'
    OBVIOUS
  <2>1. Follows("read", Head(req'[c].todo))
    BY <1>1 DEF MovesOn
  <2> QED
    BY <1>1, <1>3, <2>1 DEF Follows, Knows
<1>5. Cached'
  BY <1>0, <1>1, <1>2, <1>3, ComesStays DEF Cached
<1> QED
  BY <1>0, <1>1, <1>2, <1>4, <1>5, InformedNext, OthersRest

LEMMA TurnCacheProfile ==
  ASSUME CreditTyped, Shapes, TurnInv, NEW c \in Sessions, CacheProfile(c)
  PROVE  TurnInv'
<1>0. /\ UNCHANGED <<overlap, invoice, metric, grants, died>> /\ At(c, "cacheProfile") /\ Goes(c)
      /\ profile' = [profile EXCEPT !.made = TRUE, !.limit = req[c].limit, !.owed = req[c].owed]
  BY DEF CacheProfile
<1>1. /\ MovesOn(c) /\ Head(req[c].todo) = "cacheProfile" /\ Active(c)
      /\ Active(c)' => req'[c].owed = req[c].owed /\ req'[c].late = req[c].late
  BY <1>0, Going
<1> SUFFICES ASSUME OneByOne PROVE (\A d \in Sessions \ {c} : ~Active(d)') /\ Informed(c)' /\ Cached'
  BY <1>0, TurnOfOne DEF OneByOne
<1>2. Informed(c) /\ Cached
  BY DEF TurnInv
<1>3. Owed' = Owed /\ Late' = Late
  BY <1>0, SameInvoices
<1>4. req[c].owed = Owed /\ req[c].late = Late
  BY <1>1, <1>2, InformedNow DEF Knows
<1>5. profile'.made /\ profile'.owed = Owed'
  BY <1>0, <1>3, <1>4 DEF CreditTyped
<1>6. Active(c)' => Knows(c, Head(req[c].todo))'
  <2> SUFFICES ASSUME Active(c)' PROVE Knows(c, Head(req[c].todo))'
    OBVIOUS
  <2>1. Follows("cacheProfile", Head(req'[c].todo))
    BY <1>1 DEF MovesOn
  <2> QED
    BY <1>1, <1>3, <1>4, <1>5, <2>1 DEF Follows, Knows
<1>7. Cached'
  <2>1. Comes("cacheMetric") => Comes("cacheMetric")'
    BY <1>1, ComesStays
  <2> QED
    BY <1>0, <1>2, <1>3, <1>5, <2>1 DEF Cached
<1> QED
  BY <1>0, <1>1, <1>2, <1>6, <1>7, InformedNext, OthersRest

LEMMA TurnCacheMetric ==
  ASSUME CreditTyped, Shapes, TurnInv, NEW c \in Sessions, CacheMetric(c)
  PROVE  TurnInv'
<1>0. /\ UNCHANGED <<overlap, invoice, profile, grants, died>> /\ At(c, "cacheMetric") /\ Goes(c)
      /\ metric' = [made |-> TRUE, owed |-> req[c].owed, late |-> req[c].late]
  BY DEF CacheMetric
<1>1. /\ MovesOn(c) /\ Head(req[c].todo) = "cacheMetric" /\ Active(c)
      /\ Active(c)' => req'[c].owed = req[c].owed /\ req'[c].late = req[c].late
  BY <1>0, Going
<1> SUFFICES ASSUME OneByOne PROVE (\A d \in Sessions \ {c} : ~Active(d)') /\ Informed(c)' /\ Cached'
  BY <1>0, TurnOfOne DEF OneByOne
<1>2. Informed(c) /\ Cached
  BY DEF TurnInv
<1>3. Owed' = Owed /\ Late' = Late
  BY <1>0, SameInvoices
<1>4. req[c].owed = Owed /\ req[c].late = Late /\ profile.made /\ profile.owed = Owed
  BY <1>1, <1>2, InformedNow DEF Knows
<1>5. metric'.owed = Owed' /\ metric'.late = Late'
  BY <1>0, <1>3, <1>4
<1>6. Active(c)' => Knows(c, Head(req[c].todo))'
  <2> SUFFICES ASSUME Active(c)' PROVE Knows(c, Head(req[c].todo))'
    OBVIOUS
  <2>1. Follows("cacheMetric", Head(req'[c].todo))
    BY <1>1 DEF MovesOn
  <2> QED
    BY <1>0, <1>1, <1>3, <1>4, <1>5, <2>1 DEF Follows, Knows
<1>7. Cached'
  BY <1>0, <1>3, <1>4, <1>5 DEF Cached
<1> QED
  BY <1>0, <1>1, <1>2, <1>6, <1>7, InformedNext, OthersRest

LEMMA SameAllowed ==
  ASSUME UNCHANGED <<profile, metric, grants>>, NEW n, NEW o
  PROVE  Allowed(n, o)' <=> Allowed(n, o)
BY DEF Allowed, Covered, Serving

LEMMA TurnDecide ==
  ASSUME CreditTyped, Shapes, TurnInv, NEW c \in Sessions, Decide(c), Goes(c), Allowed(req[c].amount, req[c].order)
  PROVE  TurnInv'
<1>0. UNCHANGED <<overlap, invoice, profile, metric, grants, died>> /\ At(c, "decide")
  BY DEF Decide, rows
<1>1. /\ MovesOn(c) /\ Head(req[c].todo) = "decide" /\ Active(c)
  BY <1>0, Going
<1> SUFFICES ASSUME OneByOne PROVE (\A d \in Sessions \ {c} : ~Active(d)') /\ Informed(c)' /\ Cached'
  BY <1>0, TurnOfOne DEF OneByOne
<1>2. Informed(c) /\ Cached
  BY DEF TurnInv
<1>3. Owed' = Owed /\ Late' = Late
  BY <1>0, SameInvoices
<1>4. profile.made /\ profile.owed = Owed /\ metric.owed = Owed /\ metric.late = Late
  BY <1>1, <1>2, InformedNow DEF Knows
<1>6. Active(c)' => Knows(c, Head(req[c].todo))'
  <2> SUFFICES ASSUME Active(c)' PROVE Knows(c, Head(req[c].todo))'
    OBVIOUS
  <2>1. Follows("decide", Head(req'[c].todo)) /\ SameButTodo(req'[c], req[c])
    BY <1>1 DEF MovesOn
  <2>2. PICK n, o : n = req[c].amount /\ o = req[c].order
    OBVIOUS
  <2>3. req'[c].amount = n /\ req'[c].order = o /\ Allowed(n, o)'
    BY <1>0, <2>1, <2>2, SameAllowed DEF SameButTodo
  <2>4. Allowed(req[c].amount, req[c].order)'
    BY <2>3
  <2> QED
    BY <1>0, <1>3, <1>4, <2>1, <2>4 DEF Follows, Knows
<1>7. Cached'
  BY <1>0, <1>3, <1>4 DEF Cached
<1> QED
  BY <1>0, <1>1, <1>2, <1>6, <1>7, InformedNext, OthersRest

LEMMA PostsOwn ==
  ASSUME CreditTyped, Shapes, NEW c \in Sessions, Active(c), Has(req[c], "post")
  PROVE  req[c].invoice \in Invoices
BY ActiveRequest DEF Has, Shaped, Planned

\* What is drawn up as a draft is not owed yet; for what is posted a refresh comes.
LEMMA TurnCreate ==
  ASSUME CreditTyped, Shapes, TurnInv, NEW c \in Sessions, CommitCreate(c)
  PROVE  TurnInv'
<1>0. /\ UNCHANGED <<overlap, limit, profile, metric, grants, agreed, died>> /\ At(c, "create") /\ Goes(c)
  BY DEF CommitCreate
<1>1. PICK i \in Invoices :
        /\ invoice[i].status = "none"
        /\ invoice' = [invoice EXCEPT ![i] =
             [status |-> req[c].status, total |-> req[c].amount, owed |-> req[c].amount, late |-> FALSE]]
  BY DEF CommitCreate
<1>2. /\ MovesOn(c) /\ Head(req[c].todo) = "create" /\ Active(c) /\ req[c].status \in {"draft", "posted"}
  BY <1>0, Going, ActiveRequest
<1> SUFFICES ASSUME OneByOne PROVE (\A d \in Sessions \ {c} : ~Active(d)') /\ Informed(c)' /\ Cached'
  BY <1>0, TurnOfOne DEF OneByOne
<1>3. Informed(c) /\ Cached
  BY DEF TurnInv
<1>4. profile.owed = Owed /\ metric.owed = Owed
  BY <1>2, <1>3, InformedNow DEF Knows
<1>5. Has(req[c], "post") => invoice'[req[c].invoice] = invoice[req[c].invoice]
  <2> SUFFICES ASSUME Has(req[c], "post") PROVE invoice'[req[c].invoice] = invoice[req[c].invoice]
    OBVIOUS
  <2>1. req[c].invoice \in Invoices /\ invoice[req[c].invoice].status = "draft"
    BY <1>2, <1>3, PostsOwn DEF Informed, Active
  <2> QED
    BY <1>1, <2>1 DEF CreditTyped
<1>6. Active(c)' => Knows(c, Head(req[c].todo))'
  <2> SUFFICES ASSUME Active(c)' PROVE Knows(c, Head(req[c].todo))'
    OBVIOUS
  <2>1. Follows("create", Head(req'[c].todo))
    BY <1>2 DEF MovesOn
  <2> QED
    BY <2>1 DEF Follows, Knows
<1>7. Cached'
  <2>1. CASE req[c].status = "posted"
    <3>1. Active(c)' /\ Has(req'[c], "cacheProfile") /\ Has(req'[c], "cacheMetric")
      BY <1>2, <2>1 DEF MovesOn
    <3> QED
      BY <3>1 DEF Cached, Comes, Active, Has
  <2>2. CASE req[c].status = "draft"
    <3>1. \A j \in Invoices : IF j = i THEN invoice'[j].status = "draft" ELSE invoice'[j] = invoice[j]
      BY <1>1, <2>2 DEF CreditTyped
    <3>2. Live(invoice') = Live(invoice) /\ \A j \in Live(invoice) : invoice'[j].owed = invoice[j].owed
      BY <1>1, <3>1 DEF Live
    <3>3. Owed' = Owed
      BY <3>2, OwedSame, OwedIs
    <3> QED
      BY <1>0, <1>4, <3>3 DEF Cached
  <2> QED
    BY <1>2, <2>1, <2>2
<1> QED
  BY <1>2, <1>3, <1>5, <1>6, <1>7, InformedNext, OthersRest

LEMMA TurnPost ==
  ASSUME CreditTyped, Shapes, TurnInv, NEW c \in Sessions, CommitPost(c)
  PROVE  TurnInv'
<1>0. /\ UNCHANGED <<overlap, limit, profile, metric, grants, agreed, died>> /\ At(c, "post") /\ Goes(c)
  BY DEF CommitPost
<1>2. /\ MovesOn(c) /\ Head(req[c].todo) = "post" /\ Active(c) /\ req[c].status = "posted"
  BY <1>0, Going, ActiveRequest
<1> SUFFICES ASSUME OneByOne PROVE (\A d \in Sessions \ {c} : ~Active(d)') /\ Informed(c)' /\ Cached'
  BY <1>0, TurnOfOne DEF OneByOne
<1>3. Informed(c)
  BY DEF TurnInv
<1>4. Active(c)' /\ Has(req'[c], "cacheProfile") /\ Has(req'[c], "cacheMetric")
  BY <1>2 DEF MovesOn
<1>5. Cached'
  BY <1>4 DEF Cached, Comes, Active, Has
<1>6. Knows(c, Head(req[c].todo))'
  <2>1. Follows("post", Head(req'[c].todo))
    BY <1>2, <1>4 DEF MovesOn
  <2> QED
    BY <2>1 DEF Follows, Knows
<1> QED
  BY <1>2, <1>3, <1>5, <1>6, InformedNext, OthersRest

LEMMA TurnTerms ==
  ASSUME CreditTyped, Shapes, TurnInv, NEW c \in Sessions, SetLimit(c) \/ SetProfile(c)
  PROVE  TurnInv'
<1>0. /\ UNCHANGED <<overlap, invoice, metric, died>> /\ (At(c, "setLimit") \/ At(c, "setProfile")) /\ Goes(c)
      /\ profile'.owed = profile.owed
  BY DEF SetLimit, SetProfile, CreditTyped
<1>1. MovesOn(c) /\ Head(req[c].todo) \in {"setLimit", "setProfile"} /\ Active(c)
  BY <1>0, Going
<1> SUFFICES ASSUME OneByOne PROVE (\A d \in Sessions \ {c} : ~Active(d)') /\ Informed(c)' /\ Cached'
  BY <1>0, TurnOfOne DEF OneByOne
<1>2. Informed(c) /\ Cached
  BY DEF TurnInv
<1>3. Owed' = Owed
  BY <1>0, SameInvoices
<1>4. Active(c)' => Knows(c, Head(req[c].todo))'
  <2> SUFFICES ASSUME Active(c)' PROVE Knows(c, Head(req[c].todo))'
    OBVIOUS
  <2>1. Follows(Head(req[c].todo), Head(req'[c].todo))
    BY <1>1 DEF MovesOn
  <2> QED
    BY <1>1, <2>1 DEF Follows, Knows
<1>5. Cached'
  <2>1. /\ Comes("cacheProfile") => Comes("cacheProfile")'
        /\ Comes("cacheMetric") => Comes("cacheMetric")'
    BY <1>1, ComesStays
  <2> QED
    BY <1>0, <1>2, <1>3, <2>1 DEF Cached
<1> QED
  BY <1>0, <1>1, <1>2, <1>4, <1>5, InformedNext, OthersRest

\* A request begins on figures that are right, or refreshes them itself.
LEMMA TurnStarted ==
  ASSUME TurnInv, NEW c \in Sessions, Starts(c), UNCHANGED <<overlap, died, profile, metric>>,
         invoice' = invoice \/ (Has(req'[c], "cacheProfile") /\ Has(req'[c], "cacheMetric")),
         Has(req'[c], "post") => invoice'[req'[c].invoice].status = "draft" /\ invoice'[req'[c].invoice].owed = req'[c].amount
  PROVE  TurnInv'
<1> SUFFICES ASSUME OneByOne PROVE (\A d \in Sessions \ {c} : ~Active(d)') /\ Informed(c)' /\ Cached'
  BY TurnOfOne DEF OneByOne
<1>1. \A d \in Sessions : ~Active(d)
  BY OthersRest
<1>2. Informed(c)'
  BY DEF Informed, At, Starts, Active
<1>3. Cached'
  <2>1. CASE invoice' = invoice
    <3>1. died = {} => profile.owed = Owed /\ metric.owed = Owed
      BY <1>1 DEF TurnInv, Cached, Comes, Active
    <3> QED
      BY <2>1, <3>1, SameInvoices DEF Cached
  <2>2. CASE Has(req'[c], "cacheProfile") /\ Has(req'[c], "cacheMetric")
    BY <2>2 DEF Starts, Cached, Comes, Active, Has
  <2> QED
    BY <2>1, <2>2
<1> QED
  BY <1>2, <1>3, OthersRest

\* A refused request ends on figures that are right.
LEMMA TurnRefused ==
  ASSUME TurnInv, NEW c \in Sessions, Ends(c), Head(req[c].todo) = "decide",
         UNCHANGED <<overlap, invoice, profile, metric, died>>
  PROVE  TurnInv'
<1> SUFFICES ASSUME OneByOne PROVE (\A d \in Sessions \ {c} : ~Active(d)') /\ Informed(c)' /\ Cached'
  BY TurnOfOne DEF OneByOne
<1>1. profile.owed = Owed /\ metric.owed = Owed
  BY InformedNow DEF Ends, TurnInv, Knows
<1>2. Cached'
  BY <1>1, SameInvoices DEF Cached
<1>3. Informed(c)'
  BY DEF Ends, Informed, At, Active
<1> QED
  BY <1>2, <1>3, OthersRest

LEMMA TurnDied ==
  ASSUME TurnInv, NEW c \in Sessions, Ends(c), overlap' = overlap, died' # {}
  PROVE  TurnInv'
<1> SUFFICES ASSUME OneByOne PROVE (\A d \in Sessions \ {c} : ~Active(d)') /\ Informed(c)' /\ Cached'
  BY TurnOfOne DEF OneByOne
<1>1. Informed(c)'
  BY DEF Ends, Informed, At, Active
<1> QED
  BY <1>1, OthersRest DEF Cached

\* Nothing is under way while time passes or an override is given.
LEMMA TurnStill ==
  ASSUME TurnInv, UNCHANGED <<overlap, req, profile, metric, died>>, OneByOne => Quiet, Owed' = Owed
  PROVE  TurnInv'
<1> SUFFICES ASSUME OneByOne PROVE OneAtATime' /\ Cached' /\ \A d \in Sessions : Informed(d)'
  BY DEF TurnInv, OneByOne
<1>1. \A d \in Sessions : req'[d] = AtRest /\ req[d] = AtRest
  BY DEF Quiet
<1>2. Cached'
  BY <1>1 DEF TurnInv, Cached, Comes
<1> QED
  BY <1>1, <1>2 DEF OneAtATime, Informed, At

-----------------------------------------------------------------------
\* The invariant, step by step.

LEMMA AsksTyped ==
  ASSUME NEW op \in {"look", "bill", "settle"} \cup Terms, NEW todo \in Seq(CreditSteps)
  PROVE  Asks(op, todo) \in Asking
BY CreditAssumption DEF Asks, Asking

LEMMA StepRead == ASSUME CreditInv, NEW c \in Sessions, Read(c) PROVE CreditInv'
<1>1. /\ ReqTyped' /\ Shapes' /\ MovesOn(c) /\ Head(req[c].todo) = "read"
      /\ Active(c)' => req'[c].limit = IF profile.made THEN profile.limit ELSE limit
  BY Reading DEF CreditInv
<1>2. UNCHANGED <<overlap, rows, died>>
  BY DEF Read
<1>3. CreditTyped'
  BY <1>1, <1>2 DEF CreditInv, CreditTyped, ReqTyped, rows
<1>4. TermsInv'
  BY <1>1, <1>2, TermsMoved DEF CreditInv, Later, SameTerms, rows
<1> QED
  BY <1>1, <1>3, <1>4, TurnRead DEF CreditInv

LEMMA StepCacheProfile == ASSUME CreditInv, NEW c \in Sessions, CacheProfile(c) PROVE CreditInv'
<1>1. At(c, "cacheProfile") /\ Goes(c) /\ UNCHANGED <<invoice, limit, metric, agreed>>
      /\ profile' = [profile EXCEPT !.made = TRUE, !.limit = req[c].limit, !.owed = req[c].owed]
  BY DEF CacheProfile
<1>2. ReqTyped' /\ Shapes' /\ Active(c)
  BY <1>1, Going DEF CreditInv
<1>3. req[c].limit \in Nat /\ req[c].owed \in Nat
  BY <1>2, ActiveRequest DEF CreditInv, Asking
<1>4. profile' \in [made : BOOLEAN, limit : Nat, policy : Policies, owed : Nat]
  BY <1>1, <1>3 DEF CreditInv, CreditTyped
<1>5. CreditTyped'
  BY <1>1, <1>2, <1>4 DEF CreditInv, CreditTyped, ReqTyped
<1> QED
  BY <1>2, <1>5, TermsCached, TurnCacheProfile DEF CreditInv

LEMMA StepCacheMetric == ASSUME CreditInv, NEW c \in Sessions, CacheMetric(c) PROVE CreditInv'
<1>1. /\ At(c, "cacheMetric") /\ Goes(c) /\ UNCHANGED <<overlap, invoice, limit, profile, grants, agreed, died>>
      /\ metric' = [made |-> TRUE, owed |-> req[c].owed, late |-> req[c].late]
  BY DEF CacheMetric
<1>2. ReqTyped' /\ Shapes' /\ MovesOn(c) /\ Active(c) /\ Head(req[c].todo) = "cacheMetric"
  BY <1>1, Going DEF CreditInv
<1>3. req[c].late \in BOOLEAN /\ req[c].owed \in Nat
  BY <1>2, ActiveRequest DEF CreditInv, Asking
<1>4. CreditTyped'
  BY <1>1, <1>2, <1>3 DEF CreditInv, CreditTyped, ReqTyped
<1>5. TermsInv'
  BY <1>1, <1>2, TermsMoved DEF CreditInv, Later, SameTerms
<1> QED
  BY <1>2, <1>4, <1>5, TurnCacheMetric DEF CreditInv

LEMMA StepDecide == ASSUME CreditInv, NEW c \in Sessions, Decide(c) PROVE CreditInv'
<1>1. At(c, "decide") /\ UNCHANGED <<overlap, rows, died>> /\ Active(c)
  BY DEF Decide, At, Active
<1>2. CASE Allowed(req[c].amount, req[c].order)
  <2>1. Goes(c)
    BY <1>2 DEF Decide
  <2>2. ReqTyped' /\ Shapes' /\ MovesOn(c) /\ Head(req[c].todo) = "decide"
    BY <1>1, <2>1, Going DEF CreditInv
  <2>3. CreditTyped'
    BY <1>1, <2>2 DEF CreditInv, CreditTyped, ReqTyped, rows
  <2>4. profile.policy.active
    BY <1>2 DEF Allowed
  <2>5. TermsInv'
    BY <1>1, <2>2, <2>4, TermsMoved DEF CreditInv, Later, SameTerms, rows
  <2> QED
    BY <1>2, <2>1, <2>2, <2>3, <2>5, TurnDecide DEF CreditInv
<1>3. CASE ~Allowed(req[c].amount, req[c].order)
  <2>1. req' = [req EXCEPT ![c] = AtRest]
    BY <1>3 DEF Decide, Becomes, Asks
  <2>2. ReqTyped' /\ Shapes' /\ Ends(c) /\ Head(req[c].todo) = "decide"
    BY <1>1, <2>1, Ending DEF CreditInv, At
  <2>3. CreditTyped'
    BY <1>1, <2>2 DEF CreditInv, CreditTyped, ReqTyped, rows
  <2>4. TermsInv'
    BY <1>1, <2>2, TermsEnded DEF CreditInv, Later, SameTerms, rows
  <2>5. TurnInv'
    BY <1>1, <2>2, TurnRefused DEF CreditInv, rows
  <2> QED
    BY <2>2, <2>3, <2>4, <2>5 DEF CreditInv
<1> QED
  BY <1>2, <1>3

LEMMA StepCommitCreate == ASSUME CreditInv, NEW c \in Sessions, CommitCreate(c) PROVE CreditInv'
<1>1. At(c, "create") /\ Goes(c) /\ UNCHANGED <<overlap, limit, profile, metric, grants, agreed, died>>
  BY DEF CommitCreate
<1>2. PICK i \in Invoices :
        invoice' = [invoice EXCEPT ![i] =
          [status |-> req[c].status, total |-> req[c].amount, owed |-> req[c].amount, late |-> FALSE]]
  BY DEF CommitCreate
<1>3. ReqTyped' /\ Shapes' /\ MovesOn(c) /\ Active(c) /\ Head(req[c].todo) = "create"
  BY <1>1, Going DEF CreditInv
<1>4. req[c].status \in {"draft", "posted"} /\ req[c].amount \in Nat
  BY <1>3, ActiveRequest DEF CreditInv, Asking
<1>5. invoice' \in [Invoices -> InvoiceRow]
  BY <1>2, <1>4 DEF CreditInv, CreditTyped, InvoiceRow
<1>6. CreditTyped'
  BY <1>1, <1>3, <1>5 DEF CreditInv, CreditTyped, ReqTyped
<1>7. TermsInv'
  BY <1>1, <1>3, TermsMoved DEF CreditInv, Later, SameTerms
<1> QED
  BY <1>3, <1>6, <1>7, TurnCreate DEF CreditInv

LEMMA StepCommitPost == ASSUME CreditInv, NEW c \in Sessions, CommitPost(c) PROVE CreditInv'
<1>1. /\ At(c, "post") /\ Goes(c) /\ UNCHANGED <<overlap, limit, profile, metric, grants, agreed, died>>
      /\ invoice' = [invoice EXCEPT ![req[c].invoice].status = "posted"]
  BY DEF CommitPost
<1>2. ReqTyped' /\ Shapes' /\ MovesOn(c) /\ Active(c) /\ Head(req[c].todo) = "post"
  BY <1>1, Going DEF CreditInv
<1>3. invoice' \in [Invoices -> InvoiceRow]
  BY <1>1 DEF CreditInv, CreditTyped, InvoiceRow
<1>4. CreditTyped'
  BY <1>1, <1>2, <1>3 DEF CreditInv, CreditTyped, ReqTyped
<1>5. TermsInv'
  BY <1>1, <1>2, TermsMoved DEF CreditInv, Later, SameTerms
<1> QED
  BY <1>2, <1>4, <1>5, TurnPost DEF CreditInv

LEMMA StepSetLimit == ASSUME CreditInv, NEW c \in Sessions, SetLimit(c) PROVE CreditInv'
<1>1. /\ At(c, "setLimit") /\ Goes(c) /\ UNCHANGED <<invoice, profile, metric>> /\ limit' = req[c].amount
      /\ agreed' = [limit |-> req[c].amount,
                    policy |-> IF req[c].op = "upsertProfile" THEN req[c].policy ELSE agreed.policy]
  BY DEF SetLimit
<1>2. ReqTyped' /\ Shapes' /\ Active(c)
  BY <1>1, Going DEF CreditInv
<1>3. req[c].amount \in Nat /\ req[c].policy \in Policies
  BY <1>2, ActiveRequest DEF CreditInv, Asking
<1>4. CreditTyped'
  BY <1>1, <1>2, <1>3 DEF CreditInv, CreditTyped, ReqTyped
<1> QED
  BY <1>2, <1>4, TermsSetLimit, TurnTerms DEF CreditInv

LEMMA StepSetProfile == ASSUME CreditInv, NEW c \in Sessions, SetProfile(c) PROVE CreditInv'
<1>1. /\ At(c, "setProfile") /\ Goes(c) /\ UNCHANGED <<invoice, limit, metric, agreed>>
      /\ profile' = [profile EXCEPT !.made = TRUE, !.limit = req[c].amount,
                                    !.policy = IF req[c].op = "upsertProfile" THEN req[c].policy ELSE @]
  BY DEF SetProfile
<1>2. ReqTyped' /\ Shapes' /\ Active(c)
  BY <1>1, Going DEF CreditInv
<1>3. req[c].amount \in Nat /\ req[c].policy \in Policies
  BY <1>2, ActiveRequest DEF CreditInv, Asking
<1>4. profile' \in [made : BOOLEAN, limit : Nat, policy : Policies, owed : Nat]
  BY <1>1, <1>3 DEF CreditInv, CreditTyped
<1>5. CreditTyped'
  BY <1>1, <1>2, <1>4 DEF CreditInv, CreditTyped, ReqTyped
<1> QED
  BY <1>2, <1>5, TermsSetProfile, TurnTerms DEF CreditInv

\* A request begins: it is typed and shaped, and refreshes for what it changes.
LEMMA StepStarts ==
  ASSUME CreditInv, NEW c \in Sessions, NEW r \in Asking, Begins(c, r), Shaped(r),
         Head(r.todo) \in {"read", "setLimit"},
         UNCHANGED <<overlap, limit, profile, metric, grants, agreed, died>>,
         invoice' \in [Invoices -> InvoiceRow],
         invoice' = invoice \/ (Has(r, "cacheProfile") /\ Has(r, "cacheMetric")),
         Has(r, "post") => invoice'[r.invoice].status = "draft" /\ invoice'[r.invoice].owed = r.amount
  PROVE  CreditInv'
<1>1. ReqTyped' /\ Shapes' /\ Starts(c) /\ req'[c] = r
  BY Starting DEF CreditInv
<1>2. CreditTyped'
  BY <1>1 DEF CreditInv, CreditTyped, ReqTyped
<1>3. TermsInv'
  BY <1>1, TermsStarted DEF CreditInv, Later, SameTerms
<1>4. TurnInv'
  BY <1>1, TurnStarted DEF CreditInv
<1> QED
  BY <1>1, <1>2, <1>3, <1>4 DEF CreditInv

LEMMA StepLook == ASSUME CreditInv, NEW c \in Sessions, Look(c) PROVE CreditInv'
<1>1. PICK r : r = Asks("look", Refresh)
  OBVIOUS
<1>2. Begins(c, r) /\ UNCHANGED <<overlap, rows, died>>
  BY <1>1 DEF Look
<1>3. r \in Asking /\ r.op = "look" /\ r.todo = Refresh
  BY <1>1, RefreshIs, AsksTyped, AsksIs
<1>4. Shaped(r) /\ Head(r.todo) = "read" /\ ~Has(r, "post")
  BY <1>3, ShapedRefresh
<1> QED
  BY <1>2, <1>3, <1>4, StepStarts DEF CreditInv, CreditTyped, rows

LEMMA StepSettle ==
  ASSUME CreditInv, NEW c \in Sessions, NEW v \in [Invoices -> InvoiceRow], Changes(c, v)
  PROVE  CreditInv'
<1>1. PICK r : r = Asks("settle", Refresh)
  OBVIOUS
<1>2. Begins(c, r) /\ UNCHANGED <<overlap, limit, profile, metric, grants, agreed, died>> /\ invoice' = v
  BY <1>1 DEF Changes
<1>3. r \in Asking /\ r.op = "settle" /\ r.todo = Refresh
  BY <1>1, RefreshIs, AsksTyped, AsksIs
<1>4. Shaped(r) /\ Head(r.todo) = "read" /\ ~Has(r, "post") /\ Has(r, "cacheProfile") /\ Has(r, "cacheMetric")
  BY <1>3, ShapedRefresh
<1> QED
  BY <1>2, <1>3, <1>4, StepStarts

LEMMA StepPay ==
  ASSUME CreditInv, NEW c \in Sessions, NEW i \in Invoices, NEW n \in Amounts, Pay(c, i, n)
  PROVE  CreditInv'
<1>1. PICK v : v = [invoice EXCEPT ![i].owed = @ - n, ![i].status = "posted"]
  OBVIOUS
<1>2. Changes(c, v) /\ n <= invoice[i].owed
  BY <1>1 DEF Pay
<1>3. invoice[i] \in InvoiceRow /\ n \in Nat
  BY CreditAssumption DEF CreditInv, CreditTyped
<1>4. [invoice EXCEPT ![i].owed = @ - n] \in [Invoices -> InvoiceRow]
  BY <1>2, <1>3 DEF CreditInv, CreditTyped, InvoiceRow
<1>5. v = [[invoice EXCEPT ![i].owed = @ - n] EXCEPT ![i].status = "posted"]
  BY <1>1
<1>6. v \in [Invoices -> InvoiceRow]
  BY <1>4, <1>5 DEF InvoiceRow
<1> QED
  BY <1>2, <1>6, StepSettle

LEMMA StepUnpay ==
  ASSUME CreditInv, NEW c \in Sessions, NEW i \in Invoices, NEW n \in Amounts, Unpay(c, i, n)
  PROVE  CreditInv'
<1>1. PICK v : v = [invoice EXCEPT ![i].owed = @ + n]
  OBVIOUS
<1>2. Changes(c, v)
  BY <1>1 DEF Unpay
<1>3. v \in [Invoices -> InvoiceRow]
  BY <1>1, CreditAssumption DEF CreditInv, CreditTyped, InvoiceRow
<1> QED
  BY <1>2, <1>3, StepSettle

LEMMA StepCancel ==
  ASSUME CreditInv, NEW c \in Sessions, NEW i \in Invoices, Cancel(c, i)
  PROVE  CreditInv'
<1>1. PICK v : v = [invoice EXCEPT ![i].status = "cancelled", ![i].owed = 0]
  OBVIOUS
<1>2. Changes(c, v)
  BY <1>1 DEF Cancel
<1>3. [invoice EXCEPT ![i].status = "cancelled"] \in [Invoices -> InvoiceRow]
  BY DEF CreditInv, CreditTyped, InvoiceRow
<1>4. v = [[invoice EXCEPT ![i].status = "cancelled"] EXCEPT ![i].owed = 0]
  BY <1>1
<1>5. v \in [Invoices -> InvoiceRow]
  BY <1>3, <1>4 DEF InvoiceRow
<1> QED
  BY <1>2, <1>5, StepSettle

LEMMA StepRevise ==
  ASSUME CreditInv, NEW c \in Sessions, NEW i \in Invoices, NEW j \in Invoices, NEW n \in Amounts,
         Revise(c, i, j, n)
  PROVE  CreditInv'
<1>1. PICK v : v = [invoice EXCEPT ![i].status = "cancelled", ![i].owed = 0,
                                   ![j] = [status |-> "posted", total |-> n, owed |-> n, late |-> FALSE]]
  OBVIOUS
<1>2. Changes(c, v)
  BY <1>1 DEF Revise
<1>3. PICK w : w = [invoice EXCEPT ![i].status = "cancelled"]
  OBVIOUS
<1>4. w \in [Invoices -> InvoiceRow]
  BY <1>3 DEF CreditInv, CreditTyped, InvoiceRow
<1>5. PICK x : x = [w EXCEPT ![i].owed = 0]
  OBVIOUS
<1>6. x \in [Invoices -> InvoiceRow]
  BY <1>4, <1>5 DEF InvoiceRow
<1>7. v = [x EXCEPT ![j] = [status |-> "posted", total |-> n, owed |-> n, late |-> FALSE]]
  BY <1>1, <1>3, <1>5
<1>8. v \in [Invoices -> InvoiceRow]
  BY <1>6, <1>7, CreditAssumption DEF InvoiceRow
<1> QED
  BY <1>2, <1>8, StepSettle

LEMMA StepCreateInvoice ==
  ASSUME CreditInv, NEW c \in Sessions, NEW o \in Orders \cup {"none"}, NEW n \in Amounts,
         NEW st \in {"draft", "posted"}, CreateInvoice(c, o, n, st)
  PROVE  CreditInv'
<1>1. PICK k \in {5, 8} : k = IF st = "posted" THEN 8 ELSE 5
  OBVIOUS
<1>2. PICK s : s = Long("decide", "create", k)
  OBVIOUS
<1>3. s = Refresh \o <<"decide", "create">> \o IF st = "posted" THEN Refresh ELSE <<>>
  <2>1. (IF k = 8 THEN Refresh ELSE <<>>) = IF st = "posted" THEN Refresh ELSE <<>>
    BY <1>1
  <2> QED
    BY <1>2, <2>1, Zenon DEF Long
<1>4. PICK a : a = Asks("bill", s)
  OBVIOUS
<1>5. PICK r : r = [a EXCEPT !.order = o, !.amount = n, !.status = st]
  OBVIOUS
<1>6. Begins(c, r) /\ UNCHANGED <<overlap, rows, died>>
  BY <1>3, <1>4, <1>5 DEF CreateInvoice
<1>7. s \in Seq(CreditSteps)
  <2>1. "decide" \in CreditSteps /\ "create" \in CreditSteps
    BY DEF CreditSteps
  <2>2. Spelled(s, "decide", "create", k)
    BY <1>2, <2>1, LongPlan
  <2> QED
    BY <2>2 DEF Spelled
<1>8. a \in Asking /\ a.op = "bill" /\ a.todo = s
  BY <1>4, <1>7, AsksTyped, AsksIs
<1>9. r \in Asking /\ r.op = "bill" /\ r.todo = s /\ r.status = st
  BY <1>5, <1>8, CreditAssumption DEF Asking
<1>10. Shaped(r) /\ Head(r.todo) = "read" /\ ~Has(r, "post")
  BY <1>1, <1>2, <1>9, ShapedBill
<1> QED
  BY <1>6, <1>9, <1>10, StepStarts DEF CreditInv, CreditTyped, rows

LEMMA StepPost ==
  ASSUME CreditInv, NEW c \in Sessions, NEW i \in Invoices, Post(c, i)
  PROVE  CreditInv'
<1>0. UNCHANGED <<overlap, rows, died>>
  BY DEF Post
<1>1. CASE invoice[i].status = "posted"
  <2>1. PICK r : r = Asks("bill", Refresh)
    OBVIOUS
  <2>2. Begins(c, r)
    BY <1>1, <2>1 DEF Post
  <2>3. r \in Asking /\ r.op = "bill" /\ r.todo = Refresh
    BY <2>1, RefreshIs, AsksTyped, AsksIs
  <2>4. Shaped(r) /\ Head(r.todo) = "read" /\ ~Has(r, "post")
    BY <2>3, ShapedRefresh
  <2> QED
    BY <1>0, <2>2, <2>3, <2>4, StepStarts DEF CreditInv, CreditTyped, rows
<1>2. CASE invoice[i].status = "draft"
  <2>1. PICK k \in {5, 8} : k = 8
    OBVIOUS
  <2>2. PICK s : s = Long("decide", "post", k)
    OBVIOUS
  <2>3. s = Refresh \o <<"decide", "post">> \o Refresh
    BY <2>1, <2>2 DEF Long
  <2>4. PICK a : a = Asks("bill", s)
    OBVIOUS
  <2>5. PICK r : r = [a EXCEPT !.invoice = i, !.order = OrderOf[i], !.amount = invoice[i].owed, !.status = "posted"]
    OBVIOUS
  <2>6. Begins(c, r)
    BY <1>2, <2>3, <2>4, <2>5 DEF Post
  <2>7. s \in Seq(CreditSteps)
    <3>1. "decide" \in CreditSteps /\ "post" \in CreditSteps
      BY DEF CreditSteps
    <3>2. Spelled(s, "decide", "post", k)
      BY <2>2, <3>1, LongPlan
    <3> QED
      BY <3>2 DEF Spelled
  <2>8. a \in Asking /\ a.op = "bill" /\ a.todo = s
    BY <2>4, <2>7, AsksTyped, AsksIs
  <2>9. OrderOf[i] \in Orders \cup {"none"} /\ invoice[i].owed \in Nat
    BY CreditAssumption DEF CreditInv, CreditTyped, InvoiceRow
  <2>10. r \in Asking /\ r.op = "bill" /\ r.todo = s /\ r.status = "posted" /\ r.invoice = i /\ r.amount = invoice[i].owed
    BY <2>5, <2>8, <2>9 DEF Asking
  <2>11. Shaped(r) /\ Head(r.todo) = "read"
    BY <2>1, <2>2, <2>10, ShapedBill
  <2> QED
    BY <1>0, <1>2, <2>6, <2>10, <2>11, StepStarts DEF CreditInv, CreditTyped, rows
<1> QED
  BY <1>1, <1>2 DEF Post

LEMMA StepUpsert ==
  ASSUME CreditInv, NEW c \in Sessions, NEW l \in Limits, NEW p \in Policies, UpsertCreditProfile(c, l, p)
  PROVE  CreditInv'
<1>1. PICK k \in {5, 8} : k = 8
  OBVIOUS
<1>2. PICK s : s = Long("setLimit", "setProfile", k)
  OBVIOUS
<1>3. s = Refresh \o <<"setLimit", "setProfile">> \o Refresh
  BY <1>1, <1>2 DEF Long
<1>4. PICK a : a = Asks("upsertProfile", s)
  OBVIOUS
<1>5. PICK r : r = [a EXCEPT !.amount = l, !.policy = p]
  OBVIOUS
<1>6. Begins(c, r) /\ UNCHANGED <<overlap, rows, died>>
  BY <1>3, <1>4, <1>5 DEF UpsertCreditProfile
<1>7. s \in Seq(CreditSteps)
  <2>1. "setLimit" \in CreditSteps /\ "setProfile" \in CreditSteps
    BY DEF CreditSteps
  <2>2. Spelled(s, "setLimit", "setProfile", k)
    BY <1>2, <2>1, LongPlan
  <2> QED
    BY <2>2 DEF Spelled
<1>8. a \in Asking /\ a.op = "upsertProfile" /\ a.todo = s
  BY <1>4, <1>7, AsksTyped, AsksIs DEF Terms
<1>9. r \in Asking /\ r.op \in Terms /\ r.todo = s
  BY <1>5, <1>8, CreditAssumption DEF Asking, Terms
<1>10. Shaped(r) /\ Head(r.todo) = "read" /\ ~Has(r, "post")
  BY <1>1, <1>2, <1>9, ShapedUpsert
<1> QED
  BY <1>6, <1>9, <1>10, StepStarts DEF CreditInv, CreditTyped, rows

LEMMA StepSettings ==
  ASSUME CreditInv, NEW c \in Sessions, NEW l \in Limits, UpdateCreditSettings(c, l)
  PROVE  CreditInv'
<1>1. PICK s : s = <<"setLimit", "setProfile">>
  OBVIOUS
<1>2. s \in Seq(CreditSteps)
  BY <1>1 DEF CreditSteps
<1>3. PICK a : a = Asks("updateSettings", s)
  OBVIOUS
<1>4. PICK r : r = [a EXCEPT !.amount = l]
  OBVIOUS
<1>5. Begins(c, r) /\ UNCHANGED <<overlap, rows, died>>
  BY <1>1, <1>3, <1>4 DEF UpdateCreditSettings
<1>6. a \in Asking /\ a.op = "updateSettings" /\ a.todo = s
  BY <1>2, <1>3, AsksTyped, AsksIs DEF Terms
<1>7. r \in Asking /\ r.op \in Terms /\ r.todo = s
  BY <1>4, <1>6, CreditAssumption DEF Asking, Terms
<1>8. Shaped(r) /\ Head(r.todo) = "setLimit" /\ ~Has(r, "post")
  BY <1>1, <1>7, ShapedSettings
<1> QED
  BY <1>5, <1>7, <1>8, StepStarts DEF CreditInv, CreditTyped, rows

\* Time passes, or an override is given: no request moves.
LEMMA StepStill ==
  ASSUME CreditInv, UNCHANGED <<overlap, limit, profile, metric, agreed, req, died>>,
         invoice' \in [Invoices -> InvoiceRow], OneByOne => Quiet, Owed' = Owed
  PROVE  CreditInv'
<1>1. CreditTyped'
  BY DEF CreditInv, CreditTyped
<1>2. Shapes'
  BY DEF CreditInv, Shapes
<1>3. TermsInv'
  BY TermsStill DEF CreditInv, Later, SameTerms
<1>4. TurnInv'
  BY TurnStill DEF CreditInv
<1> QED
  BY <1>1, <1>2, <1>3, <1>4 DEF CreditInv

LEMMA StepOverride ==
  ASSUME CreditInv, NEW c \in Sessions, NEW type, NEW n, NEW o, CreateCreditOverride(c, type, n, o)
  PROVE  CreditInv'
<1>1. /\ Free(c, "override")
      /\ UNCHANGED <<overlap, invoice, limit, profile, metric, agreed, req, died>>
  BY DEF CreateCreditOverride
<1>2. OneByOne => Quiet
  BY <1>1 DEF Free, OneByOne, Quiet
<1>3. Owed' = Owed
  BY <1>1, SameInvoices
<1> QED
  BY <1>1, <1>2, <1>3, StepStill DEF CreditInv, CreditTyped

LEMMA StepExpire == ASSUME CreditInv, NEW k, Expire(k) PROVE CreditInv'
<1>1. /\ OneByOne => Quiet
      /\ UNCHANGED <<overlap, invoice, limit, profile, metric, agreed, req, died>>
  BY DEF Expire
<1>2. Owed' = Owed
  BY <1>1, SameInvoices
<1> QED
  BY <1>1, <1>2, StepStill DEF CreditInv, CreditTyped

LEMMA StepFallDue == ASSUME CreditInv, NEW i \in Invoices, FallDue(i) PROVE CreditInv'
<1>1. /\ OneByOne => Quiet
      /\ UNCHANGED <<overlap, limit, profile, metric, agreed, req, died>>
      /\ invoice' = [invoice EXCEPT ![i].late = TRUE]
  BY DEF FallDue
<1>2. invoice' \in [Invoices -> InvoiceRow]
  BY <1>1 DEF CreditInv, CreditTyped, InvoiceRow
<1>3. Owed' = Owed
  <2>1. \A j \in Invoices : invoice'[j].status = invoice[j].status /\ invoice'[j].owed = invoice[j].owed
    BY <1>1 DEF CreditInv, CreditTyped, InvoiceRow
  <2>2. Live(invoice') = Live(invoice) /\ \A j \in Live(invoice) : invoice'[j].owed = invoice[j].owed
    BY <2>1 DEF Live
  <2> QED
    BY <2>2, OwedSame, OwedIs
<1> QED
  BY <1>1, <1>2, <1>3, StepStill

\* One that gives terms and dies leaves them not alone.
LEMMA StepDie == ASSUME CreditInv, NEW c \in Sessions, Die(c) PROVE CreditInv'
<1>1. /\ Active(c) /\ died' = died \cup {req[c].op} /\ req' = [req EXCEPT ![c] = AtRest]
      /\ UNCHANGED <<overlap, rows>>
  BY DEF Die, Active
<1>2. ReqTyped' /\ Shapes' /\ Ends(c)
  BY <1>1, Ending DEF CreditInv
<1>3. CreditTyped'
  BY <1>1, <1>2 DEF CreditInv, CreditTyped, ReqTyped, rows
<1>4. TermsAlone' => Head(req[c].todo) # "setProfile"
  <2>1. Head(req[c].todo) = "setProfile" => req[c].op \in Terms
    BY <1>1, ActiveRequest DEF CreditInv
  <2> QED
    BY <1>1, <2>1 DEF TermsAlone
<1>5. TermsInv'
  BY <1>1, <1>2, <1>4, TermsEnded DEF CreditInv, Later, SameTerms, rows
<1>6. TurnInv'
  BY <1>1, <1>2, TurnDied DEF CreditInv
<1> QED
  BY <1>2, <1>3, <1>5, <1>6 DEF CreditInv

LEMMA StepStutter == ASSUME CreditInv, UNCHANGED credit PROVE CreditInv'
<1>1. UNCHANGED <<overlap, invoice, limit, profile, metric, grants, agreed, req, died>>
  BY DEF credit, rows
<1>2. CreditTyped' /\ Shapes'
  BY <1>1 DEF CreditInv, CreditTyped, Shapes
<1>3. TermsInv'
  BY <1>1, TermsStill DEF CreditInv, Later, SameTerms
<1>4. Owed' = Owed /\ Late' = Late
  BY <1>1, SameInvoices
<1>5. TurnInv'
  <2> SUFFICES ASSUME OneByOne PROVE OneAtATime' /\ Cached' /\ \A d \in Sessions : Informed(d)'
    BY <1>1 DEF TurnInv, OneByOne
  <2>1. OneAtATime' /\ Cached'
    BY <1>1, <1>4 DEF CreditInv, TurnInv, OneAtATime, Cached, Comes
  <2>2. ASSUME NEW d \in Sessions PROVE Informed(d)'
    <3>1. Informed(d)
      BY DEF CreditInv, TurnInv
    <3>2. Allowed(req[d].amount, req[d].order)' = Allowed(req[d].amount, req[d].order)
      BY <1>1 DEF Allowed, Covered, Serving
    <3> QED
      BY <1>1, <1>4, <3>1, <3>2 DEF Informed, At
  <2> QED
    BY <2>1, <2>2
<1> QED
  BY <1>2, <1>3, <1>5 DEF CreditInv

LEMMA CreditInit == InitCredit => CreditInv
<1> SUFFICES ASSUME InitCredit PROVE CreditInv
  OBVIOUS
<1>1. /\ invoice = [i \in Invoices |-> Absent] /\ limit \in Limits
      /\ profile = [made |-> FALSE, limit |-> 0, policy |-> DefaultPolicy, owed |-> 0]
      /\ metric = [made |-> FALSE, owed |-> 0, late |-> FALSE]
      /\ agreed = [limit |-> limit, policy |-> DefaultPolicy]
      /\ req = [c \in Sessions |-> AtRest]
  BY DEF InitCredit
<1>2. CreditTyped
  BY <1>1, CreditAssumption DEF CreditTyped, InvoiceRow, Absent
<1>3. \A c \in Sessions : req[c] = AtRest
  BY <1>1
<1>4. AtRest.op \notin Terms
  BY DEF AtRest, Terms
<1>5. TermsInv
  BY <1>1, <1>3, <1>4 DEF TermsInv, GivenAlone, OnTerms, AgreedOn, At
<1>6. Owed = 0
  <2>1. Live(invoice) = {}
    BY <1>1 DEF Live, Absent
  <2> QED
    BY <1>2, <2>1, OwedNothing, OwedIs DEF CreditTyped
<1>7. TurnInv
  BY <1>1, <1>3, <1>6 DEF TurnInv, OneAtATime, Cached, Informed, At
<1> QED
  BY <1>2, <1>3, <1>5, <1>7 DEF CreditInv, Shapes

LEMMA CreditStep == CreditInv /\ [NextCredit]_credit => CreditInv'
<1> SUFFICES ASSUME CreditInv, [NextCredit]_credit PROVE CreditInv'
  OBVIOUS
<1>1. ASSUME NEW c \in Sessions, Checking(c) PROVE CreditInv'
  <2>1. ASSUME NEW o \in Orders \cup {"none"}, NEW n \in Amounts, NEW st \in {"draft", "posted"},
               CreateInvoice(c, o, n, st)
        PROVE  CreditInv'
    BY <2>1, StepCreateInvoice
  <2>2. ASSUME NEW i \in Invoices, Post(c, i) PROVE CreditInv'
    BY <2>2, StepPost
  <2> QED
    BY <1>1, <2>1, <2>2, StepRead, StepCacheProfile, StepCacheMetric, StepDecide, StepLook,
       StepCommitCreate, StepCommitPost DEF Checking
<1>2. ASSUME NEW c \in Sessions, Changing(c) PROVE CreditInv'
  <2>1. PICK i \in Invoices :
          \/ \E n \in Amounts : Pay(c, i, n) \/ Unpay(c, i, n)
          \/ \E j \in Invoices, n \in Amounts : Revise(c, i, j, n)
          \/ Cancel(c, i)
    BY <1>2 DEF Changing
  <2> QED
    BY <2>1, StepPay, StepUnpay, StepRevise, StepCancel
<1>3. ASSUME NEW c \in Sessions, Agreeing(c) PROVE CreditInv'
  BY <1>3, StepUpsert, StepSettings, StepSetLimit, StepSetProfile, StepOverride DEF Agreeing
<1>4. ASSUME NEW c \in Sessions, Die(c) PROVE CreditInv'
  BY <1>4, StepDie
<1> QED
  BY <1>1, <1>2, <1>3, <1>4, StepExpire, StepFallDue, StepStutter DEF NextCredit

\* Whatever requests overlap, die or wait, each has the steps of its kind left, what
\* it read still holds where it relies on it, and what is cached or in force is
\* what is owed or agreed, or will be by the request under way
\* (payment-metrics.service and what calls it).
THEOREM CreditInvariant == CreditSpec => []CreditInv
<1>1. CreditInv /\ [NextCredit]_credit => CreditInv'
  BY CreditStep
<1> QED
  BY <1>1, CreditInit, PTL DEF CreditSpec

\* Terms that are given alone stand: no refresh, which writes back the limit it read,
\* brings back one that was replaced (payment-metrics.service: refreshRetailerMetrics).
THEOREM TermsStandAlways == CreditSpec => []TermsStand
<1>1. CreditInv => TermsStand
  <2> SUFFICES ASSUME CreditInv, TermsAlone, \A c \in Sessions : req[c].op \notin Terms
               PROVE  /\ limit = agreed.limit
                      /\ profile.made => profile.limit = agreed.limit /\ profile.policy = agreed.policy
    BY DEF TermsStand
  <2>1. \A c \in Sessions : ~At(c, "setProfile")
    <3> SUFFICES ASSUME NEW c \in Sessions, At(c, "setProfile") PROVE FALSE
      OBVIOUS
    <3>1. req[c].op \in Terms
      BY ActiveRequest DEF CreditInv, At, Active
    <3> QED
      BY <3>1
  <2> QED
    BY <2>1 DEF CreditInv, TermsInv, AgreedOn
<1> QED
  BY <1>1, CreditInvariant, PTL

\* At rest, requests one by one and none of them dead, the debt that is cached is what
\* the invoices owe (payment-metrics.service: refreshRetailerMetrics).
THEOREM OwedIsCachedAlways == CreditSpec => []OwedIsCached
<1>1. CreditInv => OwedIsCached
  BY DEF OwedIsCached, Quiet, CreditInv, TurnInv, Cached, Comes
<1> QED
  BY <1>1, CreditInvariant, PTL

\* What is drawn up or posted is so on the terms last given, whatever died before
\* (credit-control.service: checks before an invoice is drawn up or posted).
THEOREM PostedOnTermsAlways == CreditSpec => PostedOnTerms
<1> DEFINE Lent ==
      /\ Late => agreed.policy.overdueOk \/ \E k \in DOMAIN grants : grants[k].type = "overdue"
      /\ Owed' > agreed.limit =>
           \/ ~agreed.policy.manager /\ ~agreed.policy.block
           \/ \E k \in DOMAIN grants : grants[k].type = "limit" /\ grants[k].amount >= Owed' - agreed.limit
<1>1. ASSUME CreditInv, NEW c \in Sessions, TermsAlone, CommitCreate(c) \/ CommitPost(c)
      PROVE  agreed.policy.active /\ (OneByOne /\ req[c].status = "posted" => Lent)
  <2>1. (At(c, "create") \/ At(c, "post")) /\ Active(c)
    BY <1>1 DEF CommitCreate, CommitPost, At, Active
  <2>2. agreed.policy.active
    BY <1>1, <2>1 DEF CreditInv, TermsInv, OnTerms
  <2>3. ASSUME OneByOne, req[c].status = "posted" PROVE Lent
    <3>1. \A d \in Sessions : ~At(d, "setProfile")
      BY <1>1, <2>1, NotGiving DEF CreditInv, TermsInv, At
    <3>2. Informed(c) /\ AgreedOn
      BY <1>1, <2>3, <3>1 DEF CreditInv, TurnInv, TermsInv
    <3>3. /\ profile.limit = agreed.limit /\ profile.policy = agreed.policy
          /\ metric.owed = Owed /\ metric.late = Late /\ Allowed(req[c].amount, req[c].order)
      BY <2>1, <3>2 DEF Informed, AgreedOn
    <3>4. Owed' = Owed + req[c].amount
      <4>1. /\ invoice \in [Invoices -> InvoiceRow] /\ req[c].amount \in Nat
        BY <1>1, <2>1, ActiveRequest DEF CreditInv, CreditTyped, Asking
      <4>2. CreditInv'
        BY <1>1, StepCommitCreate, StepCommitPost
      <4>3. invoice' \in [Invoices -> InvoiceRow]
        BY <4>2 DEF CreditInv, CreditTyped
      <4>4. \E i \in Invoices :
              /\ invoice[i].status # "posted" /\ invoice'[i].status = "posted" /\ invoice'[i].owed = req[c].amount
              /\ \A j \in Invoices \ {i} : invoice'[j] = invoice[j]
        <5>1. CASE CommitCreate(c)
          <6>1. PICK i \in Invoices :
                  /\ invoice[i].status = "none"
                  /\ invoice' = [invoice EXCEPT ![i] =
                       [status |-> req[c].status, total |-> req[c].amount, owed |-> req[c].amount, late |-> FALSE]]
            BY <5>1 DEF CommitCreate
          <6> QED
            BY <2>3, <4>1, <6>1
        <5>2. CASE CommitPost(c)
          <6>1. /\ At(c, "post") /\ invoice' = [invoice EXCEPT ![req[c].invoice].status = "posted"]
            BY <5>2 DEF CommitPost
          <6>2. Has(req[c], "post") /\ req[c].invoice \in Invoices
            BY <1>1, <2>1, <6>1, ActiveRequest DEF CreditInv, At
          <6>3. invoice[req[c].invoice].status = "draft" /\ invoice[req[c].invoice].owed = req[c].amount
            BY <2>1, <3>2, <6>2 DEF Informed, Active
          <6>4. invoice'[req[c].invoice].status = "posted" /\ invoice'[req[c].invoice].owed = req[c].amount
            BY <4>1, <6>1, <6>2, <6>3 DEF InvoiceRow
          <6> QED
            BY <4>1, <6>1, <6>2, <6>3, <6>4
        <5> QED
          BY <1>1, <5>1, <5>2
      <4>5. OwedOf(invoice') = OwedOf(invoice) + req[c].amount
        BY <4>1, <4>3, <4>4, OwedMore
      <4> QED
        BY <4>5, OwedIs
    <3>5. Late => agreed.policy.overdueOk \/ \E k \in DOMAIN grants : grants[k].type = "overdue"
      BY <3>3 DEF Allowed, Serving
    <3>6. Owed' > agreed.limit =>
            \/ ~agreed.policy.manager /\ ~agreed.policy.block
            \/ \E k \in DOMAIN grants : grants[k].type = "limit" /\ grants[k].amount >= Owed' - agreed.limit
      <4> SUFFICES ASSUME Owed' > agreed.limit, agreed.policy.manager \/ agreed.policy.block
                   PROVE  \E k \in DOMAIN grants : grants[k].type = "limit" /\ grants[k].amount >= Owed' - agreed.limit
        OBVIOUS
      <4>1. PICK owed : owed = Owed'
        OBVIOUS
      <4>2. PICK over : over = owed - agreed.limit
        OBVIOUS
      <4>3. metric.owed + req[c].amount - profile.limit = over
        <5>1. metric.owed + req[c].amount = owed /\ profile.limit = agreed.limit
          BY <3>3, <3>4, <4>1
        <5>2. req[c].amount \in Nat /\ metric.owed \in Nat /\ agreed.limit \in Nat
          BY <1>1, <2>1, ActiveRequest DEF CreditInv, CreditTyped, Asking
        <5> QED
          BY <4>2, <5>1, <5>2
      <4>4. over > 0
        <5>1. Owed' \in Nat /\ agreed.limit \in Nat
          <6>1. CreditInv'
            BY <1>1, StepCommitCreate, StepCommitPost
          <6> QED
            BY <1>1, <6>1, OwedIs, OwedTotal DEF CreditInv, CreditTyped
        <5> QED
          BY <4>1, <4>2, <5>1
      <4>5. Covered(over, req[c].order)
        BY <3>3, <4>3, <4>4 DEF Allowed
      <4> QED
        BY <4>1, <4>2, <4>5 DEF Covered, Serving
    <3> QED
      BY <3>5, <3>6
  <2> QED
    BY <2>2, <2>3
<1>2. CreditInv /\ [NextCredit]_credit =>
        [\A c \in Sessions : (TermsAlone /\ (CommitCreate(c) \/ CommitPost(c))) =>
           /\ agreed.policy.active
           /\ OneByOne /\ req[c].status = "posted" => Lent]_credit
  BY <1>1
<1> QED
  BY <1>2, CreditInvariant, PTL DEF CreditSpec, PostedOnTerms
=======================================================================

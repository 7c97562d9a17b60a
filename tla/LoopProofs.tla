----------------------------- MODULE LoopProofs -----------------------------
(***************************************************************************)
(* The modules whose steps loop over data: the searches that find a job    *)
(* (Discovery), the catalogue that keeps it (Catalogue), the form of its   *)
(* application (FormFilling) and the answers that are streamed to the      *)
(* dashboard (Assistant).  They do not share state; their proofs share     *)
(* what they need of numbers and loops.                                    *)
(***************************************************************************)
EXTENDS FormFilling, Discovery, Catalogue, Assistant, TLAPS, SequenceTheorems, FiniteSetTheorems,
        WellFoundedInduction

-----------------------------------------------------------------------------
\* What the proofs need of numbers.

LEMMA LessThan == IsWellFoundedOn({p \in Nat \X Nat : p[1] < p[2]}, Nat)
  BY NatLessThanWellFounded DEF OpToRel

\* A set of numbers that has one has a least one.
LEMMA LeastElement ==
  ASSUME NEW S \in SUBSET Nat, S # {}
  PROVE  Min(S) \in S /\ \A y \in S : Min(S) <= y
<1> DEFINE less == {p \in Nat \X Nat : p[1] < p[2]}
<1>1. IsWellFoundedOn(less, Nat)
  BY LessThan
<1>2. PICK x \in S : \A y \in S : ~(<<y, x>> \in less)
  <2> HIDE DEF less
  <2>1. S \subseteq Nat
    OBVIOUS
  <2> QED BY <1>1, <2>1, WFMin
<1>3. \A y \in S : x <= y
  <2> SUFFICES ASSUME NEW y \in S, y < x PROVE FALSE
    OBVIOUS
  <2>1. <<y, x>> \in less
    OBVIOUS
  <2> QED BY <1>2, <2>1
<1> QED BY <1>3 DEF Min

\* Induction, for a set of numbers.
LEMMA SetInduction ==
  ASSUME NEW S, 0 \in S, \A n \in Nat : n \in S => n + 1 \in S
  PROVE  Nat \subseteq S
<1> SUFFICES ASSUME Nat \ S # {} PROVE FALSE
  OBVIOUS
<1> DEFINE x == Min(Nat \ S)
<1>1. x \in Nat \ S /\ \A y \in Nat \ S : x <= y
  BY LeastElement
<1> HIDE DEF x
<1>2. x # 0 /\ x - 1 \in Nat /\ x - 1 < x /\ x - 1 + 1 = x
  BY <1>1
<1>3. x - 1 \in S
  BY <1>1, <1>2
<1> QED BY <1>1, <1>2, <1>3

\* A bounded set of numbers that has one has a greatest one.
LEMMA GreatestElement ==
  ASSUME NEW n \in Nat, NEW S \in SUBSET (0..n), S # {}
  PROVE  Max(S) \in S /\ \A y \in S : Max(S) >= y
<1> DEFINE T == {n - y : y \in S}
<1>1. T \in SUBSET Nat /\ T # {}
  <2>1. \A y \in S : y \in Nat /\ y <= n /\ n - y \in Nat
    OBVIOUS
  <2> QED BY <2>1
<1> HIDE DEF T
<1>2. PICK y \in S : Min(T) = n - y /\ \A z \in T : Min(T) <= z
  BY <1>1, LeastElement DEF T
<1>3. \A z \in S : y >= z
  <2> SUFFICES ASSUME NEW z \in S PROVE y >= z
    OBVIOUS
  <2>1. n - y <= n - z
    BY <1>2 DEF T
  <2> QED BY <2>1
<1> QED BY <1>3 DEF Max

-----------------------------------------------------------------------------
\* Loops: what f[n] = body(n, f[n - 1]) gives.

\* f's values are start and what m steps make of it.
Loop(f, m, start, step) == f[0] = start /\ \A n \in 1..m : f[n] = step[<<n, f[n - 1]>>]

\* A step that stays in S can be taken any number of times.
LEMMA LoopIsDefined ==
  ASSUME NEW S, NEW start \in S, NEW step \in [Nat \X S -> S], NEW m \in Nat
  PROVE  \E f \in [0..m -> S] : Loop(f, m, start, step)
<1> DEFINE T == {k \in Nat : \E f \in [0..k -> S] : Loop(f, k, start, step)}
<1>1. 0 \in T
  <2> DEFINE f == [n \in 0..0 |-> start]
  <2>1. f \in [0..0 -> S] /\ Loop(f, 0, start, step)
    BY DEF Loop
  <2> QED BY <2>1
<1>2. \A k \in Nat : k \in T => k + 1 \in T
  <2> SUFFICES ASSUME NEW k \in Nat, NEW f \in [0..k -> S], Loop(f, k, start, step)
               PROVE  \E g \in [0..(k + 1) -> S] : Loop(g, k + 1, start, step)
    OBVIOUS
  <2> DEFINE last == step[<<k + 1, f[k]>>]
             g == [n \in 0..(k + 1) |-> IF n = k + 1 THEN last ELSE f[n]]
  <2>1. k \in 0..k /\ f[k] \in S /\ k + 1 \in Nat
    OBVIOUS
  <2>2. last \in S
    BY <2>1
  <2>3. g[k + 1] = last /\ \A n \in 0..k : g[n] = f[n]
    OBVIOUS
  <2>4. g \in [0..(k + 1) -> S]
    <3> HIDE DEF last
    <3>1. \A n \in 0..(k + 1) : n = k + 1 \/ n \in 0..k
      OBVIOUS
    <3> QED BY <2>2, <3>1
  <2> HIDE DEF g
  <2>5. g[0] = start
    BY <2>3 DEF Loop
  <2>6. ASSUME NEW n \in 1..(k + 1) PROVE g[n] = step[<<n, g[n - 1]>>]
    <3>1. n - 1 \in 0..k /\ g[n - 1] = f[n - 1]
      BY <2>3
    <3>2. CASE n = k + 1
      <4>1. n - 1 = k
        BY <3>2
      <4> QED BY <2>3, <3>1, <3>2, <4>1
    <3>3. CASE n # k + 1
      <4>1. n \in 1..k /\ n \in 0..k
        BY <3>3
      <4> QED BY <2>3, <3>1, <4>1 DEF Loop
    <3> QED BY <3>2, <3>3
  <2> QED BY <2>4, <2>5, <2>6 DEF Loop
<1>3. m \in T
  <2> HIDE DEF T
  <2> QED BY <1>1, <1>2, SetInduction
<1> QED BY <1>3

\* An invariant of a loop: Good[n] holds what f[n] may be.
LEMMA LoopInvariant ==
  ASSUME NEW f, NEW m \in Nat, NEW Good, f[0] \in Good[0],
         \A n \in 1..m : f[n - 1] \in Good[n - 1] => f[n] \in Good[n]
  PROVE  \A n \in 0..m : f[n] \in Good[n]
<1> DEFINE T == {n \in Nat : n <= m => f[n] \in Good[n]}
<1>1. 0 \in T
  OBVIOUS
<1>2. \A n \in Nat : n \in T => n + 1 \in T
  <2> SUFFICES ASSUME NEW n \in Nat, n \in T, n + 1 <= m PROVE f[n + 1] \in Good[n + 1]
    OBVIOUS
  <2>1. n + 1 \in 1..m /\ n + 1 - 1 = n /\ n <= m
    OBVIOUS
  <2> QED BY <2>1
<1>3. Nat \subseteq T
  <2> HIDE DEF T
  <2> QED BY <1>1, <1>2, SetInduction
<1> QED BY <1>3

-----------------------------------------------------------------------------
\* Tables.

Row == [posting : Postings, print : Postings, score : Nat, stamp : Nat]

\* A posting that is spelt the clean way has that spelling for its fingerprint.
CleanPrint(row) == Clean[row.posting] = row.posting => row.print = row.posting

\* A table of the jobs: no two rows with one fingerprint.
Table(t) ==
  /\ t \in Seq(Row)
  /\ \A i, j \in DOMAIN t : t[i].print = t[j].print => i = j
  /\ \A i \in DOMAIN t : CleanPrint(t[i])

\* What is written to a table leaves its rows, their postings and their fingerprints in
\* their places.
Keeps(t, u) ==
  /\ Len(t) <= Len(u)
  /\ \A j \in DOMAIN t : u[j].posting = t[j].posting /\ u[j].print = t[j].print

LEMMA SavedTable ==
  ASSUME NEW t, Table(t), NEW job \in Row, CleanPrint(job)
  PROVE  Table(SaveJob(t, job)) /\ Keeps(t, SaveJob(t, job))
<1>1. CASE Taken(t, job.print)
  BY <1>1 DEF SaveJob, Keeps, Table
<1>2. CASE ~Taken(t, job.print)
  <2> DEFINE u == Append(t, job)
  <2>1. SaveJob(t, job) = u
    BY <1>2 DEF SaveJob
  <2>2. /\ u \in Seq(Row) /\ Len(u) = Len(t) + 1 /\ DOMAIN u = 1..(Len(t) + 1)
        /\ u[Len(t) + 1] = job /\ \A j \in DOMAIN t : u[j] = t[j]
        /\ DOMAIN t = 1..Len(t) /\ Len(t) \in Nat
    BY AppendProperties DEF Table
  <2> HIDE DEF u
  <2>3. \A j \in DOMAIN u : j \in DOMAIN t \/ j = Len(t) + 1
    BY <2>2
  <2>4. \A j \in DOMAIN t : t[j].print # job.print
    BY <1>2 DEF Taken
  <2>5. Table(u)
    BY <2>2, <2>3, <2>4 DEF Table
  <2> QED BY <2>1, <2>2, <2>5 DEF Keeps
<1> QED BY <1>1, <1>2

LEMMA UpsertedJob ==
  ASSUME NEW t, Table(t), NEW job \in Row, CleanPrint(job)
  PROVE  Table(UpsertJob(t, job)) /\ Keeps(t, UpsertJob(t, job))
<1> DEFINE same == RowOf(t, job.posting)
<1>1. CASE same = {}
  BY <1>1, SavedTable DEF UpsertJob
<1>2. CASE same # {}
  <2> DEFINE j == Min(same)
             new == [job EXCEPT !.print = t[j].print]
             u == [t EXCEPT ![j] = new]
  <2>1. t \in Seq(Row) /\ DOMAIN t = 1..Len(t) /\ Len(t) \in Nat
    BY DEF Table
  <2>2. j \in DOMAIN t /\ t[j].posting = job.posting
    <3>1. same \subseteq DOMAIN t
      BY DEF RowOf
    <3>2. same \in SUBSET Nat
      BY <3>1, <2>1
    <3>3. j \in same
      BY <1>2, <3>2, LeastElement
    <3> QED BY <3>3 DEF RowOf
  <2>3. UpsertJob(t, job) = u
    BY <1>2 DEF UpsertJob
  <2> HIDE DEF j
  <2>4. t[j] \in Row
    BY <2>1, <2>2
  <2>5. new \in Row /\ new.posting = t[j].posting /\ new.print = t[j].print
    BY <2>2, <2>4 DEF Row
  <2> HIDE DEF new
  <2>6. /\ u \in Seq(Row) /\ Len(u) = Len(t) /\ DOMAIN u = DOMAIN t
        /\ \A i \in DOMAIN t : u[i] = IF i = j THEN new ELSE t[i]
    BY <2>1, <2>2, <2>5
  <2> HIDE DEF u
  <2>7. \A i \in DOMAIN t : u[i].posting = t[i].posting /\ u[i].print = t[i].print
    BY <2>5, <2>6
  <2>8. Table(u)
    BY <2>6, <2>7 DEF Table, CleanPrint
  <2> QED BY <2>1, <2>3, <2>6, <2>7, <2>8 DEF Keeps
<1> QED BY <1>1, <1>2

LEMMA NormalRow ==
  ASSUME NEW p \in Postings, NEW s \in Nat, NEW t \in Nat
  PROVE  NormalizeJob(p, s, t) \in Row /\ CleanPrint(NormalizeJob(p, s, t))
  BY CatalogueAssumption DEF NormalizeJob, Row, CleanPrint

LEMMA KeepsOn ==
  ASSUME NEW t, NEW u, NEW v, Table(t), Table(u), Table(v), Keeps(t, u), Keeps(u, v)
  PROVE  Keeps(t, v)
  BY DEF Keeps, Table

\* The tables of a search, one posting after the other.
Steps(f, m, table, batch, t) ==
  [n \in 0..m |-> IF n = 0 THEN table
                  ELSE UpsertJob(f[n - 1], NormalizeJob(batch[n], 0, t))]

LEMMA UpsertsAreDefined ==
  ASSUME NEW table, NEW batch \in Seq(Postings), NEW t
  PROVE  \E f : /\ f = Steps(f, Len(batch), table, batch, t)
               /\ Upserted(table, batch, t) = f[Len(batch)]
<1> DEFINE S == {m \in Nat : \E f : f = Steps(f, m, table, batch, t)}
<1>1. 0 \in S
  <2> DEFINE f == [n \in 0..0 |-> table]
  <2>1. f = Steps(f, 0, table, batch, t)
    BY DEF Steps
  <2> QED BY <2>1
<1>2. \A m \in Nat : m \in S => m + 1 \in S
  <2> SUFFICES ASSUME NEW m \in Nat, NEW f, f = Steps(f, m, table, batch, t)
               PROVE  \E g : g = Steps(g, m + 1, table, batch, t)
    OBVIOUS
  <2> DEFINE last == UpsertJob(f[m], NormalizeJob(batch[m + 1], 0, t))
             g == [n \in 0..(m + 1) |-> IF n = m + 1 THEN last ELSE f[n]]
             h == Steps(g, m + 1, table, batch, t)
  <2>1. \A n \in 0..m : g[n] = f[n] /\ n # m + 1
    OBVIOUS
  <2>2. g[m + 1] = last /\ g = [n \in 0..(m + 1) |-> g[n]]
    OBVIOUS
  <2>3. \A n \in 0..(m + 1) : (n = m + 1 \/ n \in 0..m) /\ (n # 0 => n - 1 \in 0..m)
    OBVIOUS
  <2>4. \A n \in 0..m : f[n] = Steps(f, m, table, batch, t)[n]
    OBVIOUS
  <2> HIDE DEF g
  <2>5. \A n \in 0..(m + 1) : g[n] = h[n]
    <3> SUFFICES ASSUME NEW n \in 0..(m + 1) PROVE g[n] = h[n]
      OBVIOUS
    <3>1. CASE n = m + 1
      <4>1. n # 0 /\ n - 1 = m /\ g[m] = f[m]
        BY <2>1, <3>1
      <4> QED BY <2>2, <3>1, <4>1 DEF Steps
    <3>2. CASE n \in 0..m /\ n = 0
      BY <2>1, <2>4, <3>2 DEF Steps
    <3>3. CASE n \in 0..m /\ n # 0
      <4>1. g[n - 1] = f[n - 1]
        BY <2>1, <2>3, <3>3
      <4> QED BY <2>1, <2>4, <3>3, <4>1 DEF Steps
    <3> QED BY <2>3, <3>1, <3>2, <3>3
  <2>6. g = h
    BY <2>2, <2>5 DEF Steps
  <2> QED BY <2>6
<1>3. Len(batch) \in S
  <2> HIDE DEF S
  <2> QED BY <1>1, <1>2, SetInduction
<1> DEFINE f == CHOOSE f : f = Steps(f, Len(batch), table, batch, t)
<1>4. f = Steps(f, Len(batch), table, batch, t)
  BY <1>3
<1>5. Upserted(table, batch, t) = f[Len(batch)]
  BY DEF Upserted, Steps
<1> QED BY <1>4, <1>5

LEMMA UpsertedTable ==
  ASSUME NEW table, Table(table), NEW batch \in Seq(Postings), NEW t \in Nat
  PROVE  Table(Upserted(table, batch, t)) /\ Keeps(table, Upserted(table, batch, t))
<1>1. PICK f : f = Steps(f, Len(batch), table, batch, t) /\ Upserted(table, batch, t) = f[Len(batch)]
  BY UpsertsAreDefined
<1> DEFINE Good(n) == n <= Len(batch) => Table(f[n]) /\ Keeps(table, f[n])
           S == {n \in Nat : Good(n)}
<1>2. Len(batch) \in Nat
  OBVIOUS
<1>3. f[0] = table
  BY <1>1, <1>2 DEF Steps
<1>4. 0 \in S
  BY <1>3 DEF Keeps, Table
<1>5. \A n \in Nat : n \in S => n + 1 \in S
  <2> SUFFICES ASSUME NEW n \in Nat, Good(n), n + 1 <= Len(batch)
               PROVE  Table(f[n + 1]) /\ Keeps(table, f[n + 1])
    OBVIOUS
  <2> DEFINE job == NormalizeJob(batch[n + 1], 0, t)
  <2>1. n <= Len(batch) /\ n + 1 \in 1..Len(batch) /\ n + 1 \in 0..Len(batch)
        /\ n + 1 # 0 /\ n + 1 - 1 = n
    BY <1>2
  <2>2. batch[n + 1] \in Postings
    BY <2>1
  <2>3. job \in Row /\ CleanPrint(job)
    BY <2>2, NormalRow
  <2>4. f[n + 1] = UpsertJob(f[n], job)
    <3>1. Steps(f, Len(batch), table, batch, t)[n + 1]
            = UpsertJob(f[n], NormalizeJob(batch[n + 1], 0, t))
      BY <2>1 DEF Steps
    <3> QED BY <1>1, <3>1
  <2> HIDE DEF job
  <2>5. Table(f[n]) /\ Keeps(table, f[n])
    BY <2>1
  <2>6. Table(f[n + 1]) /\ Keeps(f[n], f[n + 1])
    BY <2>3, <2>4, <2>5, UpsertedJob
  <2> QED BY <2>5, <2>6, KeepsOn
<1>6. Len(batch) \in S
  <2> HIDE DEF S
  <2> QED BY <1>2, <1>4, <1>5, SetInduction
<1> QED BY <1>1, <1>2, <1>6


-----------------------------------------------------------------------------
\* The catalogue.

ApplicationRow == [job : Nat, campaign : BOOLEAN,
                   state : ManualStates \cup {"WAITING_FOR_APPROVAL", "CANCELLED"}]

\* The tables.
CatalogueInv ==
  /\ Table(rows)
  /\ apps \in Seq(ApplicationRow)
  /\ \A a \in DOMAIN apps : apps[a].job \in DOMAIN rows

\* Writing the table and leaving the applications alone.
LEMMA RowsWritten ==
  ASSUME CatalogueInv, Table(rows'), Keeps(rows, rows'), apps' = apps
  PROVE  CatalogueInv'
<1>1. DOMAIN rows \subseteq DOMAIN rows'
  BY DEF Keeps, Table
<1> QED BY <1>1 DEF CatalogueInv

\* An application for a row.
LEMMA ApplicationAdded ==
  ASSUME CatalogueInv, UNCHANGED rows, NEW j \in DOMAIN rows, NEW campaign \in BOOLEAN,
         apps' = Append(apps, [job |-> j, campaign |-> campaign, state |-> "WAITING_FOR_APPROVAL"])
  PROVE  /\ CatalogueInv'
         /\ \A a \in DOMAIN apps' : a \in DOMAIN apps \/ a = Len(apps) + 1
         /\ \A a \in DOMAIN apps : a \in DOMAIN apps' /\ apps'[a] = apps[a] /\ a < Len(apps) + 1
         /\ Len(apps) + 1 \notin DOMAIN apps /\ apps'[Len(apps) + 1].job = j
<1> DEFINE new == [job |-> j, campaign |-> campaign, state |-> "WAITING_FOR_APPROVAL"]
<1>1. new \in ApplicationRow /\ new.job = j
  BY DEF CatalogueInv, Table, ApplicationRow
<1> HIDE DEF new
<1>2. /\ apps' \in Seq(ApplicationRow) /\ DOMAIN apps' = 1..(Len(apps) + 1)
      /\ DOMAIN apps = 1..Len(apps) /\ Len(apps) \in Nat
      /\ apps'[Len(apps) + 1] = new /\ \A a \in DOMAIN apps : apps'[a] = apps[a]
  <2>1. apps' = Append(apps, new) /\ apps \in Seq(ApplicationRow)
    BY DEF new, CatalogueInv
  <2> QED BY <1>1, <2>1, AppendProperties
<1>3. \A a \in DOMAIN apps' : a \in DOMAIN apps \/ a = Len(apps) + 1
  BY <1>2
<1>4. CatalogueInv'
  BY <1>1, <1>2, <1>3 DEF CatalogueInv
<1> QED BY <1>1, <1>2, <1>3, <1>4

\* An application changes its state.
LEMMA StateChanges ==
  ASSUME CatalogueInv, UNCHANGED rows, NEW a \in DOMAIN apps,
         NEW s \in ManualStates \cup {"WAITING_FOR_APPROVAL", "CANCELLED"},
         apps' = [apps EXCEPT ![a].state = s]
  PROVE  /\ CatalogueInv' /\ DOMAIN apps' = DOMAIN apps
         /\ \A b \in DOMAIN apps : /\ apps'[b].job = apps[b].job
                                  /\ b # a => apps'[b].state = apps[b].state
         /\ apps'[a].state = s
<1> DEFINE new == [apps[a] EXCEPT !.state = s]
<1>1. apps \in Seq(ApplicationRow) /\ apps[a] \in ApplicationRow
  BY DEF CatalogueInv
<1>2. new \in ApplicationRow /\ new.job = apps[a].job /\ new.state = s
  BY <1>1 DEF ApplicationRow
<1> HIDE DEF new
<1>3. apps' = [apps EXCEPT ![a] = new]
  BY DEF new
<1>4. /\ apps' \in Seq(ApplicationRow) /\ DOMAIN apps' = DOMAIN apps
      /\ \A b \in DOMAIN apps : apps'[b] = IF b = a THEN new ELSE apps[b]
  BY <1>1, <1>2, <1>3
<1> QED BY <1>2, <1>4 DEF CatalogueInv

\* The steps that write the jobs keep what is there.
LEMMA RowsOnlyGrow ==
  ASSUME CatalogueInv, Search \/ ImportCurrentPage \/ Score \/ CampaignSaveJob
  PROVE  Table(rows') /\ Keeps(rows, rows')
<1>0. Table(rows) /\ \A j \in DOMAIN rows : rows[j] \in Row
  BY DEF CatalogueInv, Table
<1>1. CASE Search
  <2>1. PICK batch \in Batches, t \in 1..MaxClock : WriteRows(Upserted(rows, batch, t))
    BY <1>1 DEF Search
  <2>2. batch \in Seq(Postings) /\ t \in Nat
    BY CatalogueAssumption
  <2> QED BY <1>0, <2>1, <2>2, UpsertedTable DEF WriteRows
<1>2. CASE ImportCurrentPage
  <2>1. PICK p \in Postings : rows' = UpsertJob(rows, Imported(p, clock + 1))
    BY <1>2 DEF ImportCurrentPage, WriteRows
  <2>2. clock + 1 \in Nat
    BY <1>2, CatalogueAssumption DEF ImportCurrentPage, Stamped
  <2>3. Imported(p, clock + 1) \in Row /\ CleanPrint(Imported(p, clock + 1))
    BY <2>2, CatalogueAssumption DEF Imported, NormalizeJob, Row, CleanPrint
  <2> QED BY <1>0, <2>1, <2>3, UpsertedJob
<1>3. CASE Score
  <2>1. PICK j \in DOMAIN rows, s \in Scores : rows' = UpsertJob(rows, [rows[j] EXCEPT !.score = s])
    BY <1>3 DEF Score, WriteRows
  <2> DEFINE job == [rows[j] EXCEPT !.score = s]
  <2>2. rows[j] \in Row /\ CleanPrint(rows[j]) /\ s \in Nat
    BY <1>0, CatalogueAssumption DEF Table
  <2>3. job \in Row /\ CleanPrint(job)
    BY <2>2 DEF Row, CleanPrint
  <2> HIDE DEF job
  <2> QED BY <1>0, <2>1, <2>3, UpsertedJob DEF job
<1>4. CASE CampaignSaveJob
  <2>1. PICK p \in Postings, s \in Scores, t \in 1..MaxClock :
          rows' = SaveJob(rows, NormalizeJob(p, s, t))
    BY <1>4 DEF CampaignSaveJob, WriteRows
  <2> DEFINE job == NormalizeJob(p, s, t)
  <2>2. job \in Row /\ CleanPrint(job)
    BY CatalogueAssumption, NormalRow
  <2> HIDE DEF job
  <2> QED BY <1>0, <2>1, <2>2, SavedTable DEF job
<1> QED BY <1>1, <1>2, <1>3, <1>4

\* The other steps leave the jobs alone.
LEMMA RowsStay ==
  ASSUME CatalogueInv, [CatalogueNext]_catalogueVars
  PROVE  /\ Table(rows') /\ Keeps(rows, rows')
         /\ \/ Search \/ ImportCurrentPage \/ Score \/ CampaignSaveJob
            \/ UNCHANGED rows
<1>1. CASE Search \/ ImportCurrentPage \/ Score \/ CampaignSaveJob
  BY <1>1, RowsOnlyGrow
<1>2. CASE UNCHANGED rows
  BY <1>2 DEF CatalogueInv, Table, Keeps
<1>3. CASE \E c \in Calls : \/ PrepareAsked(c) \/ PrepareChecks(c) \/ PrepareRefused(c)
                           \/ PrepareSaves(c) \/ PrepareFails(c) \/ PrepareDies(c)
  BY <1>2, <1>3 DEF PrepareAsked, PrepareChecks, PrepareRefused, PrepareSaves, PrepareFails,
     PrepareDies, jobVars
<1>4. CASE CampaignCreatesApplication \/ CampaignPassesOver \/ LockLapses \/ WorkBegins
           \/ WorkSaves \/ WorkEnds
  BY <1>2, <1>4 DEF CampaignCreatesApplication, CampaignPassesOver, LockLapses, WorkBegins,
     WorkSaves, WorkEnds, jobVars
<1>5. CASE Decide \/ Tag \/ ConfigureConnector \/ SyncManualActions \/ ContinueItem \/ CancelItem
           \/ CancelArrives \/ WalkStart \/ WalkNext \/ UNCHANGED catalogueVars
  BY <1>2, <1>5 DEF Decide, Tag, ConfigureConnector, SyncManualActions, ContinueItem, CancelItem,
     CancelArrives, WalkStart, WalkNext, catalogueVars, jobVars
<1> QED BY <1>1, <1>3, <1>4, <1>5 DEF CatalogueNext

\* The calls of prepare, what a campaign has saved and what is being worked on.
PrepareTypes ==
  /\ calls \in [Calls -> [job : Nat, checked : BOOLEAN] \cup {NoCall}]
  /\ \A c \in Calls : calls[c] # NoCall => calls[c].job \in DOMAIN rows
  /\ saved \subseteq DOMAIN rows /\ working \subseteq DOMAIN apps

\* Of a job that no overlap has touched at most the newest application is open, ...
NewestOpen ==
  \A a, b \in DOMAIN apps :
    a < b /\ apps[a].job = apps[b].job /\ apps[a].job \notin raced => apps[a].state = "CANCELLED"

\* ... none is while a call that has checked it is under way, which holds its lock ...
LockHeld ==
  \A c \in Calls : Checked(c) /\ calls[c].job \notin raced =>
    /\ rows[calls[c].job].print \in locks
    /\ \A a \in DOMAIN apps : apps[a].job = calls[c].job => apps[a].state = "CANCELLED"

\* ... and is the only one, ...
OneCall ==
  \A c \in Calls : \A d \in Calls \ {c} :
    Checked(c) /\ Checked(d) /\ calls[c].job \notin raced => calls[c].job # calls[d].job

\* ... and what a campaign may yet apply to has neither a call nor an application.
Unapplied ==
  \A j \in saved \ raced :
    /\ \A c \in Calls : Checked(c) => calls[c].job # j
    /\ \A a \in DOMAIN apps : apps[a].job # j

PrepareInv == PrepareTypes /\ NewestOpen /\ LockHeld /\ OneCall /\ Unapplied

LEMMA NewestIsLast ==
  ASSUME CatalogueInv, PrepareInv, NEW j, j \notin raced,
         \A a \in NewestOf(j) : apps[a].state = "CANCELLED"
  PROVE  \A a \in DOMAIN apps : apps[a].job = j => apps[a].state = "CANCELLED"
<1> SUFFICES ASSUME NEW a \in DOMAIN apps, apps[a].job = j PROVE apps[a].state = "CANCELLED"
  OBVIOUS
<1> DEFINE S == ApplicationsOf(j)
           n == Max(S)
<1>1. /\ DOMAIN apps = 1..Len(apps) /\ Len(apps) \in Nat
      /\ a \in S /\ S \subseteq DOMAIN apps
  BY DEF CatalogueInv, ApplicationsOf
<1>2. S \in SUBSET (0..Len(apps)) /\ S # {}
  BY <1>1
<1>3. n \in S /\ n >= a
  <2> HIDE DEF S
  <2> QED BY <1>1, <1>2, GreatestElement
<1>4. apps[n].state = "CANCELLED" /\ apps[n].job = j /\ n \in DOMAIN apps
  BY <1>3 DEF NewestOf, ApplicationsOf
<1> HIDE DEF n, S
<1>5. a = n \/ a < n
  BY <1>1, <1>3, <1>4
<1> QED BY <1>4, <1>5 DEF PrepareInv, NewestOpen

LEMMA CatalogueInvStep == CatalogueInv /\ PrepareInv /\ [CatalogueNext]_catalogueVars => CatalogueInv'
<1> SUFFICES ASSUME CatalogueInv, PrepareInv, [CatalogueNext]_catalogueVars PROVE CatalogueInv'
  OBVIOUS
<1>0. Table(rows') /\ Keeps(rows, rows')
  BY RowsStay
<1>1. CASE apps' = apps
  BY <1>0, <1>1, RowsWritten
<1>2. CASE CampaignCreatesApplication
  <2>1. PICK j \in saved :
          apps' = Append(apps, [job |-> j, campaign |-> TRUE, state |-> "WAITING_FOR_APPROVAL"])
    BY <1>2 DEF CampaignCreatesApplication
  <2>2. j \in DOMAIN rows /\ UNCHANGED rows
    BY <1>2 DEF PrepareInv, PrepareTypes, CampaignCreatesApplication, jobVars
  <2> QED BY <2>1, <2>2, ApplicationAdded
<1>3. ASSUME NEW c \in Calls, PrepareSaves(c) PROVE CatalogueInv'
  <2>1. /\ calls[c].job \in DOMAIN rows /\ UNCHANGED rows
        /\ apps' = Append(apps, [job |-> calls[c].job, campaign |-> FALSE,
                                 state |-> "WAITING_FOR_APPROVAL"])
    BY <1>3 DEF PrepareInv, PrepareTypes, PrepareSaves, PrepareReturns, Checked, jobVars
  <2> QED BY <2>1, ApplicationAdded
<1>4. CASE WorkSaves
  <2>1. PICK a \in working, s \in ManualStates \cup {"WAITING_FOR_APPROVAL"} :
          apps' = [apps EXCEPT ![a].state = s]
    BY <1>4 DEF WorkSaves
  <2>2. a \in DOMAIN apps /\ UNCHANGED rows
    BY <1>4 DEF PrepareInv, PrepareTypes, WorkSaves, jobVars
  <2> QED BY <2>1, <2>2, StateChanges
<1>5. CASE CancelArrives
  <2>1. UNCHANGED rows
    BY <1>5 DEF CancelArrives, jobVars
  <2>2. ASSUME NEW a \in cancelling, apps' = [apps EXCEPT ![a].state = "CANCELLED"]
        PROVE  CatalogueInv'
    <3>1. CASE a \in DOMAIN apps
      BY <2>1, <2>2, <3>1, StateChanges
    <3>2. CASE a \notin DOMAIN apps
      <4>1. apps' = apps
        BY <2>2, <3>2 DEF CatalogueInv
      <4> QED BY <1>1, <4>1
    <3> QED BY <3>1, <3>2
  <2> QED BY <1>1, <1>5, <2>2 DEF CancelArrives
<1>6. CASE \/ Search \/ ImportCurrentPage \/ Score \/ CampaignSaveJob \/ CampaignPassesOver
           \/ LockLapses \/ WorkBegins \/ WorkEnds
           \/ \E c \in Calls : \/ PrepareAsked(c) \/ PrepareChecks(c) \/ PrepareRefused(c)
                               \/ PrepareFails(c) \/ PrepareDies(c)
  BY <1>1, <1>6 DEF Search, ImportCurrentPage, Score, CampaignSaveJob, CampaignPassesOver,
     LockLapses, WorkBegins, WorkEnds, PrepareAsked, PrepareChecks, PrepareRefused, PrepareFails,
     PrepareDies, deskVars
<1>7. CASE \/ Decide \/ Tag \/ ConfigureConnector \/ SyncManualActions \/ ContinueItem \/ CancelItem
           \/ WalkStart \/ WalkNext \/ UNCHANGED catalogueVars
  BY <1>1, <1>7 DEF Decide, Tag, ConfigureConnector, SyncManualActions, ContinueItem, CancelItem,
     WalkStart, WalkNext, catalogueVars, deskVars
<1> QED BY <1>2, <1>3, <1>4, <1>5, <1>6, <1>7 DEF CatalogueNext

\* The table grows, or is left alone, under calls that are left alone.
LEMMA PrepareInvRows ==
  ASSUME CatalogueInv, PrepareInv, [CatalogueNext]_catalogueVars,
         UNCHANGED <<apps, prepareVars>>
  PROVE  PrepareInv'
<1>1. /\ DOMAIN rows \subseteq DOMAIN rows'
      /\ \A j \in DOMAIN rows : rows'[j].print = rows[j].print
  BY RowsStay DEF Keeps, Table, CatalogueInv
<1>2. \A c \in Calls : Checked(c)' <=> Checked(c)
  BY DEF Checked, prepareVars
<1> QED BY <1>1, <1>2 DEF PrepareInv, PrepareTypes, NewestOpen, LockHeld, OneCall, Unapplied,
   prepareVars, Checked

\* A call comes, goes or checks; a campaign passes over; a lock lapses; work begins, ends.
LEMMA PrepareInvCalls ==
  ASSUME CatalogueInv, PrepareInv, UNCHANGED <<rows, apps>>,
         \/ \E c \in Calls : \/ PrepareAsked(c) \/ PrepareChecks(c) \/ PrepareRefused(c)
                             \/ PrepareFails(c) \/ PrepareDies(c)
         \/ CampaignPassesOver \/ LockLapses \/ WorkBegins \/ WorkEnds
  PROVE  PrepareInv'
<1>1. ASSUME NEW c \in Calls, PrepareAsked(c) PROVE PrepareInv'
  <2>1. PICK j \in DOMAIN rows : calls' = [calls EXCEPT ![c] = [job |-> j, checked |-> FALSE]]
    BY <1>1 DEF PrepareAsked
  <2>2. j \in Nat
    BY DEF CatalogueInv, Table
  <2>3. \A d \in Calls : calls'[d] = IF d = c THEN [job |-> j, checked |-> FALSE] ELSE calls[d]
    BY <2>1 DEF PrepareInv, PrepareTypes
  <2>4. \A d \in Calls : Checked(d)' => Checked(d) /\ calls'[d] = calls[d]
    BY <2>3 DEF Checked
  <2>5. calls' \in [Calls -> [job : Nat, checked : BOOLEAN] \cup {NoCall}]
    BY <2>1, <2>2 DEF PrepareInv, PrepareTypes
  <2>6. UNCHANGED <<locks, saved, working, raced>>
    BY <1>1 DEF PrepareAsked
  <2>7. \A d \in Calls : calls'[d] # NoCall => calls'[d].job \in DOMAIN rows
    BY <2>3 DEF PrepareInv, PrepareTypes
  <2>8. PrepareTypes'
    BY <2>5, <2>6, <2>7 DEF PrepareInv, PrepareTypes
  <2>9. NewestOpen'
    BY <2>6 DEF PrepareInv, NewestOpen
  <2>10. LockHeld'
    BY <2>4, <2>6 DEF PrepareInv, LockHeld
  <2>11. OneCall'
    BY <2>4, <2>6 DEF PrepareInv, OneCall
  <2>12. Unapplied'
    BY <2>4, <2>6 DEF PrepareInv, Unapplied
  <2> QED BY <2>8, <2>9, <2>10, <2>11, <2>12 DEF PrepareInv
<1>2. ASSUME NEW c \in Calls, PrepareChecks(c) PROVE PrepareInv'
  <2>0. PICK j : j = calls[c].job
    OBVIOUS
  <2>1. /\ calls[c] # NoCall /\ ~calls[c].checked /\ j \in DOMAIN rows
        /\ rows[j].print \notin locks
        /\ calls' = [calls EXCEPT ![c].checked = TRUE]
        /\ locks' = locks \cup {rows[j].print}
        /\ raced' = IF j \in saved THEN raced \cup {j} ELSE raced
        /\ UNCHANGED <<saved, working>>
    BY <1>2, <2>0 DEF PrepareChecks, Asked, MayPrepare, PrintOf, PrepareInv, PrepareTypes
  <2>2. calls[c] \in [job : Nat, checked : BOOLEAN]
    BY <2>1 DEF PrepareInv, PrepareTypes
  <2>3. /\ calls'[c] = [calls[c] EXCEPT !.checked = TRUE]
        /\ \A d \in Calls : d # c => calls'[d] = calls[d]
    BY <2>1 DEF PrepareInv, PrepareTypes
  <2>4. calls'[c] \in [job : Nat, checked : BOOLEAN] /\ calls'[c].job = j /\ calls'[c].checked
    BY <2>0, <2>2, <2>3
  <2>5. calls' \in [Calls -> [job : Nat, checked : BOOLEAN] \cup {NoCall}]
    BY <2>1, <2>3, <2>4 DEF PrepareInv, PrepareTypes
  <2>6. \A d \in Calls : d # c => (Checked(d)' <=> Checked(d))
    BY <2>3 DEF Checked
  <2>7. raced \subseteq raced' /\ (j \in saved => j \in raced')
    BY <2>1
  <2>8. j \notin raced => /\ \A a \in DOMAIN apps : apps[a].job = j => apps[a].state = "CANCELLED"
                          /\ \A d \in Calls : Checked(d) => calls[d].job # j
    <3>1. \A a \in NewestOf(j) : apps[a].state = "CANCELLED"
      BY <1>2, <2>0 DEF PrepareChecks, MayPrepare
    <3>2. j \notin raced => \A a \in DOMAIN apps : apps[a].job = j => apps[a].state = "CANCELLED"
      BY <3>1, NewestIsLast
    <3>3. ASSUME NEW d \in Calls, Checked(d), calls[d].job = j, j \notin raced PROVE FALSE
      BY <2>1, <3>3 DEF PrepareInv, LockHeld
    <3> QED BY <3>2, <3>3
  <2>9. \A d \in Calls : calls'[d] # NoCall => calls'[d].job \in DOMAIN rows
    BY <2>1, <2>3, <2>4 DEF PrepareInv, PrepareTypes
  <2>10. \A a, b \in DOMAIN apps :
           a < b /\ apps[a].job = apps[b].job /\ apps[a].job \notin raced' => apps[a].state = "CANCELLED"
    BY <2>7 DEF PrepareInv, NewestOpen
  <2>11. \A d \in Calls : Checked(d)' /\ calls'[d].job \notin raced' =>
           /\ rows[calls'[d].job].print \in locks'
           /\ \A a \in DOMAIN apps : apps[a].job = calls'[d].job => apps[a].state = "CANCELLED"
    <3> SUFFICES ASSUME NEW d \in Calls, Checked(d)', calls'[d].job \notin raced'
                 PROVE  /\ rows[calls'[d].job].print \in locks'
                        /\ \A a \in DOMAIN apps :
                             apps[a].job = calls'[d].job => apps[a].state = "CANCELLED"
      OBVIOUS
    <3>1. CASE d = c
      BY <2>1, <2>4, <2>7, <2>8, <3>1
    <3>2. CASE d # c
      BY <2>1, <2>3, <2>6, <2>7, <3>2 DEF PrepareInv, LockHeld
    <3> QED BY <3>1, <3>2
  <2>12. \A d \in Calls : \A e \in Calls \ {d} :
           Checked(d)' /\ Checked(e)' /\ calls'[d].job \notin raced' => calls'[d].job # calls'[e].job
    <3> SUFFICES ASSUME NEW d \in Calls, NEW e \in Calls \ {d}, Checked(d)', Checked(e)',
                        calls'[d].job \notin raced'
                 PROVE  calls'[d].job # calls'[e].job
      OBVIOUS
    <3>1. CASE d = c
      <4>1. Checked(e) /\ calls'[e].job = calls[e].job
        BY <2>3, <2>6, <3>1
      <4> QED BY <2>4, <2>7, <2>8, <3>1, <4>1
    <3>2. CASE e = c
      <4>1. Checked(d) /\ calls'[d].job = calls[d].job
        BY <2>3, <2>6, <3>2
      <4> QED BY <2>4, <2>7, <2>8, <3>2, <4>1
    <3>3. CASE d # c /\ e # c
      BY <2>3, <2>6, <2>7, <3>3 DEF PrepareInv, OneCall
    <3> QED BY <3>1, <3>2, <3>3
  <2>13. \A i \in saved \ raced' :
           /\ \A d \in Calls : Checked(d)' => calls'[d].job # i
           /\ \A a \in DOMAIN apps : apps[a].job # i
    <3> SUFFICES ASSUME NEW i \in saved \ raced'
                 PROVE  /\ \A d \in Calls : Checked(d)' => calls'[d].job # i
                        /\ \A a \in DOMAIN apps : apps[a].job # i
      OBVIOUS
    <3>1. i # j /\ i \in saved \ raced
      BY <2>7
    <3> QED BY <2>3, <2>4, <2>6, <3>1 DEF PrepareInv, Unapplied
  <2>14. saved \subseteq DOMAIN rows /\ working \subseteq DOMAIN apps
    BY DEF PrepareInv, PrepareTypes
  <2> QED BY <2>1, <2>5, <2>9, <2>10, <2>11, <2>12, <2>13, <2>14 DEF PrepareInv, PrepareTypes,
     NewestOpen, LockHeld, OneCall, Unapplied
<1>3. ASSUME NEW c \in Calls, calls' = [calls EXCEPT ![c] = NoCall],
             UNCHANGED <<saved, working, raced>>,
             \/ locks' = locks
             \/ Checked(c) /\ locks' = locks \ {rows[calls[c].job].print}
      PROVE  PrepareInv'
  <2>1. \A d \in Calls : calls'[d] = IF d = c THEN NoCall ELSE calls[d]
    BY <1>3 DEF PrepareInv, PrepareTypes
  <2>2. \A d \in Calls : Checked(d)' => Checked(d) /\ calls'[d] = calls[d] /\ d # c
    BY <2>1 DEF Checked
  <2>3. calls' \in [Calls -> [job : Nat, checked : BOOLEAN] \cup {NoCall}]
    BY <1>3 DEF PrepareInv, PrepareTypes
  <2>4. \A d \in Calls : Checked(d)' /\ calls'[d].job \notin raced => rows[calls'[d].job].print \in locks'
    <3> SUFFICES ASSUME NEW d \in Calls, Checked(d)', calls'[d].job \notin raced,
                        Checked(c), locks' = locks \ {rows[calls[c].job].print}
                 PROVE  rows[calls'[d].job].print \in locks'
      BY <1>3, <2>2 DEF PrepareInv, LockHeld
    <3>1. rows[calls[d].job].print \in locks /\ calls[d].job # calls[c].job
      BY <2>2 DEF PrepareInv, LockHeld, OneCall
    <3>2. calls[d].job \in DOMAIN rows /\ calls[c].job \in DOMAIN rows
      BY <2>2 DEF PrepareInv, PrepareTypes, Checked
    <3>3. rows[calls[d].job].print # rows[calls[c].job].print
      BY <3>1, <3>2 DEF CatalogueInv, Table
    <3> QED BY <2>2, <3>1, <3>3
  <2>5. PrepareTypes'
    BY <1>3, <2>1, <2>3 DEF PrepareInv, PrepareTypes
  <2>6. NewestOpen' /\ LockHeld'
    BY <1>3, <2>2, <2>4 DEF PrepareInv, NewestOpen, LockHeld
  <2>7. OneCall'
    BY <1>3, <2>2 DEF PrepareInv, OneCall
  <2>8. Unapplied'
    BY <1>3, <2>2 DEF PrepareInv, Unapplied
  <2> QED BY <2>5, <2>6, <2>7, <2>8 DEF PrepareInv
<1>4. ASSUME NEW c \in Calls, PrepareRefused(c) \/ PrepareFails(c) \/ PrepareDies(c)
      PROVE  PrepareInv'
  BY <1>3, <1>4 DEF PrepareRefused, PrepareFails, PrepareDies, PrepareReturns, PrintOf
<1>5. CASE CampaignPassesOver
  <2>1. saved' \subseteq saved /\ UNCHANGED <<calls, locks, working, raced>>
    BY <1>5 DEF CampaignPassesOver
  <2>2. \A c \in Calls : Checked(c)' <=> Checked(c)
    BY <2>1 DEF Checked
  <2> QED BY <2>1, <2>2 DEF PrepareInv, PrepareTypes, NewestOpen, LockHeld, OneCall, Unapplied
<1>6. CASE LockLapses
  <2>1. PICK print \in locks :
          /\ locks' = locks \ {print}
          /\ raced' = raced \cup {j \in DOMAIN rows :
                                   \E c \in Calls : Checked(c) /\ j = calls[c].job /\ PrintOf(c) = print}
          /\ UNCHANGED <<calls, saved, working>>
    BY <1>6 DEF LockLapses
  <2>2. \A c \in Calls : Checked(c)' <=> Checked(c)
    BY <2>1 DEF Checked
  <2>3. raced \subseteq raced'
    BY <2>1
  <2>4. ASSUME NEW c \in Calls, Checked(c), calls[c].job \notin raced'
        PROVE  rows[calls[c].job].print \in locks'
    <3>1. calls[c].job \in DOMAIN rows /\ rows[calls[c].job].print # print
      BY <2>1, <2>4 DEF PrintOf, PrepareInv, PrepareTypes, Checked
    <3>2. rows[calls[c].job].print \in locks
      BY <2>3, <2>4 DEF PrepareInv, LockHeld
    <3> QED BY <2>1, <3>1, <3>2
  <2> HIDE <1>6
  <2> QED BY <2>1, <2>2, <2>3, <2>4 DEF PrepareInv, PrepareTypes, NewestOpen, LockHeld, OneCall,
     Unapplied
<1>7. CASE WorkBegins \/ WorkEnds
  <2>1. working' \subseteq DOMAIN apps /\ UNCHANGED <<calls, locks, saved, raced>>
    BY <1>7 DEF WorkBegins, WorkEnds, PrepareInv, PrepareTypes
  <2>2. \A c \in Calls : Checked(c)' <=> Checked(c)
    BY <2>1 DEF Checked
  <2> QED BY <2>1, <2>2 DEF PrepareInv, PrepareTypes, NewestOpen, LockHeld, OneCall, Unapplied
<1> QED BY <1>1, <1>2, <1>4, <1>5, <1>6, <1>7

\* A campaign saves a new job, which nobody has asked for yet.
LEMMA PrepareInvSaves ==
  ASSUME CatalogueInv, PrepareInv, CampaignSaveJob
  PROVE  PrepareInv'
<1>1. PICK p \in Postings, s \in Scores, t \in 1..MaxClock :
        rows' # rows /\ rows' = SaveJob(rows, NormalizeJob(p, s, t))
  BY DEF CampaignSaveJob, WriteRows
<1>2. /\ saved' = saved \cup {Len(rows) + 1}
      /\ UNCHANGED <<apps, calls, locks, working, raced>>
  BY DEF CampaignSaveJob, deskVars
<1> DEFINE job == NormalizeJob(p, s, t)
<1>3. job \in Row
  BY CatalogueAssumption, NormalRow
<1> HIDE DEF job
<1>4. rows' = Append(rows, job) /\ rows \in Seq(Row)
  BY <1>1 DEF SaveJob, CatalogueInv, Table, job
<1>5. /\ DOMAIN rows = 1..Len(rows) /\ DOMAIN rows' = 1..(Len(rows) + 1) /\ Len(rows) \in Nat
      /\ \A j \in DOMAIN rows : rows'[j] = rows[j] /\ j \in DOMAIN rows' /\ j # Len(rows) + 1
  BY <1>3, <1>4, AppendProperties
<1>6. \A c \in Calls : Checked(c)' <=> Checked(c)
  BY <1>2 DEF Checked
<1>7. PrepareTypes'
  BY <1>2, <1>5 DEF PrepareInv, PrepareTypes
<1>8. NewestOpen'
  BY <1>2 DEF PrepareInv, NewestOpen
<1>9. LockHeld'
  <2>1. \A c \in Calls : Checked(c) => rows'[calls[c].job].print = rows[calls[c].job].print
    BY <1>5 DEF PrepareInv, PrepareTypes, Checked
  <2> QED BY <1>2, <1>6, <2>1 DEF PrepareInv, LockHeld
<1>10. OneCall'
  BY <1>2, <1>6 DEF PrepareInv, OneCall
<1>11. Unapplied'
  <2>1. \A c \in Calls : Checked(c) => calls[c].job # Len(rows) + 1
    BY <1>5 DEF PrepareInv, PrepareTypes, Checked
  <2>2. \A a \in DOMAIN apps : apps[a].job # Len(rows) + 1
    BY <1>5 DEF CatalogueInv
  <2> QED BY <1>2, <1>6, <2>1, <2>2 DEF PrepareInv, Unapplied
<1> QED BY <1>7, <1>8, <1>9, <1>10, <1>11 DEF PrepareInv

\* A campaign creates the application of a job it has saved.
LEMMA PrepareInvCreates ==
  ASSUME CatalogueInv, PrepareInv, CampaignCreatesApplication
  PROVE  PrepareInv'
<1>1. PICK j \in saved :
        /\ saved' = saved \ {j}
        /\ apps' = Append(apps, [job |-> j, campaign |-> TRUE, state |-> "WAITING_FOR_APPROVAL"])
  BY DEF CampaignCreatesApplication
<1>2. UNCHANGED <<rows, calls, locks, working, raced>> /\ j \in DOMAIN rows
  BY DEF CampaignCreatesApplication, jobVars, PrepareInv, PrepareTypes
<1>3. /\ \A a \in DOMAIN apps' : a \in DOMAIN apps \/ a = Len(apps) + 1
      /\ \A a \in DOMAIN apps : a \in DOMAIN apps' /\ apps'[a] = apps[a] /\ a < Len(apps) + 1
      /\ apps'[Len(apps) + 1].job = j
  BY <1>1, <1>2, ApplicationAdded
<1>4. \A c \in Calls : Checked(c)' <=> Checked(c)
  BY <1>2 DEF Checked
<1>5. j \notin raced => /\ \A c \in Calls : Checked(c) => calls[c].job # j
                        /\ \A a \in DOMAIN apps : apps[a].job # j
  BY DEF PrepareInv, Unapplied
<1>6. PrepareTypes'
  BY <1>1, <1>2, <1>3 DEF PrepareInv, PrepareTypes
<1>7. NewestOpen'
  <2> SUFFICES ASSUME NEW a \in DOMAIN apps', NEW b \in DOMAIN apps', a < b,
                      apps'[a].job = apps'[b].job, apps'[a].job \notin raced
               PROVE  apps'[a].state = "CANCELLED"
    BY <1>2 DEF NewestOpen
  <2>1. CASE a \in DOMAIN apps /\ b \in DOMAIN apps
    BY <1>3, <2>1 DEF PrepareInv, NewestOpen
  <2>2. CASE a \in DOMAIN apps /\ b = Len(apps) + 1
    BY <1>3, <1>5, <2>2
  <2>3. CASE a = Len(apps) + 1
    <3>1. b \in DOMAIN apps /\ b < a
      BY <1>3, <2>3 DEF CatalogueInv
    <3> QED BY <1>3, <3>1 DEF CatalogueInv
  <2> QED BY <1>3, <2>1, <2>2, <2>3
<1>8. LockHeld'
  <2> SUFFICES ASSUME NEW c \in Calls, Checked(c), calls[c].job \notin raced
               PROVE  /\ rows[calls[c].job].print \in locks
                      /\ \A a \in DOMAIN apps' :
                           apps'[a].job = calls[c].job => apps'[a].state = "CANCELLED"
    BY <1>2, <1>4 DEF LockHeld
  <2>1. /\ rows[calls[c].job].print \in locks
        /\ \A a \in DOMAIN apps : apps[a].job = calls[c].job => apps[a].state = "CANCELLED"
    BY DEF PrepareInv, LockHeld
  <2>2. calls[c].job # j
    BY <1>5
  <2> QED BY <1>3, <2>1, <2>2
<1>9. OneCall'
  BY <1>2, <1>4 DEF PrepareInv, OneCall
<1>10. Unapplied'
  BY <1>1, <1>2, <1>3, <1>4 DEF PrepareInv, Unapplied
<1> QED BY <1>6, <1>7, <1>8, <1>9, <1>10 DEF PrepareInv

\* A call of prepare saves its record: no other was let in, or the job is raced.
LEMMA PrepareInvRecord ==
  ASSUME CatalogueInv, PrepareInv, NEW c \in Calls, PrepareSaves(c)
  PROVE  PrepareInv'
<1>0. PICK j : j = calls[c].job
  OBVIOUS
<1>1. /\ Checked(c) /\ calls' = [calls EXCEPT ![c] = NoCall] /\ locks' = locks \ {rows[j].print}
      /\ apps' = Append(apps, [job |-> j, campaign |-> FALSE, state |-> "WAITING_FOR_APPROVAL"])
      /\ UNCHANGED <<rows, saved, working, raced>>
  BY <1>0 DEF PrepareSaves, PrepareReturns, PrintOf, jobVars
<1>2. j \in DOMAIN rows
  BY <1>0, <1>1 DEF Checked, PrepareInv, PrepareTypes
<1>3. /\ \A a \in DOMAIN apps' : a \in DOMAIN apps \/ a = Len(apps) + 1
      /\ \A a \in DOMAIN apps : a \in DOMAIN apps' /\ apps'[a] = apps[a] /\ a < Len(apps) + 1
      /\ apps'[Len(apps) + 1].job = j
  BY <1>1, <1>2, ApplicationAdded
<1>4. \A d \in Calls : calls'[d] = IF d = c THEN NoCall ELSE calls[d]
  BY <1>1 DEF PrepareInv, PrepareTypes
<1>5. \A d \in Calls : Checked(d)' => Checked(d) /\ calls'[d] = calls[d] /\ d # c
  BY <1>4 DEF Checked
<1>6. j \notin raced => /\ \A a \in DOMAIN apps : apps[a].job = j => apps[a].state = "CANCELLED"
                        /\ \A d \in Calls \ {c} : Checked(d) => calls[d].job # j
  BY <1>0, <1>1 DEF PrepareInv, LockHeld, OneCall
<1>7. PrepareTypes'
  <2>1. calls' \in [Calls -> [job : Nat, checked : BOOLEAN] \cup {NoCall}]
    BY <1>1 DEF PrepareInv, PrepareTypes
  <2> QED BY <1>1, <1>3, <1>4, <2>1 DEF PrepareInv, PrepareTypes
<1>8. NewestOpen'
  <2> SUFFICES ASSUME NEW a \in DOMAIN apps', NEW b \in DOMAIN apps', a < b,
                      apps'[a].job = apps'[b].job, apps'[a].job \notin raced
               PROVE  apps'[a].state = "CANCELLED"
    BY <1>1 DEF NewestOpen
  <2>1. CASE a \in DOMAIN apps /\ b \in DOMAIN apps
    BY <1>3, <2>1 DEF PrepareInv, NewestOpen
  <2>2. CASE a \in DOMAIN apps /\ b = Len(apps) + 1
    BY <1>3, <1>6, <2>2
  <2>3. CASE a = Len(apps) + 1
    <3>1. b \in DOMAIN apps /\ b < a
      BY <1>3, <2>3 DEF CatalogueInv
    <3> QED BY <1>3, <3>1 DEF CatalogueInv
  <2> QED BY <1>3, <2>1, <2>2, <2>3
<1>9. LockHeld'
  <2> SUFFICES ASSUME NEW d \in Calls, Checked(d)', calls'[d].job \notin raced
               PROVE  /\ rows[calls'[d].job].print \in locks'
                      /\ \A a \in DOMAIN apps' :
                           apps'[a].job = calls'[d].job => apps'[a].state = "CANCELLED"
    BY <1>1 DEF LockHeld
  <2>1. /\ Checked(d) /\ calls'[d] = calls[d] /\ d # c /\ calls[d].job \in DOMAIN rows
        /\ rows[calls[d].job].print \in locks
        /\ \A a \in DOMAIN apps : apps[a].job = calls[d].job => apps[a].state = "CANCELLED"
    BY <1>5 DEF PrepareInv, PrepareTypes, LockHeld, Checked
  <2>2. calls[d].job # j
    BY <1>0, <1>1, <1>5 DEF PrepareInv, OneCall
  <2>3. rows[calls[d].job].print # rows[j].print
    BY <1>2, <2>1, <2>2 DEF CatalogueInv, Table
  <2> QED BY <1>1, <1>3, <2>1, <2>2, <2>3
<1>10. OneCall'
  BY <1>1, <1>5 DEF PrepareInv, OneCall
<1>11. Unapplied'
  <2> SUFFICES ASSUME NEW i \in saved \ raced
               PROVE  /\ \A d \in Calls : Checked(d)' => calls'[d].job # i
                      /\ \A a \in DOMAIN apps' : apps'[a].job # i
    BY <1>1 DEF Unapplied
  <2>1. /\ \A d \in Calls : Checked(d) => calls[d].job # i
        /\ \A a \in DOMAIN apps : apps[a].job # i
    BY DEF PrepareInv, Unapplied
  <2>2. i # j
    BY <1>0, <1>1, <2>1
  <2> QED BY <1>3, <1>5, <2>1, <2>2
<1> QED BY <1>7, <1>8, <1>9, <1>10, <1>11 DEF PrepareInv

\* An application changes its state: out of CANCELLED only with its job raced.
LEMMA PrepareInvState ==
  ASSUME CatalogueInv, PrepareInv, WorkSaves \/ CancelArrives
  PROVE  PrepareInv'
<1>1. UNCHANGED <<rows, calls, locks, saved, working>> /\ raced \subseteq raced'
  BY DEF WorkSaves, CancelArrives, jobVars, prepareVars
<1>2. \A c \in Calls : Checked(c)' <=> Checked(c)
  BY <1>1 DEF Checked
<1>3. /\ DOMAIN apps' = DOMAIN apps
      /\ \A b \in DOMAIN apps :
           /\ apps'[b].job = apps[b].job
           /\ apps[b].state = "CANCELLED" => apps'[b].state = "CANCELLED" \/ apps[b].job \in raced'
  <2>1. CASE WorkSaves
    <3>1. PICK a \in working, s \in ManualStates \cup {"WAITING_FOR_APPROVAL"} :
            /\ apps' = [apps EXCEPT ![a].state = s]
            /\ raced' = IF apps[a].state = "CANCELLED" THEN raced \cup {apps[a].job} ELSE raced
      BY <2>1 DEF WorkSaves
    <3>2. a \in DOMAIN apps
      BY DEF PrepareInv, PrepareTypes
    <3>3. /\ DOMAIN apps' = DOMAIN apps
          /\ \A b \in DOMAIN apps : /\ apps'[b].job = apps[b].job
                                    /\ b # a => apps'[b].state = apps[b].state
      BY <1>1, <3>1, <3>2, StateChanges
    <3> QED BY <3>1, <3>3
  <2>2. CASE CancelArrives
    <3>1. CASE apps' = apps
      BY <3>1
    <3>2. ASSUME NEW a \in cancelling, apps' = [apps EXCEPT ![a].state = "CANCELLED"],
                 a \in DOMAIN apps
          PROVE  /\ DOMAIN apps' = DOMAIN apps
                 /\ \A b \in DOMAIN apps :
                      /\ apps'[b].job = apps[b].job
                      /\ apps[b].state = "CANCELLED" => apps'[b].state = "CANCELLED"
      BY <1>1, <3>2, StateChanges
    <3>3. ASSUME NEW a \in cancelling, apps' = [apps EXCEPT ![a].state = "CANCELLED"],
                 a \notin DOMAIN apps
          PROVE  apps' = apps
      BY <3>3 DEF CatalogueInv
    <3> QED BY <2>2, <3>1, <3>2, <3>3 DEF CancelArrives
  <2> QED BY <2>1, <2>2
<1>4. PrepareTypes'
  BY <1>1, <1>3 DEF PrepareInv, PrepareTypes
<1>5. NewestOpen'
  BY <1>1, <1>3 DEF PrepareInv, NewestOpen
<1>6. LockHeld'
  BY <1>1, <1>2, <1>3 DEF PrepareInv, LockHeld
<1>7. OneCall'
  BY <1>1, <1>2 DEF PrepareInv, OneCall
<1>8. Unapplied'
  BY <1>1, <1>2, <1>3 DEF PrepareInv, Unapplied
<1> QED BY <1>4, <1>5, <1>6, <1>7, <1>8 DEF PrepareInv

LEMMA PrepareInvStep ==
  ASSUME CatalogueInv, PrepareInv, [CatalogueNext]_catalogueVars
  PROVE  PrepareInv'
<1>1. CASE UNCHANGED <<apps, prepareVars>>
  BY <1>1, PrepareInvRows
<1>2. CASE CampaignSaveJob
  BY <1>2, PrepareInvSaves
<1>3. CASE CampaignCreatesApplication
  BY <1>3, PrepareInvCreates
<1>4. ASSUME NEW c \in Calls, PrepareSaves(c) PROVE PrepareInv'
  BY <1>4, PrepareInvRecord
<1>5. CASE WorkSaves \/ CancelArrives
  BY <1>5, PrepareInvState
<1>6. CASE \/ \E c \in Calls : \/ PrepareAsked(c) \/ PrepareChecks(c) \/ PrepareRefused(c)
                               \/ PrepareFails(c) \/ PrepareDies(c)
           \/ CampaignPassesOver \/ LockLapses \/ WorkBegins \/ WorkEnds
  <2>1. UNCHANGED <<rows, apps>>
    BY <1>6 DEF PrepareAsked, PrepareChecks, PrepareRefused, PrepareFails, PrepareDies,
       CampaignPassesOver, LockLapses, WorkBegins, WorkEnds, jobVars, deskVars
  <2> QED BY <1>6, <2>1, PrepareInvCalls
<1>7. CASE \/ Search \/ ImportCurrentPage \/ Score \/ Decide \/ Tag \/ ConfigureConnector
           \/ SyncManualActions \/ ContinueItem \/ CancelItem \/ WalkStart \/ WalkNext
           \/ UNCHANGED catalogueVars
  BY <1>1, <1>7 DEF Search, ImportCurrentPage, Score, Decide, Tag, ConfigureConnector,
     SyncManualActions, ContinueItem, CancelItem, WalkStart, WalkNext, catalogueVars, deskVars
<1> QED BY <1>2, <1>3, <1>4, <1>5, <1>6, <1>7 DEF CatalogueNext

LEMMA CatalogueInvStarts == CatalogueInit => CatalogueInv /\ PrepareInv
<1> SUFFICES ASSUME CatalogueInit PROVE CatalogueInv /\ PrepareInv
  OBVIOUS
<1>1. CatalogueInv
  BY DEF CatalogueInit, CatalogueInv, Table
<1>2. \A c \in Calls : calls[c] = NoCall /\ ~Checked(c)
  BY DEF CatalogueInit, Checked
<1> QED BY <1>1, <1>2 DEF CatalogueInit, PrepareInv, PrepareTypes, NewestOpen, LockHeld, OneCall,
        Unapplied

\* A posting spelt the clean way has one row, which search, import, score and campaign
\* runs leave in its place (saveJob(), upsertJob()), and at most one application of it is
\* open (prepareOnce(), runCampaign()), unless one of three overlaps has touched it: a lock
\* that lapsed under a prepare, a prepare within a campaign's two statements, a save over a
\* cancellation.
THEOREM OneApplicationOfAPosting == CatalogueSpec => []OneApplicationPerCleanPosting
<1>1. CatalogueInv /\ PrepareInv => OneApplicationPerCleanPosting
  <2> SUFFICES ASSUME CatalogueInv, PrepareInv, NEW a \in DOMAIN apps, NEW b \in DOMAIN apps, a # b,
                      rows[apps[b].job].posting = rows[apps[a].job].posting,
                      Clean[rows[apps[a].job].posting] = rows[apps[a].job].posting,
                      apps[a].state # "CANCELLED", apps[b].state # "CANCELLED"
               PROVE  apps[a].job = apps[b].job /\ apps[a].job \in raced
    BY DEF OneApplicationPerCleanPosting
  <2>1. apps[a].job \in DOMAIN rows /\ apps[b].job \in DOMAIN rows /\ a \in Nat /\ b \in Nat
    BY DEF CatalogueInv
  <2>2. apps[a].job = apps[b].job
    BY <2>1 DEF CatalogueInv, Table, CleanPrint
  <2>3. a < b \/ b < a
    BY <2>1
  <2> QED BY <2>2, <2>3 DEF PrepareInv, NewestOpen
<1> QED BY <1>1, CatalogueInvStarts, CatalogueInvStep, PrepareInvStep, PTL DEF CatalogueSpec

\* The inbox keeps the user's answers: syncManualActions() raises only what it never
\* raised and updateManualAction() updates only what is open.
THEOREM AnswersOfTheInboxStay == CatalogueSpec => AnsweredItemsStay
<1> DEFINE Inv == items \in [Applications \X ManualStates ->
                              {"none", "open", "continued", "cancelled"}]
           Step == /\ items' \in [Applications \X ManualStates ->
                                  {"none", "open", "continued", "cancelled"}]
                   /\ \A k \in DOMAIN items :
                        items[k] \in {"continued", "cancelled"} => items'[k] = items[k]
<1>1. CatalogueInit => Inv
  BY DEF CatalogueInit
<1>2. Inv /\ [CatalogueNext]_catalogueVars => Step
  <2> SUFFICES ASSUME Inv, [CatalogueNext]_catalogueVars PROVE Step
    OBVIOUS
  <2>1. CASE items' = items
    BY <2>1
  <2>2. CASE SyncManualActions
    BY <2>2 DEF SyncManualActions, Raised
  <2>3. CASE ContinueItem \/ CancelItem
    <3>1. PICK k \in DOMAIN items, s \in {"continued", "cancelled"} : items' = Answered(k, s)
      BY <2>3 DEF ContinueItem, CancelItem
    <3> QED BY <3>1 DEF Answered
  <2> QED BY <2>1, <2>2, <2>3 DEF CatalogueNext, Search, ImportCurrentPage, Score, CampaignSaveJob,
             CampaignCreatesApplication, CampaignPassesOver, Decide, Tag, ConfigureConnector,
             PrepareAsked, PrepareChecks, PrepareRefused, PrepareSaves, PrepareFails, PrepareDies,
             LockLapses, WorkBegins, WorkSaves, WorkEnds, CancelArrives, WalkStart, WalkNext,
             catalogueVars, deskVars
<1>3. Step => Inv' /\ \A k \in DOMAIN items :
                items[k] \in {"continued", "cancelled"} => items'[k] = items[k]
  OBVIOUS
<1> HIDE DEF Inv, Step
<1> QED BY <1>1, <1>2, <1>3, PTL DEF CatalogueSpec, AnsweredItemsStay


-----------------------------------------------------------------------------
\* Walking a list.

\* Those listed before a job.
Before(view, table, choice, j) ==
  {i \in Listed(view, table, choice) : Precedes(view, table, i, j)}

LEMMA Lists ==
  ASSUME NEW table, Table(table), NEW choice, NEW view, NEW j
  PROVE  /\ IsFiniteSet(Listed(view, table, choice))
         /\ IsFiniteSet(Before(view, table, choice, j))
         /\ Cardinality(Listed(view, table, choice)) \in Nat
         /\ Cardinality(Before(view, table, choice, j)) \in Nat
         /\ j \in Listed(view, table, choice) =>
              Cardinality(Before(view, table, choice, j)) < Cardinality(Listed(view, table, choice))
<1> DEFINE L == Listed(view, table, choice)
           B == Before(view, table, choice, j)
<1>1. IsFiniteSet(L)
  <2>1. L \in SUBSET (1..Len(table)) /\ Len(table) \in Int
    BY DEF Listed, Table
  <2> HIDE DEF L
  <2>2. IsFiniteSet(1..Len(table))
    BY <2>1, FS_Interval
  <2> QED BY <2>1, <2>2, FS_Subset
<1>2. B \in SUBSET L
  BY DEF Before
<1>3. j \in L => B \in SUBSET (L \ {j})
  <2>1. \A i \in L : Precedes(view, table, i, j) => i # j
    <3> SUFFICES ASSUME j \in L, Precedes(view, table, j, j) PROVE FALSE
      OBVIOUS
    <3>1. j \in Nat /\ table[j] \in Row
      BY DEF Listed, Table
    <3>2. Key(view, table[j]) \in Nat
      BY <3>1 DEF Key, Row
    <3> QED BY <3>1, <3>2 DEF Precedes
  <2> QED BY <2>1 DEF Before
<1> HIDE DEF L, B
<1>4. IsFiniteSet(B) /\ Cardinality(L) \in Nat /\ Cardinality(B) \in Nat
  BY <1>1, <1>2, FS_Subset, FS_CardinalityType
<1>5. ASSUME j \in L PROVE Cardinality(B) < Cardinality(L)
  <2>1. IsFiniteSet(L \ {j}) /\ Cardinality(L \ {j}) = Cardinality(L) - 1
    BY <1>1, <1>5, FS_RemoveElement
  <2>2. Cardinality(B) <= Cardinality(L \ {j})
    BY <1>3, <1>5, <2>1, FS_Subset
  <2> QED BY <1>4, <2>1, <2>2
<1> QED BY <1>1, <1>4, <1>5 DEF L, B

\* Nobody who was listed before a job that keeps its key comes after it, unless
\* the walk takes notice of it.
LEMMA PlacesGrow ==
  ASSUME Table(rows), NEW table, Table(table), Len(rows) <= Len(table), NEW choice, NEW view,
         NEW j \in Listed(view, rows, decided), j \notin Rewritten(view, table, choice),
         ~Sank(view, table, choice)
  PROVE  /\ j \in Listed(view, table, choice)
         /\ Before(view, rows, decided, j) \subseteq Before(view, table, choice, j)
<1>1. j \in Listed(view, table, choice) /\ Key(view, table[j]) = Key(view, rows[j])
  BY DEF Rewritten
<1>2. ASSUME NEW i \in Listed(view, rows, decided), Precedes(view, rows, i, j)
      PROVE  i \in Before(view, table, choice, j)
  <2>1. CASE i \in Rewritten(view, table, choice)
    <3>1. i \in Listed(view, table, choice) /\ ~Precedes(view, table, j, i)
      BY <1>2, <2>1 DEF Sank
    <3>2. i \in Nat /\ j \in Nat /\ i # j
      BY <2>1 DEF Listed, Table
    <3>3. table[i] \in Row /\ table[j] \in Row
      BY <1>1, <3>1 DEF Listed, Table
    <3>4. Key(view, table[i]) \in Nat /\ Key(view, table[j]) \in Nat
      BY <3>3 DEF Key, Row
    <3>5. Precedes(view, table, i, j)
      BY <3>1, <3>2, <3>4 DEF Precedes
    <3> QED BY <3>1, <3>5 DEF Before
  <2>2. CASE i \notin Rewritten(view, table, choice)
    <3>1. i \in Listed(view, table, choice) /\ Key(view, table[i]) = Key(view, rows[i])
      BY <2>2 DEF Rewritten
    <3> QED BY <1>1, <1>2, <3>1 DEF Before, Precedes
  <2> QED BY <2>1, <2>2
<1> QED BY <1>1, <1>2 DEF Before

\* What a page shows and where the next one begins.
LEMMA Pages ==
  ASSUME Table(rows), NEW view, NEW offset \in Nat
  PROVE  /\ NextOffset(view, offset) \in Nat
         /\ \A j \in Listed(view, rows, decided) :
              Place(view, j) > offset =>
                \/ j \in PageFrom(view, offset)
                \/ /\ Place(view, j) > NextOffset(view, offset)
                   /\ NextOffset(view, offset) # Length(view)
<1> DEFINE n == NextOffset(view, offset)
           T == {offset + PageSize, Length(view)}
<1>1. Length(view) \in Nat /\ offset + PageSize \in Nat
  BY Lists, CatalogueAssumption DEF Length
<1>2. n \in T /\ n <= offset + PageSize /\ n <= Length(view)
  <2>1. T \in SUBSET Nat /\ T # {}
    BY <1>1
  <2>2. Min(T) \in T /\ \A y \in T : Min(T) <= y
    <3> HIDE DEF T
    <3> QED BY <2>1, LeastElement
  <2> QED BY <2>2 DEF NextOffset
<1>3. ASSUME NEW j \in Listed(view, rows, decided), Place(view, j) > offset,
             j \notin PageFrom(view, offset)
      PROVE  Place(view, j) > n /\ n # Length(view)
  <2>1. Place(view, j) \in Nat /\ Place(view, j) <= Length(view)
    BY Lists DEF Place, Length, Before
  <2>2. Place(view, j) > offset + PageSize
    BY <1>1, <1>3, <2>1, CatalogueAssumption DEF PageFrom
  <2> HIDE DEF n
  <2> QED BY <1>1, <1>2, <2>1, <2>2
<1>4. n \in Nat
  BY <1>1, <1>2
<1> QED BY <1>3, <1>4

\* A client's walk: what is left of the list when it began is still ahead.
WalkInv ==
  walk # NoWalk =>
    /\ walk \in [view : Views, start : SUBSET Nat, seen : SUBSET Nat, offset : Nat,
                 done : BOOLEAN, moved : SUBSET Nat, sunk : BOOLEAN]
    /\ ~walk.sunk => \A j \in walk.start \ walk.moved :
         \/ j \in walk.seen
         \/ /\ ~walk.done /\ j \in Listed(walk.view, rows, decided)
            /\ Place(walk.view, j) > walk.offset
    /\ ~walk.sunk /\ ~walk.done =>
         walk.start \ walk.moved \subseteq Listed(walk.view, rows, decided)


\* The table or the decisions change under a walk.
LEMMA ListChanges ==
  ASSUME WalkInv, CatalogueInv, Table(rows'), Len(rows) <= Len(rows'),
         walk' = Watched(rows', decided')
  PROVE  WalkInv'
<1> DEFINE W == [view : Views, start : SUBSET Nat, seen : SUBSET Nat, offset : Nat,
                 done : BOOLEAN, moved : SUBSET Nat, sunk : BOOLEAN]
<1>1. CASE walk' = walk /\ (walk = NoWalk \/ walk.done)
  BY <1>1 DEF WalkInv
<1>2. CASE walk # NoWalk /\ ~walk.done
  <2>0. PICK v : v = walk.view
    OBVIOUS
  <2> DEFINE R == Rewritten(v, rows', decided')
             sank == Sank(v, rows', decided')
  <2>1. walk \in W
    BY <1>2 DEF WalkInv
  <2>2. R \in SUBSET Nat /\ sank \in BOOLEAN
    BY DEF Rewritten, Listed, CatalogueInv, Table, Sank
  <2>3. walk' = [walk EXCEPT !.moved = walk.moved \cup R, !.sunk = walk.sunk \/ sank]
    BY <1>2, <2>0 DEF Watched
  <2> HIDE DEF R, sank
  <2>4. /\ walk' \in W
        /\ walk'.view = v /\ walk'.start = walk.start /\ walk'.seen = walk.seen
        /\ walk'.offset = walk.offset /\ walk'.done = walk.done
        /\ walk'.moved = walk.moved \cup R /\ (walk'.sunk <=> walk.sunk \/ sank)
    <3> DEFINE sunk == walk.sunk \/ sank
    <3>1. sunk \in BOOLEAN
      OBVIOUS
    <3>2. walk' = [walk EXCEPT !.moved = walk.moved \cup R, !.sunk = sunk]
      BY <2>3
    <3> HIDE DEF sunk
    <3>3. /\ walk' \in W
          /\ walk'.view = v /\ walk'.start = walk.start /\ walk'.seen = walk.seen
          /\ walk'.offset = walk.offset /\ walk'.done = walk.done
          /\ walk'.moved = walk.moved \cup R /\ walk'.sunk = sunk
      BY <2>0, <2>1, <2>2, <3>1, <3>2
    <3> QED BY <3>3 DEF sunk
  <2>5. ASSUME ~walk'.sunk, NEW j \in walk'.start \ walk'.moved
        PROVE  /\ j \in Listed(v, rows', decided')
               /\ j \in walk'.seen \/ Place(v, j)' > walk'.offset
    <3>1. /\ ~walk.sunk /\ ~sank /\ j \in walk.start \ walk.moved /\ j \notin R
          /\ j \in Listed(v, rows, decided)
          /\ j \in walk.seen \/ Place(v, j) > walk.offset
      BY <1>2, <2>0, <2>4, <2>5 DEF WalkInv
    <3>2. Table(rows)
      BY DEF CatalogueInv
    <3>3. /\ j \in Listed(v, rows', decided')
          /\ Before(v, rows, decided, j) \subseteq Before(v, rows', decided', j)
      BY <3>1, <3>2, PlacesGrow DEF R, sank
    <3>4. Cardinality(Before(v, rows, decided, j)) <= Cardinality(Before(v, rows', decided', j))
      <4>1. IsFiniteSet(Before(v, rows', decided', j))
        BY Lists
      <4> QED BY <3>3, <4>1, FS_Subset
    <3>5. /\ Cardinality(Before(v, rows, decided, j)) \in Nat
          /\ Cardinality(Before(v, rows', decided', j)) \in Nat
      BY <3>2, Lists
    <3>6. /\ Place(v, j) = 1 + Cardinality(Before(v, rows, decided, j))
          /\ Place(v, j)' = 1 + Cardinality(Before(v, rows', decided', j))
      BY DEF Place, Before
    <3>7. walk.offset \in Nat
      BY <2>1
    <3> QED BY <2>4, <3>1, <3>3, <3>4, <3>5, <3>6, <3>7
  <2>6. ~walk'.done
    BY <1>2, <2>4
  <2> QED BY <2>4, <2>5, <2>6 DEF WalkInv
<1> QED BY <1>1, <1>2 DEF Watched

LEMMA WalkBegins == CatalogueInv /\ WalkStart => WalkInv'
<1> SUFFICES ASSUME CatalogueInv, WalkStart PROVE WalkInv'
  OBVIOUS
<1>1. PICK v \in Views :
       walk' = [view |-> v, start |-> Listed(v, rows, decided), seen |-> PageFrom(v, 0),
                offset |-> NextOffset(v, 0), done |-> NextOffset(v, 0) = Length(v),
                moved |-> {}, sunk |-> FALSE]
  BY DEF WalkStart
<1>2. UNCHANGED <<rows, decided>> /\ Table(rows)
  BY DEF WalkStart, jobVars, CatalogueInv
<1>3. /\ Listed(v, rows, decided) \in SUBSET Nat /\ PageFrom(v, 0) \in SUBSET Nat
      /\ (NextOffset(v, 0) = Length(v)) \in BOOLEAN
  BY <1>2 DEF Listed, PageFrom, Table
<1>4. \A j \in Listed(v, rows, decided) : Place(v, j) \in Nat /\ Place(v, j) > 0
  BY <1>2, Lists DEF Place, Before
<1>5. /\ NextOffset(v, 0) \in Nat
      /\ \A j \in Listed(v, rows, decided) :
           \/ j \in PageFrom(v, 0)
           \/ Place(v, j) > NextOffset(v, 0) /\ NextOffset(v, 0) # Length(v)
  BY <1>2, <1>4, Pages
<1>6. \A j : Place(v, j)' = Place(v, j)
  BY <1>2 DEF Place
<1> DEFINE done == NextOffset(v, 0) = Length(v)
<1>7. walk' = [view |-> v, start |-> Listed(v, rows, decided), seen |-> PageFrom(v, 0),
               offset |-> NextOffset(v, 0), done |-> done, moved |-> {}, sunk |-> FALSE]
  BY <1>1
<1>8. done \in BOOLEAN /\ (done => NextOffset(v, 0) = Length(v))
  BY <1>3
<1> HIDE DEF done
<1>9. /\ walk' \in [view : Views, start : SUBSET Nat, seen : SUBSET Nat, offset : Nat,
                    done : BOOLEAN, moved : SUBSET Nat, sunk : BOOLEAN]
      /\ walk'.view = v /\ walk'.start = Listed(v, rows, decided)
      /\ walk'.seen = PageFrom(v, 0) /\ walk'.offset = NextOffset(v, 0)
      /\ walk'.done = done /\ walk'.moved = {}
  BY <1>3, <1>5, <1>7, <1>8
<1> QED BY <1>2, <1>5, <1>6, <1>8, <1>9 DEF WalkInv

LEMMA WalkGoesOn == CatalogueInv /\ WalkInv /\ WalkNext => WalkInv'
<1> SUFFICES ASSUME CatalogueInv, WalkInv, WalkNext PROVE WalkInv'
  OBVIOUS
<1>0. PICK v, n : v = walk.view /\ n = walk.offset
  OBVIOUS
<1> DEFINE done == NextOffset(v, n) = Length(v)
           W == [view : Views, start : SUBSET Nat, seen : SUBSET Nat, offset : Nat,
                 done : BOOLEAN, moved : SUBSET Nat, sunk : BOOLEAN]
<1>1. walk \in W /\ n \in Nat /\ ~walk.done /\ walk # NoWalk
  BY <1>0 DEF WalkNext, WalkInv
<1>2. UNCHANGED <<rows, decided>> /\ Table(rows)
  BY DEF WalkNext, jobVars, CatalogueInv
<1>3. done \in BOOLEAN /\ PageFrom(v, n) \in SUBSET Nat
  BY <1>2 DEF Listed, PageFrom, Table
<1>4. /\ NextOffset(v, n) \in Nat
      /\ \A j \in Listed(v, rows, decided) :
           Place(v, j) > n =>
             \/ j \in PageFrom(v, n)
             \/ Place(v, j) > NextOffset(v, n) /\ NextOffset(v, n) # Length(v)
  BY <1>1, <1>2, Pages
<1>5. \A j : Place(v, j)' = Place(v, j)
  BY <1>2 DEF Place
<1>6. walk' = [walk EXCEPT !.seen = walk.seen \cup PageFrom(v, n),
                           !.offset = NextOffset(v, n), !.done = done]
  BY <1>0 DEF WalkNext
<1>7. done => NextOffset(v, n) = Length(v)
  OBVIOUS
<1> HIDE DEF done
<1>8. /\ walk' \in W
      /\ walk'.view = v /\ walk'.start = walk.start /\ walk'.moved = walk.moved
      /\ walk'.seen = walk.seen \cup PageFrom(v, n) /\ walk'.offset = NextOffset(v, n)
      /\ walk'.done = done /\ walk'.sunk = walk.sunk
  BY <1>0, <1>1, <1>3, <1>4, <1>6
<1>9. ASSUME ~walk.sunk, NEW j \in walk.start \ walk.moved
      PROVE  /\ j \in Listed(v, rows, decided)
             /\ j \in walk.seen \/ Place(v, j) > n
  BY <1>0, <1>1, <1>9 DEF WalkInv
<1> QED BY <1>2, <1>4, <1>5, <1>7, <1>8, <1>9 DEF WalkInv

LEMMA WalkInvStep ==
  ASSUME CatalogueInv, WalkInv, [CatalogueNext]_catalogueVars
  PROVE  WalkInv'
<1>1. CASE UNCHANGED <<rows, decided, walk>>
  BY <1>1 DEF WalkInv, Place
<1>2. CASE walk' = Watched(rows', decided') /\ Len(rows) <= Len(rows')
  <2>1. Table(rows')
    BY RowsStay
  <2> QED BY <1>2, <2>1, ListChanges
<1>3. CASE Search \/ ImportCurrentPage \/ Score \/ CampaignSaveJob
  <2>1. decided' = decided /\ \E table : WriteRows(table)
    BY <1>3 DEF Search, ImportCurrentPage, Score, CampaignSaveJob
  <2>2. walk' = Watched(rows', decided')
    BY <2>1 DEF WriteRows
  <2>3. Len(rows) <= Len(rows')
    BY <1>3, RowsOnlyGrow DEF Keeps
  <2> QED BY <1>2, <2>2, <2>3
<1>4. CASE Decide
  <2>1. walk' = Watched(rows, decided') /\ rows' = rows
    BY <1>4 DEF Decide
  <2>2. Len(rows) <= Len(rows')
    BY <2>1 DEF CatalogueInv, Table
  <2> QED BY <1>2, <2>1, <2>2
<1>5. CASE Tag \/ ConfigureConnector \/ SyncManualActions \/ ContinueItem \/ CancelItem
           \/ CancelArrives \/ WorkBegins \/ WorkSaves \/ WorkEnds \/ LockLapses
           \/ CampaignCreatesApplication \/ CampaignPassesOver \/ UNCHANGED catalogueVars
  BY <1>1, <1>5 DEF Tag, ConfigureConnector, SyncManualActions, ContinueItem, CancelItem,
     CancelArrives, WorkBegins, WorkSaves, WorkEnds, LockLapses, CampaignCreatesApplication,
     CampaignPassesOver, catalogueVars, jobVars
<1>6. CASE \E c \in Calls : \/ PrepareAsked(c) \/ PrepareChecks(c) \/ PrepareRefused(c)
                           \/ PrepareSaves(c) \/ PrepareFails(c) \/ PrepareDies(c)
  BY <1>1, <1>6 DEF PrepareAsked, PrepareChecks, PrepareRefused, PrepareSaves, PrepareFails,
     PrepareDies, jobVars
<1> QED
  BY <1>3, <1>4, <1>5, <1>6, WalkBegins, WalkGoesOn DEF CatalogueNext

\* A client that follows the cursors of GET /jobs to the end has seen every job that
\* was listed when it began and kept its place, for any lists, views and page sizes
\* and whatever is written between two pages.
THEOREM WalksMissNothing == CatalogueSpec => []WalkSeesAll
<1>1. CatalogueInit => CatalogueInv /\ PrepareInv /\ WalkInv
  BY CatalogueInvStarts DEF CatalogueInit, WalkInv
<1>2. WalkInv => WalkSeesAll
  BY DEF WalkInv, WalkSeesAll
<1> QED BY <1>1, <1>2, CatalogueInvStep, PrepareInvStep, WalkInvStep, PTL DEF CatalogueSpec

-----------------------------------------------------------------------------
(* The form of an application: the types. *)

Fields == Seq(Field)
Values == Texts \cup {Blank, "true", "false"}

LEMMA ShapeType ==
  ASSUME NEW f \in Seq(Control)
  PROVE  /\ Shape(f) \in Seq(Field) /\ DOMAIN Shape(f) = DOMAIN f
         /\ Len(Shape(f)) = Len(f)
         /\ \A i \in DOMAIN f : Shape(f)[i] \in Field
<1>1. \A i \in 1..Len(f) : f[i] \in Control
  OBVIOUS
<1>2. \A i \in 1..Len(f) : [question |-> f[i].question, option |-> f[i].option,
                            kind |-> f[i].kind] \in Field
  BY <1>1 DEF Control, Field
<1>3. DOMAIN f = 1..Len(f) /\ Len(f) \in Nat
  OBVIOUS
<1> QED BY <1>2, <1>3 DEF Shape

LEMMA HashType ==
  ASSUME NEW f \in Seq(Control)
  PROVE  ValueHash(f) \in Seq(Kinds \X Values) /\ DOMAIN ValueHash(f) = DOMAIN f
<1>1. \A i \in 1..Len(f) : <<f[i].kind, f[i].value>> \in Kinds \X Values
  <2>1. \A i \in 1..Len(f) : f[i] \in Control
    OBVIOUS
  <2> QED BY <2>1 DEF Control, Values
<1>2. DOMAIN f = 1..Len(f) /\ Len(f) \in Nat
  OBVIOUS
<1> QED BY <1>1, <1>2 DEF ValueHash

LEMMA TruthType ==
  ASSUME NEW t \in Texts
  PROVE  Truth[t] \in {"true", "false", Blank}
  BY DEF Truth, Texts

LEMMA PreparedType ==
  ASSUME NEW field \in Field
  PROVE  Prepared(field) \in Answer /\ Prepared(field).field = field
  BY FormAssumption DEF Prepared, Answer, Field

LEMMA OverriddenType ==
  ASSUME NEW answers \in Seq(Answer), NEW label, NEW value \in Texts
  PROVE  /\ Overridden(answers, label, value) \in Seq(Answer)
         /\ Len(Overridden(answers, label, value)) = Len(answers)
         /\ DOMAIN Overridden(answers, label, value) = DOMAIN answers
         /\ \A i \in DOMAIN answers : Overridden(answers, label, value)[i].field = answers[i].field
<1> DEFINE new(i) == IF answers[i].field = label /\ label.question \notin Sensitive
                     THEN [answers[i] EXCEPT !.value = value, !.ok = TRUE] ELSE answers[i]
<1>1. DOMAIN answers = 1..Len(answers) /\ Len(answers) \in Nat
  OBVIOUS
<1>2. ASSUME NEW i \in 1..Len(answers)
      PROVE  new(i) \in Answer /\ new(i).field = answers[i].field
  <2>1. answers[i] \in Answer
    OBVIOUS
  <2>2. [answers[i] EXCEPT !.value = value, !.ok = TRUE] \in Answer
          /\ [answers[i] EXCEPT !.value = value, !.ok = TRUE].field = answers[i].field
    BY <2>1 DEF Answer
  <2> QED BY <2>1, <2>2
<1>3. Overridden(answers, label, value) = [i \in 1..Len(answers) |-> new(i)]
  BY <1>1 DEF Overridden
<1> HIDE DEF new
<1> QED BY <1>1, <1>2, <1>3

LEMMA TypedType ==
  ASSUME NEW f \in Seq(Control), NEW i \in DOMAIN f, NEW ans \in Answer,
         Usable(ans), Accepts(f[i], ans)
  PROVE  Typed(f, i, ans) \in Seq(Control) /\ Len(Typed(f, i, ans)) = Len(f)
<1>1. DOMAIN f = 1..Len(f) /\ Len(f) \in Nat /\ \A j \in 1..Len(f) : f[j] \in Control
  OBVIOUS
<1>2. ans.value \in Texts /\ Truth[ans.value] \in {"true", "false", Blank}
  BY TruthType DEF Usable, Answer
<1>3. ASSUME NEW j \in 1..Len(f), NEW v \in Texts \cup {Blank, "true", "false"}
      PROVE  [f[j] EXCEPT !.value = v] \in Control
  BY <1>1, <1>3 DEF Control
<1>4. ASSUME NEW v \in Texts \cup {Blank, "true", "false"}
      PROVE  /\ [f EXCEPT ![i] = [f[i] EXCEPT !.value = v]] \in Seq(Control)
             /\ Len([f EXCEPT ![i] = [f[i] EXCEPT !.value = v]]) = Len(f)
  <2>1. ASSUME NEW d \in Control
        PROVE  [f EXCEPT ![i] = d] \in Seq(Control) /\ Len([f EXCEPT ![i] = d]) = Len(f)
    BY <1>1
  <2> QED BY <1>1, <1>3, <1>4, <2>1
<1>5. CASE f[i].kind = "text"
  BY <1>2, <1>4, <1>5 DEF Typed
<1>6. CASE f[i].kind = "checkbox"
  BY <1>2, <1>4, <1>6 DEF Typed
<1>7. CASE f[i].kind \notin {"text", "checkbox"}
  <2> DEFINE new(j) == IF f[j].kind = "radio" /\ f[j].question = f[i].question
                       THEN [f[j] EXCEPT !.value = IF j = i THEN "true" ELSE "false"] ELSE f[j]
  <2>1. \A j \in 1..Len(f) : new(j) \in Control
    BY <1>1, <1>3
  <2>2. Typed(f, i, ans) = [j \in 1..Len(f) |-> new(j)]
    BY <1>1, <1>7 DEF Typed
  <2> HIDE DEF new
  <2> QED BY <1>1, <2>1, <2>2
<1> QED BY <1>5, <1>6, <1>7

LEMMA RenderingType ==
  ASSUME NEW f \in Seq(Control), Len(f) >= 1, NEW g \in Renderings(f)
  PROVE  g \in Seq(Control) /\ Len(g) >= 1
<1>1. DOMAIN f = 1..Len(f) /\ Len(f) \in Nat /\ \A j \in 1..Len(f) : f[j] \in Control
  OBVIOUS
<1>2. ASSUME NEW i \in 1..Len(f) PROVE Blanked(f[i]) \in Control
  BY <1>1 DEF Blanked, Control
<1>3. ASSUME NEW i \in 1..(Len(f) - 1), g = Swapped(f, i) PROVE g \in Seq(Control) /\ Len(g) >= 1
  <2>1. i \in 1..Len(f) /\ i + 1 \in 1..Len(f)
    BY <1>1
  <2> QED BY <1>1, <1>3, <2>1 DEF Swapped
<1>4. ASSUME NEW i \in 1..Len(f), Len(f) > 1, g = RemoveAt(f, i)
      PROVE  g \in Seq(Control) /\ Len(g) >= 1
  <2> DEFINE before == SubSeq(f, 1, i - 1)
             rest == SubSeq(f, i + 1, Len(f))
  <2>1. i \in Int /\ i >= 1 /\ i <= Len(f) /\ Len(f) \in Int
    BY <1>1
  <2>2. (\A j \in 1..(i - 1) : j \in 1..Len(f)) /\ \A j \in (i + 1)..Len(f) : j \in 1..Len(f)
    BY <2>1
  <2>3. before \in Seq(Control) /\ Len(before) = IF 1 <= i - 1 THEN i - 1 - 1 + 1 ELSE 0
    BY <1>1, <2>1, <2>2, SubSeqProperties
  <2>4. rest \in Seq(Control)
          /\ Len(rest) = IF i + 1 <= Len(f) THEN Len(f) - (i + 1) + 1 ELSE 0
    BY <1>1, <2>1, <2>2, SubSeqProperties
  <2>5. g = before \o rest
    BY <1>4 DEF RemoveAt
  <2> HIDE DEF before, rest
  <2>6. g \in Seq(Control) /\ Len(g) = Len(before) + Len(rest)
    BY <2>3, <2>4, <2>5, ConcatProperties
  <2>7. Len(before) = i - 1 /\ Len(rest) = Len(f) - i
    BY <2>1, <2>3, <2>4
  <2> QED BY <1>4, <2>1, <2>6, <2>7
<1>5. ASSUME NEW i \in 1..Len(f), g = InsertAt(f, i, Blanked(f[i])) PROVE g \in Seq(Control) /\ Len(g) >= 1
  <2>1. SubSeq(f, 1, i - 1) \in Seq(Control) /\ SubSeq(f, i, Len(f)) \in Seq(Control)
          /\ <<Blanked(f[i])>> \in Seq(Control) /\ Len(<<Blanked(f[i])>>) = 1
    BY <1>1, <1>2
  <2> QED BY <1>5, <2>1 DEF InsertAt
<1>6. ASSUME NEW i \in 1..Len(f), g = [f EXCEPT ![i] = Blanked(f[i])] PROVE g \in Seq(Control) /\ Len(g) >= 1
  BY <1>1, <1>2, <1>6
<1> QED BY <1>1, <1>3, <1>4, <1>5, <1>6 DEF Renderings


-----------------------------------------------------------------------------
(* The form of an application: the steps. *)

\* A record has an answer for each of its fields, in their order.
Answers(answers, r) ==
  DOMAIN answers = DOMAIN r.fields /\ \A i \in DOMAIN answers : answers[i].field = r.fields[i]

Filling == call.pc \in {"locating", "typing", "validating", "reading"}
Sending == call.pc \in {"comparing", "clicking"}

\* The types, and that a fill is at one of its answers.
FormBase ==
  /\ FormTypeOK
  /\ Len(form) >= 1
  /\ record # None => Len(record.answers) >= 1
  /\ Filling => Len(call.answers) >= 1
  /\ call.pc \in {"locating", "typing"} => call.next <= Len(call.answers)

LEMMA CallKinds ==
  ASSUME FormTypeOK
  PROVE  /\ Filling => call \in FillCall
         /\ Sending => call \in SubmitCall
         /\ ~Filling /\ ~Sending => call = Idle
         /\ Idle.pc = "idle"
  BY DEF FormTypeOK, Filling, Sending, FillCall, SubmitCall, Idle

LEMMA RecordChanged ==
  ASSUME NEW r \in FormRecord, NEW stage \in RecordStates
  PROVE  /\ [r EXCEPT !.state = stage] \in FormRecord
         /\ [r EXCEPT !.state = stage].state = stage
         /\ [r EXCEPT !.state = stage].fields = r.fields
         /\ [r EXCEPT !.state = stage].answers = r.answers
         /\ [r EXCEPT !.state = stage].filled = r.filled
         /\ [r EXCEPT !.state = stage].skipped = r.skipped
         /\ [r EXCEPT !.state = stage].dryRun = r.dryRun
         /\ [r EXCEPT !.state = stage].valueHash = r.valueHash
  BY DEF FormRecord

LEMMA RecordHashed ==
  ASSUME NEW r \in FormRecord, NEW hash \in Seq(Kinds \X Values)
  PROVE  /\ [r EXCEPT !.valueHash = hash] \in FormRecord
         /\ [r EXCEPT !.valueHash = hash].state = r.state
         /\ [r EXCEPT !.valueHash = hash].fields = r.fields
         /\ [r EXCEPT !.valueHash = hash].answers = r.answers
         /\ [r EXCEPT !.valueHash = hash].filled = r.filled
         /\ [r EXCEPT !.valueHash = hash].skipped = r.skipped
         /\ [r EXCEPT !.valueHash = hash].dryRun = r.dryRun
         /\ [r EXCEPT !.valueHash = hash].valueHash = hash
  BY DEF FormRecord, Values

LEMMA RecordFilled ==
  ASSUME NEW r \in FormRecord, call \in FillCall
  PROVE  /\ FilledRecord(r) \in FormRecord
         /\ FilledRecord(r).state = IF call.valid THEN "READY_TO_SUBMIT" ELSE "VALIDATING"
         /\ FilledRecord(r).fields = r.fields
         /\ FilledRecord(r).answers = call.answers
         /\ FilledRecord(r).filled = call.filled
         /\ FilledRecord(r).skipped = SkippedFields(r)
         /\ FilledRecord(r).dryRun = (r.dryRun \/ call.dry)
<1>1. ToSet(r.fields) \subseteq Field
  BY DEF FormRecord, ToSet
<1>2. SkippedFields(r) \in SUBSET Field
  BY <1>1 DEF SkippedFields, SensitiveFields, FillCall
<1> DEFINE stage == IF call.valid THEN "READY_TO_SUBMIT" ELSE "VALIDATING"
           skipped == SkippedFields(r)
           dry == r.dryRun \/ call.dry
<1>3. /\ stage \in RecordStates /\ dry \in BOOLEAN
      /\ call.answers \in Seq(Answer) /\ call.filled \in SUBSET Field
  BY DEF RecordStates, FormRecord, FillCall
<1>4. FilledRecord(r) = [r EXCEPT !.answers = call.answers, !.filled = call.filled,
                          !.skipped = skipped, !.dryRun = dry, !.state = stage]
  BY DEF FilledRecord
<1> HIDE DEF stage, skipped, dry
<1>5. skipped \in SUBSET Field
  BY <1>2 DEF skipped
<1>6. FilledRecord(r) =
        [state |-> stage, fields |-> r.fields, dryRun |-> dry, answers |-> call.answers,
         filled |-> call.filled, skipped |-> skipped, valueHash |-> r.valueHash]
  BY <1>4 DEF FormRecord
<1>7. FilledRecord(r) \in FormRecord
  BY <1>3, <1>5, <1>6 DEF FormRecord
<1> QED BY <1>6, <1>7 DEF stage, skipped, dry


LEMMA CallChanged ==
  ASSUME NEW c \in FillCall, NEW point \in {"locating", "typing", "validating", "reading"}
  PROVE  /\ [c EXCEPT !.pc = point] \in FillCall
         /\ [c EXCEPT !.pc = point].pc = point
         /\ [c EXCEPT !.pc = point].next = c.next
         /\ [c EXCEPT !.pc = point].answers = c.answers
         /\ [c EXCEPT !.pc = point].filled = c.filled
         /\ [c EXCEPT !.pc = point].dry = c.dry
  BY DEF FillCall

\* A step of a fill keeps its answers and types what they say.
LEMMA TypesFacts ==
  ASSUME FormBase, TypesNext
  PROVE  /\ call \in FillCall /\ call' \in FillCall
         /\ call'.pc \in {"typing", "validating"}
         /\ call'.answers = call.answers
         /\ call'.pc = "typing" => call'.next <= Len(call'.answers)
         /\ form' \in Seq(Control) /\ Len(form') >= 1
<1> DEFINE i == call.next
           ans == call.answers[i]
           fills_ == Usable(ans) /\ shown /\ i \in DOMAIN form
                       /\ (call.dry \/ Accepts(form[i], ans))
           point == IF i = Len(call.answers) THEN "validating" ELSE "typing"
           filled == IF fills_ THEN call.filled \cup {ans.field} ELSE call.filled
           skipped == IF fills_ THEN call.skipped ELSE call.skipped \cup {ans.field}
<1>1. call.pc = "typing" /\ call \in FillCall
  BY CallKinds DEF TypesNext, FormBase, Filling
<1>2. i \in Nat /\ i >= 1 /\ i <= Len(call.answers) /\ Len(call.answers) \in Nat
  BY <1>1 DEF FormBase, FillCall
<1>3. ans \in Answer /\ ans.field \in Field
  <2>1. call.answers \in Seq(Answer) /\ i \in 1..Len(call.answers)
    BY <1>1, <1>2 DEF FillCall
  <2>2. ans \in Answer
    BY <2>1
  <2> QED BY <2>2 DEF Answer
<1>4. form' = IF fills_ /\ ~call.dry THEN Typed(form, i, ans) ELSE form
  BY DEF TypesNext
<1>5. form' \in Seq(Control) /\ Len(form') >= 1
  BY <1>3, <1>4, TypedType DEF FormBase, FormTypeOK
<1>6. call' = [call EXCEPT !.pc = point, !.next = i + 1, !.filled = filled, !.skipped = skipped]
  BY DEF TypesNext
<1>7. point \in {"typing", "validating"} /\ (point = "typing" => i + 1 <= Len(call.answers))
        /\ i + 1 \in Nat \ {0}
  BY <1>2
<1>8. filled \in SUBSET Field /\ skipped \in SUBSET Field
  BY <1>1, <1>3 DEF FillCall
<1> HIDE DEF ans, fills_, point, filled, skipped
<1>9. /\ call' = [pc |-> point, dry |-> call.dry, answers |-> call.answers, next |-> i + 1,
                  filled |-> filled, skipped |-> skipped, valid |-> call.valid]
  BY <1>1, <1>6 DEF FillCall
<1>10. call' \in FillCall
  BY <1>1, <1>7, <1>8, <1>9 DEF FillCall
<1> QED BY <1>1, <1>5, <1>7, <1>9, <1>10

LEMMA PrepareFacts ==
  ASSUME FormBase, NEW dry \in BOOLEAN, PrepareForm(dry)
  PROVE  /\ record' \in FormRecord /\ record'.state = "WAITING_FOR_APPROVAL"
         /\ Answers(record'.answers, record') /\ Len(record'.answers) >= 1
<1> DEFINE answers == [i \in DOMAIN form |-> Prepared(Shape(form)[i])]
<1>1. form \in Seq(Control) /\ Len(form) >= 1 /\ DOMAIN form = 1..Len(form) /\ Len(form) \in Nat
  BY DEF FormBase, FormTypeOK
<1>2. \A i \in 1..Len(form) : Shape(form)[i] \in Field
  BY <1>1, ShapeType
<1>3. \A i \in 1..Len(form) : Prepared(Shape(form)[i]) \in Answer
                                /\ Prepared(Shape(form)[i]).field = Shape(form)[i]
  BY <1>2, PreparedType
<1>4. answers \in Seq(Answer) /\ Len(answers) = Len(form) /\ DOMAIN answers = DOMAIN form
        /\ \A i \in DOMAIN answers : answers[i].field = Shape(form)[i]
  BY <1>1, <1>3
<1>5. record' = [state |-> "WAITING_FOR_APPROVAL", fields |-> Shape(form), dryRun |-> dry,
                 answers |-> answers, filled |-> {}, skipped |-> {}, valueHash |-> None]
  BY DEF PrepareForm
<1> HIDE DEF answers
<1>6. record' \in FormRecord
  BY <1>1, <1>4, <1>5, ShapeType DEF FormRecord, RecordStates
<1>7. Answers(record'.answers, record')
  BY <1>1, <1>4, <1>5, ShapeType DEF Answers
<1> QED BY <1>1, <1>4, <1>5, <1>6, <1>7

\* What FillBegins hands on: the answers of the record, or some overridden.
FillOpens ==
  /\ record \in FormRecord /\ call = Idle /\ fills' = fills + 1 /\ fills < MaxFills
  /\ record.state \in {"WAITING_FOR_APPROVAL", "VALIDATING", "READY_TO_SUBMIT"}
  /\ UNCHANGED <<pageVars, sent>>
  /\ \/ record' = FormChanged(record) /\ call' = call
     \/ /\ record' = record /\ record.state = "WAITING_FOR_APPROVAL"
        /\ call' \in FillCall /\ call'.pc = "locating" /\ call'.next = 1
        /\ Len(call'.answers) = Len(record.answers)
        /\ Answers(record.answers, record) => Answers(call'.answers, record)

LEMMA FillFacts ==
  ASSUME FormBase, NEW dry \in BOOLEAN, FillBegins(dry)
  PROVE  FillOpens
<1>1. record \in FormRecord /\ record.answers \in Seq(Answer) /\ record.fields \in Seq(Field)
  BY DEF FormBase, FormTypeOK, FillBegins, FormRecord
<1>2. ASSUME NEW answers \in Seq(Answer), FillChecks(dry, answers),
             Len(answers) = Len(record.answers), DOMAIN answers = DOMAIN record.answers,
             \A i \in DOMAIN answers : answers[i].field = record.answers[i].field
      PROVE  FillOpens
  <2>1. CASE record' = FormChanged(record) /\ call' = call
    BY <1>1, <1>2, <2>1 DEF FillChecks, FillOpens
  <2>2. CASE /\ record' = record /\ record.state = "WAITING_FOR_APPROVAL"
             /\ call' = [pc |-> "locating", dry |-> dry, answers |-> answers,
                         next |-> 1, filled |-> {}, skipped |-> {}, valid |-> FALSE]
    <3>1. call' \in FillCall /\ call'.pc = "locating" /\ call'.next = 1 /\ call'.answers = answers
      BY <1>2, <2>2 DEF FillCall
    <3>2. Answers(record.answers, record) => Answers(call'.answers, record)
      BY <1>2, <3>1 DEF Answers
    <3> QED BY <1>1, <1>2, <2>2, <3>1, <3>2 DEF FillChecks, FillOpens
  <2> QED BY <1>2, <2>1, <2>2 DEF FillChecks
<1>3. CASE FillChecks(dry, record.answers)
  BY <1>1, <1>2, <1>3
<1>4. ASSUME NEW i \in DOMAIN record.fields, NEW v \in Texts,
             FillChecks(dry, Overridden(record.answers, record.fields[i], v))
      PROVE  FillOpens
  BY <1>1, <1>2, <1>4, OverriddenType
<1> QED BY <1>3, <1>4 DEF FillBegins

\* No field of the record asks a sensitive question.
Harmless(r) == \A i \in DOMAIN r.fields : r.fields[i].question \notin Sensitive

Sendable == record.state = "READY_TO_SUBMIT" /\ ~record.dryRun /\ record.skipped = {}

\* A record becomes ready with its sensitive fields among the skipped ones.
SensitiveInv ==
  /\ record # None => Answers(record.answers, record)
  /\ Filling => record # None /\ Answers(call.answers, record)
  /\ record # None /\ record.state \in {"READY_TO_SUBMIT", "SUBMITTED"} /\ record.skipped = {} =>
       Harmless(record)
  /\ Sending => record # None /\ Sendable
  /\ sent # None =>
       /\ record # None /\ record.state = "SUBMITTED" /\ record.skipped = {}
       /\ call = Idle

\* The value hash of a record is of values that its filled answers are.
Matches(hash, r) ==
  \A i \in DOMAIN r.answers : r.answers[i].field \in r.filled =>
    i \in DOMAIN hash /\ Holds([kind |-> hash[i][1], value |-> hash[i][2]], r.answers[i])

\* What was compared is still so, unless the page changed since.
FilledInv ==
  /\ record # None /\ record.state = "READY_TO_SUBMIT" /\ ~record.dryRun =>
       Matches(record.valueHash, record)
  /\ Sending /\ ~edited => Shape(form) = record.fields
  /\ call.pc = "clicking" /\ ~edited => ValueHash(form) = record.valueHash
  /\ sent # None /\ ~edited => Shape(sent) = record.fields /\ Matches(ValueHash(sent), record)

\* How the record and the call change in what is left of the steps.
LEMMA FillEnds ==
  ASSUME FormBase, SensitiveInv, Reads \/ \E valid \in BOOLEAN : Validates(valid)
  PROVE  /\ UNCHANGED pageVars /\ sent' = sent /\ fills' = fills
         /\ call \in FillCall /\ record \in FormRecord /\ Answers(call.answers, record)
         /\ \/ record' = record /\ call' \in FillCall /\ call'.pc = "reading"
                 /\ call'.answers = call.answers
            \/ /\ call' = Idle /\ record' \in FormRecord
               /\ record'.fields = record.fields /\ record'.answers = call.answers
               /\ record'.filled = call.filled /\ record'.skipped = SkippedFields(record)
               /\ \/ record'.state \in {"FORM_CHANGED", "VALIDATING"} \/ record'.dryRun
                  \/ /\ record'.valueHash = ValueHash(form) /\ form \in Seq(Control)
                     /\ Mismatches(call.answers, call.filled) = {}
<1>1. /\ call \in FillCall /\ record \in FormRecord /\ form \in Seq(Control)
      /\ Answers(call.answers, record)
  BY CallKinds DEF FormBase, FormTypeOK, Reads, Validates, SensitiveInv, Filling
<1>2. UNCHANGED pageVars /\ sent' = sent /\ fills' = fills
  BY DEF Reads, Validates
<1>3. /\ FilledRecord(record) \in FormRecord
      /\ FilledRecord(record).fields = record.fields
      /\ FilledRecord(record).answers = call.answers
      /\ FilledRecord(record).filled = call.filled
      /\ FilledRecord(record).skipped = SkippedFields(record)
      /\ FilledRecord(record).dryRun = (record.dryRun \/ call.dry)
  BY <1>1, RecordFilled
<1>4. ASSUME NEW valid \in BOOLEAN, Validates(valid), call.dry
      PROVE  /\ call' = Idle /\ record' \in FormRecord
             /\ record'.fields = record.fields /\ record'.answers = call.answers
             /\ record'.filled = call.filled /\ record'.skipped = SkippedFields(record)
             /\ record'.dryRun
  <2>1. PICK stage \in RecordStates : record' = [FilledRecord(record) EXCEPT !.state = stage]
    BY <1>4 DEF Validates, RecordStates
  <2>2. call' = Idle
    BY <1>4 DEF Validates
  <2> QED BY <1>3, <1>4, <2>1, <2>2, RecordChanged
<1>5. ASSUME NEW valid \in BOOLEAN, Validates(valid), ~call.dry
      PROVE  record' = record /\ call' \in FillCall /\ call'.pc = "reading"
               /\ call'.answers = call.answers
  <2>1. call' = [call EXCEPT !.pc = "reading", !.valid = valid] /\ record' = record
    BY <1>5 DEF Validates
  <2> QED BY <1>1, <2>1 DEF FillCall
<1>6. CASE Reads
  <2>1. call' = Idle
    BY <1>6 DEF Reads
  <2>2. CASE record' = FormChanged(FilledRecord(record))
    BY <1>1, <1>2, <1>3, <2>1, <2>2, RecordChanged DEF FormChanged, RecordStates
  <2>3. CASE /\ record' = [FilledRecord(record) EXCEPT !.valueHash = ValueHash(form)]
             /\ Mismatches(call.answers, call.filled) = {}
    <3>1. ValueHash(form) \in Seq(Kinds \X Values)
      BY <1>1, HashType
    <3> QED BY <1>1, <1>2, <1>3, <2>1, <2>3, <3>1, RecordHashed
  <2> QED BY <1>6, <2>2, <2>3 DEF Reads
<1> QED BY <1>1, <1>2, <1>4, <1>5, <1>6


\* The submission: the record as it was, or its state advanced; nothing else.
LEMMA SubmitFacts ==
  ASSUME FormBase, SensitiveInv,
         SubmitChecksForm \/ SubmitChecksValues \/ SubmitClicks \/ SubmitThrows
  PROVE  /\ form' = form /\ shown' = shown /\ fills' = fills /\ changes' = changes
         /\ record \in FormRecord /\ ~Filling /\ call' \in SubmitCall \cup {Idle}
         /\ \/ record' = record
            \/ \E stage \in RecordStates \ {"READY_TO_SUBMIT"} :
                 /\ call' = Idle /\ record' = [record EXCEPT !.state = stage]
                 /\ stage = "SUBMITTED" => SubmitClicks
         /\ SubmitClicks \/ sent' = sent
<1>1. record \in FormRecord /\ ~Filling
  <2>1. CASE SubmitChecksForm
    BY <2>1, CallKinds DEF SubmitChecksForm, FormBase, FormTypeOK, Filling
  <2>2. CASE call.pc \in {"comparing", "clicking"}
    BY <2>2 DEF SensitiveInv, Sending, FormBase, FormTypeOK, Filling
  <2> QED BY <2>1, <2>2 DEF SubmitChecksValues, SubmitClicks, SubmitThrows
<1>2. call' \in SubmitCall \cup {Idle}
  BY DEF SubmitChecksForm, SubmitChecksValues, SubmitClicks, SubmitThrows, SubmitCall, FormBase,
     FormTypeOK, Idle
<1> QED
  BY <1>1, <1>2, CallKinds DEF SubmitChecksForm, SubmitChecksValues, SubmitClicks, SubmitThrows,
     FormChanged, RecordStates, pageVars, FormBase, FormTypeOK, Idle

LEMMA FormBaseStep ==
  ASSUME FormBase, SensitiveInv, [FormNext]_formVars
  PROVE  FormBase'
<1>0. FormTypeOK /\ fills \in 0..MaxFills /\ changes \in 0..MaxChanges
        /\ MaxFills \in Nat /\ MaxChanges \in Nat /\ Idle.pc = "idle"
        /\ (record # None => record \in FormRecord)
  BY FormAssumption, CallKinds DEF FormBase, FormTypeOK
<1>1. ASSUME NEW dry \in BOOLEAN, PrepareForm(dry) PROVE FormBase'
  <2>1. UNCHANGED <<pageVars, call, sent, fills>>
    BY <1>1 DEF PrepareForm
  <2> QED BY <1>0, <1>1, <2>1, PrepareFacts DEF FormBase, FormTypeOK, Filling, pageVars
<1>2. ASSUME NEW dry \in BOOLEAN, FillBegins(dry) PROVE FormBase'
  <2>1. FillOpens
    BY <1>2, FillFacts
  <2>2. fills' \in 0..MaxFills
    BY <1>0, <2>1 DEF FillOpens
  <2>3. CASE record' = FormChanged(record) /\ call' = call
    <3>1. record' \in FormRecord /\ record'.answers = record.answers
      <4>1. record \in FormRecord /\ "FORM_CHANGED" \in RecordStates
        BY <2>1 DEF FillOpens, RecordStates
      <4>2. PICK stage \in RecordStates : record' = [record EXCEPT !.state = stage]
        BY <2>3, <4>1 DEF FormChanged
      <4> QED BY <4>1, <4>2 DEF FormRecord
    <3>2. call' = Idle /\ Len(record.answers) >= 1 /\ UNCHANGED <<pageVars, sent>>
      BY <2>1, <2>3, NothingPrepared DEF FillOpens, FormBase
    <3> QED BY <1>0, <2>2, <3>1, <3>2 DEF FormBase, FormTypeOK, Filling, pageVars
  <2>4. CASE record' = record /\ call' \in FillCall /\ call'.pc = "locating" /\ call'.next = 1
               /\ Len(call'.answers) = Len(record.answers)
    <3>1. Len(record.answers) >= 1
      BY <2>1, NothingPrepared DEF FillOpens, FormBase
    <3> QED BY <1>0, <2>1, <2>2, <2>4, <3>1
            DEF FillOpens, FormBase, FormTypeOK, Filling, pageVars
  <2> QED BY <2>1, <2>3, <2>4 DEF FillOpens
<1>3. CASE Locates
  <2>1. call \in FillCall /\ call.pc = "locating"
    BY <1>3, CallKinds DEF Locates, Filling, FormBase
  <2>2. PICK point \in {"typing", "validating"} : call' = [call EXCEPT !.pc = point]
    BY <1>3 DEF Locates
  <2>3. /\ call' \in FillCall /\ call'.pc = point /\ call'.answers = call.answers
        /\ call'.next = call.next
    BY <2>1, <2>2 DEF FillCall
  <2> QED BY <1>0, <1>3, <2>1, <2>3 DEF Locates, FormBase, FormTypeOK, Filling, pageVars
<1>4. CASE TypesNext
  <2>1. Filling
    BY <1>4 DEF TypesNext, Filling
  <2>2. UNCHANGED <<shown, edited, changes, record, sent, fills>>
    BY <1>4 DEF TypesNext
  <2> QED BY <1>0, <1>4, <2>1, <2>2, TypesFacts DEF FormBase, FormTypeOK, Filling
<1>5. CASE FillThrows
  BY <1>0, <1>5 DEF FillThrows, FormBase, FormTypeOK, Filling, pageVars
<1>6. CASE Reads \/ \E valid \in BOOLEAN : Validates(valid)
  <2>1. Filling
    BY <1>6 DEF Reads, Validates, Filling
  <2> QED BY <1>0, <1>6, <2>1, FillEnds DEF FormBase, FormTypeOK, Filling, pageVars
<1>7. CASE SubmitChecksForm \/ SubmitChecksValues \/ SubmitClicks \/ SubmitThrows
  <2>1. edited' \in BOOLEAN /\ sent' \in Seq(Control) \cup {None}
    BY <1>0, <1>7 DEF SubmitChecksForm, SubmitChecksValues, SubmitClicks, SubmitThrows,
       pageVars, FormTypeOK
  <2>2. record' \in FormRecord /\ record'.answers = record.answers
    <3>1. record \in FormRecord /\ (\/ record' = record
            \/ \E stage \in RecordStates : record' = [record EXCEPT !.state = stage])
      BY <1>7, SubmitFacts
    <3> QED BY <3>1 DEF FormRecord
  <2>3. ~Filling' /\ call'.pc \notin {"locating", "typing"}
    BY <1>0, <1>7, SubmitFacts DEF Filling, SubmitCall
  <2>4. Len(record.answers) >= 1
    BY <1>7, SubmitFacts, NothingPrepared DEF FormBase
  <2> QED BY <1>0, <1>7, <2>1, <2>2, <2>3, <2>4, SubmitFacts DEF FormBase, FormTypeOK
<1>8. CASE Rerenders \/ GoesOrComes \/ UserTypes
  <2>1. changes' \in 0..MaxChanges /\ edited' \in BOOLEAN
          /\ UNCHANGED <<record, call, sent, fills>>
    <3>1. PageChanges
      BY <1>8 DEF Rerenders, GoesOrComes, UserTypes
    <3> QED BY <1>0, <3>1 DEF PageChanges
  <2>2. form' \in Seq(Control) /\ Len(form') >= 1 /\ shown' \in BOOLEAN
    <3>1. CASE Rerenders
      BY <1>0, <3>1, RenderingType DEF Rerenders, FormBase, FormTypeOK
    <3>2. CASE GoesOrComes
      BY <1>0, <3>2 DEF GoesOrComes, FormBase, FormTypeOK
    <3>3. CASE UserTypes
      <4>1. PICK i \in DOMAIN form, v \in Texts : form' = [form EXCEPT ![i].value = v]
        BY <3>3 DEF UserTypes
      <4>2. form \in Seq(Control) /\ Len(form) >= 1 /\ i \in 1..Len(form) /\ form[i] \in Control
        BY <1>0 DEF FormBase, FormTypeOK
      <4>3. [form[i] EXCEPT !.value = v] \in Control
        BY <4>2 DEF Control
      <4>4. form' = [form EXCEPT ![i] = [form[i] EXCEPT !.value = v]]
        BY <4>1, <4>2
      <4>5. form' \in Seq(Control) /\ Len(form') = Len(form)
        BY <4>2, <4>3, <4>4
      <4> QED BY <1>0, <3>3, <4>2, <4>5 DEF UserTypes, FormTypeOK
    <3> QED BY <1>8, <3>1, <3>2, <3>3
  <2> QED BY <1>0, <2>1, <2>2 DEF FormBase, FormTypeOK, Filling
<1>9. CASE UNCHANGED formVars
  BY <1>9 DEF formVars, pageVars, FormBase, FormTypeOK, Filling
<1> QED BY <1>1, <1>2, <1>3, <1>4, <1>5, <1>6, <1>7, <1>8, <1>9 DEF FormNext


\* What the fill skipped hides no sensitive field.
LEMMA SkippedSensitive ==
  ASSUME NEW r \in FormRecord, NEW s \in FormRecord, s.fields = r.fields,
         Answers(r.answers, r), SkippedFields(r) = {}
  PROVE  Harmless(s)
<1> SUFFICES ASSUME NEW i \in DOMAIN r.fields, r.fields[i].question \in Sensitive PROVE FALSE
  BY DEF Harmless
<1>1. r.answers[i].field = r.fields[i] /\ i \in DOMAIN r.answers
  BY DEF Answers
<1>2. r.fields[i] \in SensitiveFields(r)
  BY <1>1 DEF SensitiveFields, ToSet
<1> QED BY <1>2 DEF SkippedFields

LEMMA SensitiveStep ==
  ASSUME FormBase, SensitiveInv, [FormNext]_formVars
  PROVE  SensitiveInv'
<1>0. /\ FormTypeOK /\ Idle.pc = "idle" /\ (record # None => record \in FormRecord)
      /\ None \notin FormRecord
  BY CallKinds, NothingPrepared DEF FormBase, FormTypeOK
<1>1. ASSUME NEW dry \in BOOLEAN, PrepareForm(dry) PROVE SensitiveInv'
  <2>1. record = None /\ call' = call /\ sent' = sent
    BY <1>1 DEF PrepareForm
  <2>2. ~Filling /\ ~Sending /\ sent = None
    BY <2>1 DEF SensitiveInv
  <2>3. record'.state = "WAITING_FOR_APPROVAL" /\ Answers(record'.answers, record')
    BY <1>1, PrepareFacts
  <2> QED BY <2>1, <2>2, <2>3 DEF SensitiveInv, Filling, Sending
<1>2. ASSUME NEW dry \in BOOLEAN, FillBegins(dry) PROVE SensitiveInv'
  <2>1. FillOpens
    BY <1>2, FillFacts
  <2>2. /\ sent' = sent /\ sent = None /\ record \in FormRecord /\ record # None
        /\ Answers(record.answers, record) /\ call = Idle
    BY <1>0, <2>1 DEF FillOpens, SensitiveInv
  <2>3. CASE record' = FormChanged(record) /\ call' = call
    <3>1. /\ record'.state = "FORM_CHANGED" /\ record'.answers = record.answers
          /\ record'.fields = record.fields
      BY <2>2, <2>3 DEF FormChanged, FormRecord
    <3>2. Answers(record'.answers, record')
      BY <2>2, <3>1 DEF Answers
    <3> QED BY <1>0, <2>2, <2>3, <3>1, <3>2 DEF SensitiveInv, Filling, Sending
  <2>4. CASE record' = record /\ call'.pc = "locating" /\ Answers(call'.answers, record)
    BY <2>2, <2>4 DEF SensitiveInv, Filling, Sending
  <2> QED BY <2>1, <2>2, <2>3, <2>4 DEF FillOpens
<1>3. ASSUME Locates \/ TypesNext \/ FillThrows PROVE SensitiveInv'
  <2>1. Filling /\ record' = record /\ sent' = sent
    BY <1>3 DEF Locates, TypesNext, FillThrows, Filling
  <2>2. /\ call \in FillCall /\ sent = None /\ record # None /\ Answers(call.answers, record)
    BY <1>0, <2>1, CallKinds DEF SensitiveInv, Filling
  <2>3. call' = Idle \/ (call' \in FillCall /\ call'.answers = call.answers)
    <3>1. CASE Locates
      BY <2>2, <3>1 DEF Locates, FillCall
    <3> QED BY <1>3, <3>1, TypesFacts DEF FillThrows
  <2>4. ~Sending'
    BY <1>0, <2>3 DEF Sending, FillCall
  <2> QED BY <1>0, <2>1, <2>2, <2>3, <2>4 DEF SensitiveInv, Filling
<1>4. CASE Reads \/ \E valid \in BOOLEAN : Validates(valid)
  <2>1. /\ sent' = sent /\ sent = None /\ record \in FormRecord /\ record # None
        /\ Answers(call.answers, record) /\ Answers(record.answers, record)
    <3>1. Filling
      BY <1>4 DEF Reads, Validates, Filling
    <3> QED BY <1>0, <1>4, <3>1, FillEnds DEF SensitiveInv, Filling
  <2>2. CASE record' = record /\ call' \in FillCall /\ call'.pc = "reading"
               /\ call'.answers = call.answers
    BY <2>1, <2>2 DEF SensitiveInv, Filling, Sending
  <2>3. CASE /\ call' = Idle /\ record' \in FormRecord
             /\ record'.fields = record.fields /\ record'.answers = call.answers
             /\ record'.skipped = SkippedFields(record)
    <3>1. Answers(record'.answers, record')
      BY <2>1, <2>3 DEF Answers
    <3>2. record'.skipped = {} => Harmless(record')
      BY <2>1, <2>3, SkippedSensitive
    <3> QED BY <1>0, <2>1, <2>3, <3>1, <3>2 DEF SensitiveInv, Filling, Sending
  <2> QED BY <1>4, <2>2, <2>3, FillEnds
<1>5. CASE SubmitChecksForm \/ SubmitChecksValues \/ SubmitClicks \/ SubmitThrows
  <2>1. /\ record \in FormRecord /\ record # None /\ sent = None
        /\ Answers(record.answers, record) /\ ~Filling' /\ Sendable
    <3>1. record \in FormRecord /\ call' \in SubmitCall \cup {Idle}
      BY <1>5, SubmitFacts
    <3>2. Sendable
      BY <1>5 DEF SubmitChecksForm, SubmitChecksValues, SubmitClicks, SubmitThrows,
         SensitiveInv, Sending, Sendable
    <3> QED BY <1>0, <3>1, <3>2 DEF SensitiveInv, Sendable, Filling, SubmitCall
  <2>2. CASE record' = record /\ ~SubmitClicks
    BY <1>5, <2>1, <2>2, SubmitFacts DEF SensitiveInv, Sendable
  <2>3. ASSUME NEW stage \in RecordStates \ {"READY_TO_SUBMIT"},
               call' = Idle, record' = [record EXCEPT !.state = stage],
               stage = "SUBMITTED" \/ sent' = sent
        PROVE  SensitiveInv'
    <3>1. /\ record' \in FormRecord /\ record'.state = stage /\ record'.answers = record.answers
          /\ record'.fields = record.fields /\ record'.skipped = record.skipped
      BY <2>1, <2>3 DEF FormRecord
    <3>2. Answers(record'.answers, record') /\ (Harmless(record) => Harmless(record'))
      BY <2>1, <3>1 DEF Answers, Harmless
    <3>3. Harmless(record) /\ record'.skipped = {}
      BY <2>1, <3>1 DEF SensitiveInv, Sendable
    <3>4. sent' # None => stage = "SUBMITTED"
      BY <2>1, <2>3 DEF SubmitClicks, FormRecord
    <3> QED BY <1>0, <2>1, <2>3, <3>1, <3>2, <3>3, <3>4 DEF SensitiveInv, Filling, Sending
  <2>4. CASE SubmitClicks
    <3>1. call' = Idle /\ record' = [record EXCEPT !.state = "SUBMITTED"]
      BY <2>4 DEF SubmitClicks
    <3>2. "SUBMITTED" \in RecordStates \ {"READY_TO_SUBMIT"}
      BY DEF RecordStates
    <3>3. \E stage \in RecordStates \ {"READY_TO_SUBMIT"} :
            stage = "SUBMITTED" /\ record' = [record EXCEPT !.state = stage]
      BY <3>1, <3>2
    <3>4. PICK stage \in RecordStates \ {"READY_TO_SUBMIT"} :
            stage = "SUBMITTED" /\ record' = [record EXCEPT !.state = stage]
      BY <3>3
    <3> QED BY <2>3, <3>1, <3>4
  <2>5. CASE ~SubmitClicks
    BY <1>5, <2>2, <2>3, <2>5, SubmitFacts
  <2> QED BY <2>4, <2>5
<1>6. CASE Rerenders \/ GoesOrComes \/ UserTypes
  BY <1>6 DEF Rerenders, GoesOrComes, UserTypes, PageChanges, SensitiveInv, Filling, Sending,
     Sendable
<1>7. CASE UNCHANGED formVars
  BY <1>7 DEF formVars, SensitiveInv, Filling, Sending, Sendable
<1> QED BY <1>1, <1>2, <1>3, <1>4, <1>5, <1>6, <1>7 DEF FormNext


\* Holds() looks at the kind and the value of a control, as the hash does.
LEMMA HoldsHashed ==
  ASSUME NEW f \in Seq(Control), NEW i \in DOMAIN f, NEW ans
  PROVE  /\ i \in DOMAIN ValueHash(f)
         /\ Holds([kind |-> ValueHash(f)[i][1], value |-> ValueHash(f)[i][2]], ans)
              <=> Holds(f[i], ans)
<1>1. i \in DOMAIN ValueHash(f) /\ ValueHash(f)[i] = <<f[i].kind, f[i].value>>
  BY HashType DEF ValueHash
<1>2. ValueHash(f)[i][1] = f[i].kind /\ ValueHash(f)[i][2] = f[i].value
  BY <1>1
<1> QED BY <1>1, <1>2 DEF Holds, Expected

LEMMA FilledStep ==
  ASSUME FormBase, SensitiveInv, FilledInv, [FormNext]_formVars
  PROVE  FilledInv'
<1>0. /\ FormTypeOK /\ Idle.pc = "idle" /\ (record # None => record \in FormRecord)
      /\ None \notin FormRecord
  BY CallKinds, NothingPrepared DEF FormBase, FormTypeOK
<1>1. ASSUME NEW dry \in BOOLEAN, PrepareForm(dry) PROVE FilledInv'
  <2>1. record = None /\ call' = call /\ sent' = sent
    BY <1>1 DEF PrepareForm
  <2>2. ~Sending /\ sent = None
    BY <2>1 DEF SensitiveInv
  <2>3. record'.state = "WAITING_FOR_APPROVAL"
    BY <1>1, PrepareFacts
  <2> QED BY <2>1, <2>2, <2>3 DEF FilledInv, Sending
<1>2. ASSUME NEW dry \in BOOLEAN, FillBegins(dry) PROVE FilledInv'
  <2>1. FillOpens
    BY <1>2, FillFacts
  <2>2. /\ sent' = sent /\ sent = None /\ record \in FormRecord /\ record # None /\ call = Idle
    BY <1>0, <2>1 DEF FillOpens, SensitiveInv
  <2>3. CASE record' = FormChanged(record) /\ call' = call
    <3>1. record'.state = "FORM_CHANGED"
      BY <2>2, <2>3 DEF FormChanged, FormRecord
    <3> QED BY <1>0, <2>2, <2>3, <3>1 DEF FilledInv, Sending
  <2>4. CASE record' = record /\ call'.pc = "locating"
    BY <2>2, <2>4 DEF FilledInv, Sending
  <2> QED BY <2>1, <2>2, <2>3, <2>4 DEF FillOpens
<1>3. ASSUME Locates \/ TypesNext \/ FillThrows PROVE FilledInv'
  <2>1. Filling /\ record' = record /\ sent' = sent
    BY <1>3 DEF Locates, TypesNext, FillThrows, Filling
  <2>2. call \in FillCall /\ sent = None
    BY <1>0, <2>1, CallKinds DEF SensitiveInv, Filling
  <2>3. call'.pc \notin {"comparing", "clicking"}
    <3>1. CASE Locates
      BY <2>2, <3>1 DEF Locates, FillCall
    <3> QED BY <1>0, <1>3, <3>1, TypesFacts DEF FillThrows
  <2> QED BY <2>1, <2>2, <2>3 DEF FilledInv, Sending
<1>4. CASE Reads \/ \E valid \in BOOLEAN : Validates(valid)
  <2>1. /\ sent' = sent /\ sent = None /\ record \in FormRecord
    <3>1. Filling
      BY <1>4 DEF Reads, Validates, Filling
    <3> QED BY <1>0, <1>4, <3>1, FillEnds DEF SensitiveInv, Filling
  <2>2. CASE record' = record /\ call'.pc = "reading"
    BY <2>1, <2>2 DEF FilledInv, Sending
  <2>3. CASE /\ call' = Idle /\ record'.answers = call.answers /\ record'.filled = call.filled
             /\ \/ record'.state \in {"FORM_CHANGED", "VALIDATING"} \/ record'.dryRun
                \/ /\ record'.valueHash = ValueHash(form) /\ form \in Seq(Control)
                   /\ Mismatches(call.answers, call.filled) = {}
    <3>1. ASSUME record'.valueHash = ValueHash(form), form \in Seq(Control),
                 Mismatches(call.answers, call.filled) = {}
          PROVE  Matches(record'.valueHash, record')
      <4>1. SUFFICES ASSUME NEW i \in DOMAIN call.answers, call.answers[i].field \in call.filled
                     PROVE  /\ i \in DOMAIN ValueHash(form)
                            /\ Holds([kind |-> ValueHash(form)[i][1],
                                      value |-> ValueHash(form)[i][2]], call.answers[i])
        BY <2>3, <3>1 DEF Matches
      <4>2. i \in DOMAIN form /\ Holds(form[i], call.answers[i])
        BY <3>1, <4>1 DEF Mismatches
      <4> QED BY <3>1, <4>2, HoldsHashed
    <3> QED BY <1>0, <2>1, <2>3, <3>1 DEF FilledInv, Sending
  <2> QED BY <1>4, <2>2, <2>3, FillEnds
<1>5. CASE SubmitChecksForm \/ SubmitChecksValues \/ SubmitThrows
  <2>1. record \in FormRecord /\ sent' = sent /\ sent = None
    BY <1>0, <1>5, SubmitFacts
       DEF SubmitChecksForm, SubmitChecksValues, SubmitThrows, SensitiveInv, pageVars
  <2>2. CASE record' # record
    <3>1. PICK stage \in RecordStates \ {"READY_TO_SUBMIT"} :
            call' = Idle /\ record' = [record EXCEPT !.state = stage]
      BY <1>5, <2>2, SubmitFacts
    <3>2. record'.state # "READY_TO_SUBMIT"
      BY <2>1, <3>1 DEF FormRecord
    <3> QED BY <1>0, <2>1, <3>1, <3>2 DEF FilledInv, Sending
  <2>3. CASE record' = record
    <3>1. form' = form
      BY <1>5, SubmitFacts
    <3>2. CASE call' = Idle
      BY <1>0, <2>1, <2>3, <3>2 DEF FilledInv, Sending
    <3>3. CASE SubmitChecksForm /\ call' = [pc |-> "comparing"] /\ Shape(form) = record.fields
      BY <2>1, <2>3, <3>1, <3>3 DEF FilledInv, Sending
    <3>4. CASE /\ SubmitChecksValues /\ call' = [pc |-> "clicking"]
               /\ ValueHash(form) = record.valueHash
      <4>1. Sending /\ edited' = edited
        BY <3>4 DEF SubmitChecksValues, Sending, pageVars
      <4>2. ~edited' => Shape(form') = record'.fields /\ ValueHash(form') = record'.valueHash
        BY <2>3, <3>1, <3>4, <4>1 DEF FilledInv
      <4> QED BY <2>1, <2>3, <4>2 DEF FilledInv
    <3>5. CASE SubmitThrows
      BY <3>2, <3>5 DEF SubmitThrows
    <3> QED BY <1>5, <2>3, <3>2, <3>3, <3>4, <3>5
            DEF SubmitChecksForm, SubmitChecksValues, FormBase
  <2> QED BY <2>2, <2>3
<1>6. CASE SubmitClicks
  <2>1. /\ Sending /\ call.pc = "clicking" /\ sent' = form /\ edited' = edited
        /\ call' = Idle /\ record' = [record EXCEPT !.state = "SUBMITTED"]
    BY <1>6 DEF SubmitClicks, Sending, pageVars
  <2>2. record \in FormRecord /\ Sendable
    BY <1>0, <2>1 DEF SensitiveInv
  <2>3. /\ record'.state = "SUBMITTED" /\ record'.fields = record.fields
        /\ record'.answers = record.answers /\ record'.filled = record.filled
    BY <2>1, <2>2 DEF FormRecord
  <2>4. Matches(record.valueHash, record)
    BY <1>0, <2>2 DEF FilledInv, Sendable
  <2>5. ~edited => Shape(form) = record.fields /\ ValueHash(form) = record.valueHash
    BY <2>1 DEF FilledInv
  <2>6. ~edited => Matches(ValueHash(form), record')
    BY <2>3, <2>4, <2>5 DEF Matches
  <2> QED BY <1>0, <2>1, <2>3, <2>5, <2>6 DEF FilledInv, Sending
<1>7. CASE Rerenders \/ GoesOrComes \/ UserTypes
  <2>1. PageChanges
    BY <1>7 DEF Rerenders, GoesOrComes, UserTypes
  <2> QED BY <2>1 DEF PageChanges, FilledInv, Sending
<1>8. CASE UNCHANGED formVars
  BY <1>8 DEF formVars, pageVars, FilledInv, Sending
<1> QED BY <1>1, <1>2, <1>3, <1>4, <1>5, <1>6, <1>7, <1>8 DEF FormNext

LEMMA FormInductive == FormSpec => [](FormBase /\ SensitiveInv /\ FilledInv)
<1>1. FormInit => FormBase /\ SensitiveInv /\ FilledInv
  <2>1. ASSUME FormInit PROVE FormBase /\ SensitiveInv /\ FilledInv
    <3>1. form \in Seq(Control) /\ Len(form) >= 1 /\ form # <<>>
      BY <2>1, FormAssumption DEF FormInit
    <3>2. /\ record = None /\ sent = None /\ call = Idle /\ call.pc = "idle"
          /\ shown \in BOOLEAN /\ edited \in BOOLEAN /\ fills = 0 /\ changes = 0
      BY <2>1 DEF FormInit, Idle
    <3>3. ~Filling /\ ~Sending
      BY <3>2 DEF Filling, Sending
    <3>4. FormTypeOK
      BY <3>1, <3>2, FormAssumption DEF FormTypeOK
    <3>5. FormBase
      BY <3>1, <3>2, <3>3, <3>4 DEF FormBase
    <3>6. SensitiveInv
      BY <3>2, <3>3 DEF SensitiveInv
    <3>7. FilledInv
      BY <3>2, <3>3 DEF FilledInv
    <3> QED BY <3>5, <3>6, <3>7
  <2> QED BY <2>1
<1>2. FormBase /\ SensitiveInv /\ FilledInv /\ [FormNext]_formVars
        => FormBase' /\ SensitiveInv' /\ FilledInv'
  BY FormBaseStep, SensitiveStep, FilledStep
<1> QED BY <1>1, <1>2, PTL DEF FormSpec

\* The page, the record, the call and what was sent hold what the code puts there.
THEOREM FormTypeCorrect == FormSpec => []FormTypeOK
<1>1. FormBase => FormTypeOK
  BY DEF FormBase
<1> QED BY <1>1, FormInductive, PTL

\* The sensitive questions are among the skipped fields of every record that can be
\* submitted (fillOnce(), assertReadyForApproval()), whatever was typed and rendered.
THEOREM SensitiveStaysManual == FormSpec => []SensitiveFormsStayManual
<1>1. ASSUME SensitiveInv, sent # None
      PROVE  \A i \in DOMAIN record.fields : record.fields[i].question \notin Sensitive
  BY <1>1 DEF SensitiveInv, Harmless
<1>2. SensitiveInv => SensitiveFormsStayManual
  BY <1>1 DEF SensitiveFormsStayManual
<1> QED BY <1>2, FormInductive, PTL

\* The answers the record calls filled are in the form that is clicked: the values
\* read after the typing match them, and the submission compares with those values.
THEOREM FilledIsSent == FormSpec => []FilledAnswersAreSent
<1>1. ASSUME FormBase, FilledInv, sent # None, ~edited,
             NEW i \in DOMAIN record.answers, record.answers[i].field \in record.filled
      PROVE  Holds(sent[i], record.answers[i])
  <2>1. sent \in Seq(Control) /\ DOMAIN ValueHash(sent) = DOMAIN sent
    BY <1>1, HashType DEF FormBase, FormTypeOK
  <2>2. /\ i \in DOMAIN ValueHash(sent)
        /\ Holds([kind |-> ValueHash(sent)[i][1], value |-> ValueHash(sent)[i][2]],
                 record.answers[i])
    BY <1>1 DEF FilledInv, Matches
  <2> QED BY <2>1, <2>2, HoldsHashed
<1>2. FormBase /\ FilledInv => FilledAnswersAreSent
  BY <1>1 DEF FilledAnswersAreSent, FilledInv
<1> QED BY <1>2, FormInductive, PTL

-----------------------------------------------------------------------------
(* A search and its tabs. *)

Source == {"fixture", "wuzzuf", "indeed", "composio"}

LEMMA OrderNames == ToSet(Order) = Source
  BY DEF ToSet, Order, Source

\* A source that works is one of a search under way, and a source is in a tab
\* only while it works.
SourceInv ==
  /\ state \in [Source -> {"idle", "working", "found", "failed"}]
  /\ \A m \in Source : state[m] = "working" => search = "running" /\ m \in ToSet(sources)
  /\ state["wuzzuf"] # "working" => wuzzuf.pc = "idle"
  /\ state["indeed"] # "working" => indeed.pc = "idle"
  /\ wuzzuf \in [pc : {"idle", "opened"}, tab : Nat, pair : Nat, page : Nat]
  /\ indeed \in [pc : {"idle", "loaded"}, tab : Nat, pair : Nat, page : Nat]

\* Whose the open tabs are.
TabInv ==
  /\ open \subseteq Nat \ {0}
  /\ wuzzuf.pc = "opened" => kept \notin open
  /\ \A t \in open : \/ t = kept \/ t \in left
                     \/ wuzzuf.pc = "opened" /\ t = wuzzuf.tab
                     \/ indeed.pc = "loaded" /\ t = indeed.tab

LEMMA NowhereIsIdle ==
  /\ Nowhere.pc = "idle"
  /\ Nowhere \in [pc : {"idle", "opened"}, tab : Nat, pair : Nat, page : Nat]
  /\ Nowhere \in [pc : {"idle", "loaded"}, tab : Nat, pair : Nat, page : Nat]
  BY DEF Nowhere

LEMMA NewTabs == \A t \in Unused : t \in Nat \ {0} /\ t # kept /\ t \notin open
  BY DiscoveryAssumption DEF Unused, Free

LEMMA TabInvInitially == DiscoveryInit => SourceInv /\ TabInv
  BY OrderNames, NowhereIsIdle DEF DiscoveryInit, SourceInv, TabInv, Source, Nowhere

LEMMA TabInvStep == SourceInv /\ TabInv /\ [DiscoveryNext]_vars => SourceInv' /\ TabInv'
<1> SUFFICES ASSUME SourceInv, TabInv, [DiscoveryNext]_vars PROVE SourceInv' /\ TabInv'
  OBVIOUS
<1> USE OrderNames, NowhereIsIdle
<1>1. CASE StartSearch
  BY <1>1 DEF StartSearch, SourceInv, TabInv, Source
<1>2. CASE CancelSearch \/ WuzzufLists \/ UNCHANGED vars
  BY <1>2 DEF CancelSearch, WuzzufLists, vars, SourceInv, TabInv
<1>3. CASE EndSearch
  <2>1. \A m \in Source : state[m] # "working"
    BY <1>3 DEF EndSearch, Through, SourceInv, TabInv
  <2> QED BY <1>3, <2>1 DEF EndSearch, SourceInv, TabInv
<1>4. CASE FixtureFinds
  BY <1>4 DEF FixtureFinds, Succeed, Working, SourceInv, TabInv, Source
<1>5. CASE ComposioSettles
  BY <1>5 DEF ComposioSettles, Succeed, Throw, Working, SourceInv, TabInv, Source
<1>6. CASE IndeedOpens
  <2>1. /\ UNCHANGED <<sources, search, wuzzuf, kept>> /\ state["indeed"] = "working"
        /\ indeed.pc = "idle" /\ search = "running" /\ "indeed" \in Source
    BY <1>6 DEF IndeedOpens, Working, Source
  <2>2. CASE Throw("indeed") /\ UNCHANGED <<indeed, open, left>>
    BY <2>1, <2>2 DEF Throw, SourceInv, TabInv
  <2>3. CASE \E t \in Unused : /\ open' = open \union {t} /\ UNCHANGED <<state, found, left>>
                               /\ indeed' = [indeed EXCEPT !.pc = "loaded", !.tab = t]
    <3>1. PICK t \in Unused : /\ open' = open \union {t}
                              /\ indeed' = [indeed EXCEPT !.pc = "loaded", !.tab = t]
      BY <2>3
    <3>2. /\ indeed' \in [pc : {"idle", "loaded"}, tab : Nat, pair : Nat, page : Nat]
          /\ indeed'.pc = "loaded" /\ indeed'.tab = t
      BY <3>1, NewTabs DEF SourceInv, TabInv
    <3>3. state' = state /\ left' = left
      BY <2>3
    <3>4. SourceInv'
      BY <2>1, <3>1, <3>2, <3>3, NewTabs DEF SourceInv, Source
    <3>5. TabInv'
      BY <2>1, <3>1, <3>2, <3>3, NewTabs DEF SourceInv, TabInv
    <3> QED BY <3>4, <3>5
  <2>4. CASE \E t \in Unused : /\ open' = open \union {t} /\ left' = left \union {t}
                               /\ Throw("indeed") /\ UNCHANGED indeed
    <3>1. PICK t \in Unused : open' = open \union {t} /\ left' = left \union {t}
      BY <2>4
    <3>2. state' = [state EXCEPT !["indeed"] = "failed"] /\ UNCHANGED indeed
      BY <2>4 DEF Throw
    <3>3. SourceInv'
      BY <2>1, <3>2 DEF SourceInv, Source
    <3>4. TabInv'
      BY <2>1, <3>1, <3>2, NewTabs DEF TabInv
    <3> QED BY <3>3, <3>4
  <2> QED BY <1>6, <2>2, <2>3, <2>4 DEF IndeedOpens
<1>7. CASE IndeedReads
  <2>1. /\ UNCHANGED <<sources, search, wuzzuf, kept, left>> /\ "indeed" \in Source
        /\ open' = open \ {indeed.tab} /\ indeed' = Nowhere /\ indeed.pc = "loaded"
    BY <1>7 DEF IndeedReads, Source
  <2>2. \E s \in {"found", "failed"} : state' = [state EXCEPT !["indeed"] = s]
    BY <1>7 DEF IndeedReads, Succeed, Throw
  <2>3. SourceInv'
    BY <2>1, <2>2 DEF SourceInv, Source
  <2>4. TabInv'
    BY <2>1, <2>2 DEF SourceInv, TabInv
  <2> QED BY <2>3, <2>4
<1>8. CASE WuzzufOpens
  <2>1. /\ UNCHANGED <<sources, search, indeed, left>> /\ state["wuzzuf"] = "working"
        /\ wuzzuf.pc = "idle" /\ search = "running" /\ "wuzzuf" \in Source
    BY <1>8 DEF WuzzufOpens, Working, Source
  <2>2. CASE Throw("wuzzuf") /\ UNCHANGED <<open, wuzzuf, kept>>
    BY <2>1, <2>2 DEF Throw, SourceInv, TabInv
  <2>3. ASSUME NEW t \in IF kept \in open THEN {kept} ELSE Unused,
               open' = open \union {t}, wuzzuf' = [wuzzuf EXCEPT !.pc = "opened", !.tab = t],
               kept' = IF t = kept THEN 0 ELSE kept, UNCHANGED <<state, found>>
        PROVE  SourceInv' /\ TabInv'
    <3>1. t \in Nat \ {0} /\ (t = kept \/ kept \notin open)
      BY NewTabs DEF SourceInv, TabInv
    <3>2. /\ wuzzuf' \in [pc : {"idle", "opened"}, tab : Nat, pair : Nat, page : Nat]
          /\ wuzzuf'.pc = "opened" /\ wuzzuf'.tab = t
      BY <2>3, <3>1 DEF SourceInv, TabInv
    <3>3. kept' \notin open'
      BY <2>3, <3>1 DEF SourceInv, TabInv
    <3> QED BY <2>1, <2>3, <3>1, <3>2, <3>3 DEF SourceInv, TabInv
  <2> QED BY <1>8, <2>2, <2>3 DEF WuzzufOpens
<1>9. CASE WuzzufReads
  <2>1. /\ UNCHANGED <<sources, search, indeed, kept, left>> /\ "wuzzuf" \in Source
        /\ open' = open \ {wuzzuf.tab} /\ wuzzuf.pc = "opened"
    BY <1>9 DEF WuzzufReads, Source
  <2>2. \E pair, page \in Nat :
          wuzzuf' = [pc |-> "idle", tab |-> 0, pair |-> pair, page |-> page]
    <3>1. wuzzuf.pair \in Nat /\ wuzzuf.page \in Nat
      BY DEF SourceInv, TabInv
    <3>2. \/ wuzzuf' = Nowhere
          \/ wuzzuf' = [Nowhere EXCEPT !.pair = wuzzuf.pair + 1]
          \/ wuzzuf' = [Nowhere EXCEPT !.pair = wuzzuf.pair, !.page = wuzzuf.page + 1]
      BY <1>9 DEF WuzzufReads
    <3>3. CASE wuzzuf' = Nowhere
      BY <3>3 DEF Nowhere
    <3>4. CASE wuzzuf' = [Nowhere EXCEPT !.pair = wuzzuf.pair + 1]
      <4>1. wuzzuf' = [pc |-> "idle", tab |-> 0, pair |-> wuzzuf.pair + 1, page |-> 0]
        BY <3>4 DEF Nowhere
      <4> QED BY <3>1, <4>1
    <3>5. CASE wuzzuf' = [Nowhere EXCEPT !.pair = wuzzuf.pair, !.page = wuzzuf.page + 1]
      <4>1. wuzzuf' = [pc |-> "idle", tab |-> 0, pair |-> wuzzuf.pair, page |-> wuzzuf.page + 1]
        BY <3>5 DEF Nowhere
      <4> QED BY <3>1, <4>1
    <3> QED BY <3>2, <3>3, <3>4, <3>5
  <2>3. state' = state \/ state' = [state EXCEPT !["wuzzuf"] = "found"]
    BY <1>9 DEF WuzzufReads, Succeed
  <2>4. SourceInv'
    BY <2>1, <2>2, <2>3 DEF SourceInv, Source
  <2>5. TabInv'
    BY <2>1, <2>2, <2>3 DEF SourceInv, TabInv
  <2> QED BY <2>4, <2>5
<1>10. CASE WuzzufFails
  BY <1>10 DEF WuzzufFails, Throw, Working, SourceInv, TabInv, Source
<1>11. CASE TabCloses
  BY <1>11 DEF TabCloses, SourceInv, TabInv
<1> QED
  BY <1>1, <1>2, <1>3, <1>4, <1>5, <1>6, <1>7, <1>8, <1>9, <1>10, <1>11 DEF DiscoveryNext

\* A search that is over, however its sources failed and whatever tabs were closed
\* under it, has left open the tab kept for the user's check and the tabs that
\* openTab() could not load, and no other (newPage(), openTab(), the finally blocks).
THEOREM EverySearchClosesItsTabs == DiscoverySpec => []TabsAreClosed
<1>1. SourceInv /\ TabInv => TabsAreClosed
  BY DEF SourceInv, TabInv, TabsAreClosed, Source
<1> QED BY TabInvInitially, TabInvStep, <1>1, PTL DEF DiscoverySpec

-----------------------------------------------------------------------------
\* What the sources find.

FoundJob == [from : Source, id : Nat]
FoundBy(m) == Seq([from : {m}, id : Nat])

\* No posting twice.
Once(js) == \A i, j \in DOMAIN js : js[i].id = js[j].id => i = j

\* The jobs of a page, one posting after the other.
PushLoop(f, jobs, page) ==
  [n \in 0..Len(page) |-> IF n = 0 THEN jobs ELSE Push(f[n - 1], Len(jobs), page[n])]

LEMMA PushedOnce ==
  ASSUME NEW js \in FoundBy("wuzzuf"), Once(js), NEW before, NEW p \in Nat
  PROVE  Push(js, before, p) \in FoundBy("wuzzuf") /\ Once(Push(js, before, p))
<1>1. CASE Len(js) >= Limit \/ p \in Seen(js, before) \/ p \in Unwanted
  BY <1>1 DEF Push
<1>2. CASE ~(Len(js) >= Limit \/ p \in Seen(js, before) \/ p \in Unwanted)
  <2> DEFINE new == [from |-> "wuzzuf", id |-> p]
             u == Append(js, new)
  <2>1. Push(js, before, p) = u
    BY <1>2 DEF Push
  <2>2. new \in [from : {"wuzzuf"}, id : Nat] /\ new.id = p
    OBVIOUS
  <2> HIDE DEF new
  <2>3. /\ u \in FoundBy("wuzzuf") /\ DOMAIN u = 1..(Len(js) + 1)
        /\ u[Len(js) + 1] = new /\ \A i \in DOMAIN js : u[i] = js[i]
        /\ DOMAIN js = 1..Len(js) /\ Len(js) \in Nat
    BY <2>2 DEF FoundBy
  <2> HIDE DEF u
  <2>4. \A i \in DOMAIN js : js[i].id # p
    BY <1>2 DEF Seen, IdsOf
  <2>5. \A i \in DOMAIN u : i \in DOMAIN js \/ i = Len(js) + 1
    BY <2>3
  <2>6. Once(u)
    BY <2>2, <2>3, <2>4, <2>5 DEF Once
  <2> QED BY <2>1, <2>3, <2>6
<1> QED BY <1>1, <1>2

LEMMA CollectedOnce ==
  ASSUME NEW jobs \in FoundBy("wuzzuf"), Once(jobs), NEW page \in Seq(Nat)
  PROVE  Collect(jobs, page) \in FoundBy("wuzzuf") /\ Once(Collect(jobs, page))
<1> DEFINE S == {js \in FoundBy("wuzzuf") : Once(js)}
           m == Len(page)
           at(n) == IF n \in DOMAIN page THEN page[n] ELSE 0
           step == [a \in Nat \X S |-> Push(a[2], Len(jobs), at(a[1]))]
           F == CHOOSE f : f = PushLoop(f, jobs, page)
<1>1. m \in Nat /\ DOMAIN page = 1..m /\ \A n \in Nat : at(n) \in Nat
  OBVIOUS
<1>2. step \in [Nat \X S -> S]
  <2> HIDE DEF at
  <2>1. \A a \in Nat \X S : Push(a[2], Len(jobs), at(a[1])) \in S
    BY <1>1, PushedOnce
  <2> HIDE DEF S
  <2> QED BY <2>1
<1>3. PICK f \in [0..m -> S] : Loop(f, m, jobs, step)
  <2> HIDE DEF m, step
  <2>1. jobs \in S
    OBVIOUS
  <2> HIDE DEF S
  <2> QED BY <1>1, <1>2, <2>1, LoopIsDefined
<1>4. f = PushLoop(f, jobs, page)
  <2>1. \A n \in 1..m : f[n] = Push(f[n - 1], Len(jobs), page[n])
    <3> SUFFICES ASSUME NEW n \in 1..m PROVE f[n] = Push(f[n - 1], Len(jobs), page[n])
      OBVIOUS
    <3>1. n \in Nat /\ n - 1 \in 0..m /\ at(n) = page[n]
      BY <1>1
    <3> HIDE DEF at
    <3>2. f[n - 1] \in S
      BY <1>3, <3>1
    <3> HIDE DEF S
    <3>3. <<n, f[n - 1]>> \in Nat \X S
      BY <3>1, <3>2
    <3>4. step[<<n, f[n - 1]>>] = Push(f[n - 1], Len(jobs), at(n))
      BY <3>3
    <3> QED BY <1>3, <3>1, <3>4 DEF Loop
  <2>2. f = [n \in 0..m |-> f[n]]
    BY <1>3
  <2>3. \A n \in 0..m : n = 0 \/ n \in 1..m
    BY <1>1
  <2> QED BY <1>3, <2>1, <2>2, <2>3 DEF PushLoop, Loop
<1>5. F = PushLoop(F, jobs, page)
  BY <1>4
<1>6. Collect(jobs, page) = F[m]
  BY DEF Collect, PushLoop
<1> HIDE DEF F
<1>7. F[0] = jobs /\ \A n \in 1..m : F[n] = Push(F[n - 1], Len(jobs), page[n])
  <2>1. PushLoop(F, jobs, page)[0] = jobs
    BY <1>1 DEF PushLoop
  <2>2. \A n \in 1..m : PushLoop(F, jobs, page)[n] = Push(F[n - 1], Len(jobs), page[n])
    BY <1>1 DEF PushLoop
  <2> QED BY <1>5, <2>1, <2>2
<1> DEFINE Good == [n \in 0..m |-> S]
<1>8. \A n \in 0..m : F[n] \in Good[n]
  <2>1. F[0] \in Good[0]
    BY <1>1, <1>7
  <2>2. \A n \in 1..m : F[n - 1] \in Good[n - 1] => F[n] \in Good[n]
    <3> SUFFICES ASSUME NEW n \in 1..m, F[n - 1] \in S PROVE F[n] \in S
      BY <1>1
    <3>1. page[n] \in Nat
      BY <1>1
    <3> QED BY <1>7, <3>1, PushedOnce
  <2> HIDE DEF Good, m
  <2> QED BY <1>1, <2>1, <2>2, LoopInvariant
<1> QED BY <1>1, <1>6, <1>8

\* The marks of Composio's answer, one after the other.
RowLoop(f, marks) ==
  [n \in 0..Len(marks) |->
     IF n = 0 THEN <<>>
     ELSE IF marks[n] THEN Append(f[n - 1], [from |-> "composio", id |-> n]) ELSE f[n - 1]]

LEMMA UsableRowsAreJobs ==
  ASSUME NEW marks \in Seq(BOOLEAN)
  PROVE  UsableRows(marks) \in FoundBy("composio")
<1> DEFINE S == FoundBy("composio")
           m == Len(marks)
           after(n, js) == IF n \in DOMAIN marks /\ marks[n]
                           THEN Append(js, [from |-> "composio", id |-> n]) ELSE js
           step == [a \in Nat \X S |-> after(a[1], a[2])]
           F == CHOOSE f : f = RowLoop(f, marks)
<1>1. m \in Nat /\ DOMAIN marks = 1..m /\ <<>> \in S
  BY DEF FoundBy
<1>2. \A n \in Nat, js \in S : after(n, js) \in S
  <2> SUFFICES ASSUME NEW n \in Nat, NEW js \in S PROVE after(n, js) \in S
    OBVIOUS
  <2>1. [from |-> "composio", id |-> n] \in [from : {"composio"}, id : Nat]
    OBVIOUS
  <2>2. Append(js, [from |-> "composio", id |-> n]) \in S
    BY <2>1 DEF FoundBy
  <2> QED BY <2>2
<1>3. step \in [Nat \X S -> S]
  <2> HIDE DEF after
  <2>1. \A a \in Nat \X S : after(a[1], a[2]) \in S
    BY <1>2
  <2> HIDE DEF S
  <2> QED BY <2>1
<1>4. PICK f \in [0..m -> S] : Loop(f, m, <<>>, step)
  <2> HIDE DEF m, step, S
  <2> QED BY <1>1, <1>3, LoopIsDefined
<1>5. f = RowLoop(f, marks)
  <2>1. \A n \in 1..m : f[n] = IF marks[n] THEN Append(f[n - 1], [from |-> "composio", id |-> n])
                                ELSE f[n - 1]
    <3> SUFFICES ASSUME NEW n \in 1..m
                 PROVE  f[n] = IF marks[n] THEN Append(f[n - 1], [from |-> "composio", id |-> n])
                               ELSE f[n - 1]
      OBVIOUS
    <3>1. n \in Nat /\ n - 1 \in 0..m /\ n \in DOMAIN marks
      BY <1>1
    <3>2. f[n - 1] \in S
      BY <1>4, <3>1
    <3>3. step[<<n, f[n - 1]>>] = after(n, f[n - 1])
      <4> HIDE DEF after, S
      <4> QED BY <3>1, <3>2
    <3>4. f[n] = after(n, f[n - 1])
      <4> HIDE DEF after, S, step
      <4> QED BY <1>4, <3>3 DEF Loop
    <3> QED BY <3>1, <3>4
  <2>2. f = [n \in 0..m |-> f[n]]
    BY <1>4
  <2>3. \A n \in 0..m : n = 0 \/ n \in 1..m
    BY <1>1
  <2>4. f[0] = <<>>
    BY <1>4 DEF Loop
  <2> QED BY <2>1, <2>2, <2>3, <2>4 DEF RowLoop
<1>6. F = RowLoop(F, marks)
  BY <1>5
<1>7. UsableRows(marks) = F[m]
  BY DEF UsableRows, RowLoop
<1> HIDE DEF F
<1>8. F[0] = <<>> /\ \A n \in 1..m : F[n] = after(n, F[n - 1])
  <2>1. RowLoop(F, marks)[0] = <<>>
    BY <1>1 DEF RowLoop
  <2>2. \A n \in 1..m : RowLoop(F, marks)[n] = after(n, F[n - 1])
    BY <1>1 DEF RowLoop
  <2> HIDE DEF after
  <2> QED BY <1>6, <2>1, <2>2
<1> DEFINE Good == [n \in 0..m |-> S]
<1>9. \A n \in 0..m : F[n] \in Good[n]
  <2> HIDE DEF after, S, m
  <2>1. F[0] \in Good[0]
    BY <1>1, <1>8
  <2>2. \A n \in 1..m : F[n - 1] \in Good[n - 1] => F[n] \in Good[n]
    BY <1>1, <1>2, <1>8
  <2> HIDE DEF Good
  <2> QED BY <1>1, <2>1, <2>2, LoopInvariant
<1> QED BY <1>1, <1>7, <1>9

\* The answers of the sources, one after the other.
JoinLoop(f) ==
  [n \in 0..Len(sources) |-> IF n = 0 THEN <<>> ELSE f[n - 1] \o found[sources[n]]]

\* js has what the first n sources in srcs have found, in their order.
InOrder(js, n, srcs, by) ==
  /\ js \in Seq(FoundJob)
  /\ \A i \in 1..Len(js) : \E k \in 1..n : js[i].from = srcs[k]
  /\ \A i, j \in 1..Len(js), k, l \in 1..n :
        (i < j /\ js[i].from = srcs[k] /\ js[j].from = srcs[l]) => k <= l
  /\ \A k \in 1..n : \E base \in 0..Len(js) :
        /\ base + Len(by[srcs[k]]) <= Len(js)
        /\ \A i \in 1..Len(by[srcs[k]]) : js[base + i] = by[srcs[k]][i]
        /\ \A i \in 1..Len(js) : js[i].from = srcs[k] =>
              i > base /\ i <= base + Len(by[srcs[k]])

\* Each of the sources is one of four, and is listed once.
SourcesInv ==
  /\ sources \in Seq(Source)
  /\ \A i, j \in DOMAIN sources : sources[i] = sources[j] => i = j
  /\ \A m \in Source : found[m] \in FoundBy(m)

LEMMA FoundBySource ==
  ASSUME NEW m \in Source, NEW js \in FoundBy(m)
  PROVE  /\ js \in Seq(FoundJob) /\ Len(js) \in Nat
         /\ \A i \in 1..Len(js) : js[i].from = m
<1> DEFINE E == [from : {m}, id : Nat]
<1>1. \A e \in E : e \in FoundJob /\ e.from = m
  BY DEF FoundJob
<1>2. js \in Seq(E)
  BY DEF FoundBy
<1> HIDE DEF E
<1>3. Len(js) \in Nat /\ DOMAIN js = 1..Len(js) /\ \A i \in 1..Len(js) : js[i] \in E
  BY <1>2
<1>4. js \in [1..Len(js) -> FoundJob]
  BY <1>1, <1>2, <1>3
<1> QED BY <1>1, <1>3, <1>4

LEMMA JoinsAnother ==
  ASSUME SourcesInv, NEW js, NEW n \in 1..Len(sources), InOrder(js, n - 1, sources, found)
  PROVE  InOrder(js \o found[sources[n]], n, sources, found)
<1> DEFINE m == sources[n]
           new == found[m]
           u == js \o new
<1>1. m \in Source /\ new \in FoundBy(m) /\ n \in Nat /\ DOMAIN sources = 1..Len(sources)
      /\ Len(sources) \in Nat
  BY DEF SourcesInv
<1> HIDE DEF new
<1>2. Len(new) \in Nat /\ new \in Seq(FoundJob) /\ \A i \in 1..Len(new) : new[i].from = m
  BY <1>1, FoundBySource
<1>3. js \in Seq(FoundJob) /\ Len(js) \in Nat
  BY DEF InOrder
<1>4. /\ u \in Seq(FoundJob) /\ Len(u) = Len(js) + Len(new)
      /\ \A i \in 1..Len(js) : u[i] = js[i]
      /\ \A i \in 1..Len(new) : u[Len(js) + i] = new[i]
  BY <1>2, <1>3, ConcatProperties
<1> HIDE DEF u
<1>5. \A i \in 1..Len(u) :
        \/ i \in 1..Len(js) /\ u[i] = js[i]
        \/ i \notin 1..Len(js) /\ i > Len(js) /\ u[i].from = m
  <2>1. ASSUME NEW i \in 1..Len(u), i \notin 1..Len(js) PROVE i > Len(js) /\ u[i].from = m
    <3>1. i > Len(js) /\ i - Len(js) \in 1..Len(new) /\ Len(js) + (i - Len(js)) = i
      BY <1>2, <1>3, <1>4, <2>1
    <3>2. u[Len(js) + (i - Len(js))] = new[i - Len(js)]
      BY <1>4, <3>1
    <3>3. u[i] = new[i - Len(js)]
      BY <3>1, <3>2
    <3>4. new[i - Len(js)].from = m
      BY <1>2, <3>1
    <3> QED BY <3>1, <3>3, <3>4
  <2>2. \A i \in 1..Len(js) : u[i] = js[i]
    BY <1>4
  <2> QED BY <2>1, <2>2
<1>6. \A k \in 1..n : k = n \/ k \in 1..(n - 1)
  BY <1>1
<1>7. \A k \in 1..(n - 1) : sources[k] # m /\ k < n /\ k \in 1..n
  BY <1>1 DEF SourcesInv
<1>8. \A i \in 1..Len(js) : js[i].from # m
  BY <1>7 DEF InOrder
<1>9. \A i \in 1..Len(u) : \E k \in 1..n : u[i].from = sources[k]
  <2> SUFFICES ASSUME NEW i \in 1..Len(u) PROVE \E k \in 1..n : u[i].from = sources[k]
    OBVIOUS
  <2>1. CASE i \in 1..Len(js) /\ u[i] = js[i]
    BY <1>7, <2>1 DEF InOrder
  <2>2. CASE u[i].from = m
    BY <1>1, <2>2
  <2> QED BY <1>5, <2>1, <2>2
<1>10. ASSUME NEW i \in 1..Len(u), NEW j \in 1..Len(u), NEW k \in 1..n, NEW l \in 1..n,
              i < j, u[i].from = sources[k], u[j].from = sources[l]
       PROVE  k <= l
  <2>1. CASE u[j].from = m /\ j > Len(js)
    <3>1. l = n
      BY <1>6, <1>7, <1>10, <2>1
    <3> QED BY <1>1, <3>1
  <2>2. CASE j \in 1..Len(js) /\ u[j] = js[j]
    <3>1. i \in 1..Len(js) /\ u[i] = js[i]
      BY <1>3, <1>4, <1>10, <2>2
    <3>2. k \in 1..(n - 1) /\ l \in 1..(n - 1)
      BY <1>6, <1>8, <1>10, <2>2, <3>1
    <3> QED BY <1>10, <2>2, <3>1, <3>2 DEF InOrder
  <2> QED BY <1>5, <2>1, <2>2
<1> DEFINE Stretch(k, base) ==
             /\ base + Len(found[sources[k]]) <= Len(u)
             /\ \A i \in 1..Len(found[sources[k]]) : u[base + i] = found[sources[k]][i]
             /\ \A i \in 1..Len(u) : u[i].from = sources[k] =>
                   i > base /\ i <= base + Len(found[sources[k]])
<1>11. ASSUME NEW k \in 1..n PROVE \E base \in 0..Len(u) : Stretch(k, base)
  <2>1. CASE k = n
    <3>1. Len(js) \in 0..Len(u) /\ Len(js) + Len(new) <= Len(u)
      BY <1>2, <1>3, <1>4
    <3>2. \A i \in 1..Len(u) : u[i].from = m => i > Len(js) /\ i <= Len(js) + Len(new)
      BY <1>2, <1>3, <1>4, <1>5, <1>8
    <3> QED BY <1>4, <2>1, <3>1, <3>2 DEF new
  <2>2. CASE k \in 1..(n - 1)
    <3> DEFINE old == found[sources[k]]
    <3>1. PICK base \in 0..Len(js) :
            /\ base + Len(old) <= Len(js)
            /\ \A i \in 1..Len(old) : js[base + i] = old[i]
            /\ \A i \in 1..Len(js) : js[i].from = sources[k] => i > base /\ i <= base + Len(old)
      BY <2>2 DEF InOrder
    <3>2. Len(old) \in Nat
      <4>1. sources[k] \in Source /\ found[sources[k]] \in FoundBy(sources[k])
        BY <1>1, <2>2 DEF SourcesInv
      <4> QED BY <4>1 DEF FoundBy
    <3> HIDE DEF old
    <3>3. base \in 0..Len(u) /\ base + Len(old) <= Len(u)
      BY <1>2, <1>3, <1>4, <3>1, <3>2
    <3>4. \A i \in 1..Len(old) : base + i \in 1..Len(js) /\ u[base + i] = old[i]
      BY <1>3, <1>4, <3>1, <3>2
    <3>5. \A i \in 1..Len(u) : u[i].from = sources[k] => i \in 1..Len(js) /\ u[i] = js[i]
      BY <1>5, <1>7, <2>2
    <3>6. \A i \in 1..Len(u) : u[i].from = sources[k] => i > base /\ i <= base + Len(old)
      BY <3>1, <3>5
    <3> QED BY <3>3, <3>4, <3>6 DEF old
  <2> QED BY <1>6, <2>1, <2>2
<1> QED BY <1>4, <1>9, <1>10, <1>11 DEF InOrder, u, new

LEMMA JoinedInOrder == SourcesInv => InOrder(Joined, Len(sources), sources, found)
<1> SUFFICES ASSUME SourcesInv PROVE InOrder(Joined, Len(sources), sources, found)
  OBVIOUS
<1> DEFINE m == Len(sources)
           S == Seq(FoundJob)
           part(n) == IF n \in DOMAIN sources THEN found[sources[n]] ELSE <<>>
           step == [a \in Nat \X S |-> a[2] \o part(a[1])]
           F == CHOOSE f : f = JoinLoop(f)
<1>1. m \in Nat /\ DOMAIN sources = 1..m /\ <<>> \in S
  BY DEF SourcesInv
<1>2. \A n \in Nat : part(n) \in S
  <2> SUFFICES ASSUME NEW n \in DOMAIN sources PROVE found[sources[n]] \in S
    BY <1>1
  <2>1. sources[n] \in Source /\ found[sources[n]] \in FoundBy(sources[n])
    BY DEF SourcesInv
  <2> QED BY <2>1, FoundBySource
<1>3. step \in [Nat \X S -> S]
  <2> HIDE DEF part
  <2>1. \A a \in Nat \X S : a[2] \o part(a[1]) \in S
    BY <1>2
  <2> HIDE DEF S
  <2> QED BY <2>1
<1>4. PICK f \in [0..m -> S] : Loop(f, m, <<>>, step)
  <2> HIDE DEF m, step, S
  <2> QED BY <1>1, <1>3, LoopIsDefined
<1>5. f = JoinLoop(f)
  <2>1. \A n \in 1..m : f[n] = f[n - 1] \o found[sources[n]]
    <3> SUFFICES ASSUME NEW n \in 1..m PROVE f[n] = f[n - 1] \o found[sources[n]]
      OBVIOUS
    <3>1. n \in Nat /\ n - 1 \in 0..m /\ part(n) = found[sources[n]]
      BY <1>1
    <3>2. f[n - 1] \in S
      BY <1>4, <3>1
    <3>3. step[<<n, f[n - 1]>>] = f[n - 1] \o part(n)
      <4> HIDE DEF part, S
      <4> QED BY <3>1, <3>2
    <3>4. f[n] = f[n - 1] \o part(n)
      <4> HIDE DEF part, S, step
      <4> QED BY <1>4, <3>3 DEF Loop
    <3> QED BY <3>1, <3>4
  <2>2. f = [n \in 0..m |-> f[n]]
    BY <1>4
  <2>3. \A n \in 0..m : n = 0 \/ n \in 1..m
    BY <1>1
  <2>4. f[0] = <<>>
    BY <1>4 DEF Loop
  <2> QED BY <2>1, <2>2, <2>3, <2>4 DEF JoinLoop
<1>6. F = JoinLoop(F)
  BY <1>5
<1>7. Joined = F[m]
  BY DEF Joined, JoinLoop
<1> HIDE DEF F
<1>8. F[0] = <<>> /\ \A n \in 1..m : F[n] = F[n - 1] \o found[sources[n]]
  <2>1. JoinLoop(F)[0] = <<>>
    BY <1>1 DEF JoinLoop
  <2>2. ASSUME NEW n \in 1..m PROVE JoinLoop(F)[n] = F[n - 1] \o found[sources[n]]
    <3>1. n \in 0..Len(sources) /\ n # 0
      BY <1>1
    <3> QED BY <3>1 DEF JoinLoop
  <2> QED BY <1>6, <2>1, <2>2
<1> DEFINE Good == [n \in 0..m |-> {js \in S : InOrder(js, n, sources, found)}]
<1>9. InOrder(<<>>, 0, sources, found)
  BY DEF InOrder
<1>10. \A n \in 0..m : F[n] \in Good[n]
  <2>1. F[0] \in Good[0]
    BY <1>1, <1>8, <1>9
  <2>2. \A n \in 1..m : F[n - 1] \in Good[n - 1] => F[n] \in Good[n]
    <3> SUFFICES ASSUME NEW n \in 1..m, F[n - 1] \in Good[n - 1] PROVE F[n] \in Good[n]
      OBVIOUS
    <3>1. n - 1 \in 0..m /\ n \in 0..m
      BY <1>1
    <3>2. InOrder(F[n - 1], n - 1, sources, found)
      BY <3>1
    <3>3. InOrder(F[n], n, sources, found)
      BY <1>8, <3>2, JoinsAnother
    <3>4. F[n] \in S
      BY <3>3 DEF InOrder
    <3> QED BY <3>1, <3>3, <3>4
  <2> HIDE DEF Good, m
  <2> QED BY <1>1, <2>1, <2>2, LoopInvariant
<1> QED BY <1>1, <1>7, <1>10

\* What a search has found while it runs, and what it answers.
FoundInv ==
  /\ SourcesInv
  /\ Once(found["wuzzuf"])
  /\ listed \in Seq(Nat)
  /\ search = "answered" => InOrder(answer, Len(sources), sources, found)

LEMMA ModesAreSources ==
  ASSUME NEW s \in Modes
  PROVE  s \in Seq(Source) /\ \A i, j \in DOMAIN s : s[i] = s[j] => i = j
<1>1. PICK n \in 1..4 : s \in [1..n -> Source]
  BY OrderNames DEF Modes, Listings, Order
<1>2. \A i, j \in DOMAIN s : i < j => s[i] # s[j]
  BY DEF Modes, Order
<1>3. \A i, j \in DOMAIN s : i < j \/ j < i \/ i = j
  BY <1>1
<1> QED BY <1>1, <1>2, <1>3

\* A step that gives a source something to have found, in a search under way.
LEMMA FoundStep ==
  ASSUME FoundInv, search = "running", NEW m \in Source, NEW js \in FoundBy(m), m = "wuzzuf" => Once(js),
         found' = [found EXCEPT ![m] = js], UNCHANGED <<listed, sources, search>>
  PROVE  FoundInv'
<1>1. SourcesInv'
  BY DEF FoundInv, SourcesInv
<1>2. Once(found["wuzzuf"])'
  BY DEF FoundInv, SourcesInv, Source
<1> QED BY <1>1, <1>2 DEF FoundInv

LEMMA NothingFound == \A m \in Source : <<>> \in FoundBy(m) /\ Once(<<>>)
  BY DEF FoundBy, Once

LEMMA FoundInitially == DiscoveryInit => FoundInv
<1> SUFFICES ASSUME DiscoveryInit PROVE FoundInv
  OBVIOUS
<1>1. sources \in Modes /\ found = [m \in Source |-> <<>>] /\ search = "none"
  BY OrderNames DEF DiscoveryInit
<1>2. SourcesInv
  BY <1>1, ModesAreSources, NothingFound DEF SourcesInv
<1>3. listed \in Seq(Nat)
  <2>1. PICK n \in 0..Cardinality(Vacancies) : listed \in [1..n -> Vacancies]
    BY DEF DiscoveryInit
  <2>2. n \in Nat
    BY <2>1, DiscoveryAssumption, FS_CardinalityType
  <2>3. listed \in [1..n -> Nat]
    BY <2>1, DiscoveryAssumption
  <2> QED BY <2>2, <2>3
<1> QED BY <1>1, <1>2, <1>3, NothingFound DEF FoundInv, Source

LEMMA ResultPagePostings ==
  ASSUME NEW p \in Nat, listed \in Seq(Nat)
  PROVE  ResultPage(p) \in Seq(Nat)
<1> DEFINE a == p * PerPage + 1
           z == IF (p + 1) * PerPage < Len(listed) THEN (p + 1) * PerPage ELSE Len(listed)
<1>1. a \in Nat /\ a >= 1 /\ z \in Nat /\ z <= Len(listed)
  BY DiscoveryAssumption
<1>2. \A i \in a..z : listed[i] \in Nat
  <2> HIDE DEF a, z
  <2> QED BY <1>1
<1>3. SubSeq(listed, a, z) \in Seq(Nat)
  <2> HIDE DEF a, z
  <2> QED BY <1>1, <1>2, SubSeqProperties
<1> QED BY <1>3 DEF ResultPage

LEMMA FoundInvStep == SourceInv /\ FoundInv /\ [DiscoveryNext]_vars => FoundInv'
<1> SUFFICES ASSUME SourceInv, FoundInv, [DiscoveryNext]_vars PROVE FoundInv'
  OBVIOUS
<1>1. CASE StartSearch
  <2>1. found' = [m \in Source |-> <<>>] /\ search' = "running" /\ UNCHANGED <<listed, sources>>
    BY <1>1, OrderNames DEF StartSearch
  <2>2. SourcesInv'
    BY <2>1, NothingFound DEF FoundInv, SourcesInv
  <2>3. Once(found["wuzzuf"])'
    BY <2>1, NothingFound DEF Source
  <2> QED BY <2>1, <2>2, <2>3 DEF FoundInv
<1>2. CASE CancelSearch \/ TabCloses \/ UNCHANGED vars
  BY <1>2 DEF CancelSearch, TabCloses, vars, FoundInv, SourcesInv
<1>3. CASE EndSearch
  <2>1. UNCHANGED <<listed, sources, found>> /\ (search' = "answered" => answer' = Joined)
    BY <1>3 DEF EndSearch
  <2>2. InOrder(Joined, Len(sources), sources, found)
    BY JoinedInOrder DEF FoundInv
  <2>3. search' = "answered" => InOrder(answer, Len(sources), sources, found)'
    BY <2>1, <2>2
  <2>4. SourcesInv' /\ Once(found["wuzzuf"])' /\ (listed \in Seq(Nat))'
    BY <2>1 DEF FoundInv, SourcesInv, Once
  <2> QED BY <2>3, <2>4 DEF FoundInv
<1>4. CASE FixtureFinds
  <2>1. <<[from |-> "fixture", id |-> 1]>> \in FoundBy("fixture")
    BY DEF FoundBy
  <2> QED BY <1>4, <2>1, FoundStep DEF FixtureFinds, Succeed, Working, Source
<1>5. CASE ComposioSettles
  <2>1. UNCHANGED <<listed, sources, search>> /\ search = "running" /\ "composio" \in Source
    <3>1. UNCHANGED <<listed, sources, search>> /\ Working("composio")
      BY <1>5 DEF ComposioSettles
    <3> QED BY <3>1 DEF Working, Source
  <2>2. \E js \in FoundBy("composio") : found' = [found EXCEPT !["composio"] = js]
    <3>1. \A marks \in {<<>>, <<TRUE>>, <<FALSE, TRUE>>} : UsableRows(marks) \in FoundBy("composio")
      <4>1. {<<>>, <<TRUE>>, <<FALSE, TRUE>>} \subseteq Seq(BOOLEAN)
        OBVIOUS
      <4> QED BY <4>1, UsableRowsAreJobs
    <3>2. <<>> \in FoundBy("composio")
      BY NothingFound DEF Source
    <3> QED BY <1>5, <3>1, <3>2 DEF ComposioSettles, Succeed, Throw
  <2> QED BY <2>1, <2>2, FoundStep
<1>6. CASE IndeedOpens
  <2>1. UNCHANGED <<listed, sources, search>> /\ search = "running" /\ "indeed" \in Source
    BY <1>6 DEF IndeedOpens, Working, Source
  <2>2. found' = found \/ found' = [found EXCEPT !["indeed"] = <<>>]
    BY <1>6 DEF IndeedOpens, Throw
  <2>3. CASE found' = found
    BY <2>1, <2>3 DEF FoundInv, SourcesInv, Once
  <2>4. CASE found' = [found EXCEPT !["indeed"] = <<>>]
    BY <2>1, <2>4, NothingFound, FoundStep
  <2> QED BY <2>2, <2>3, <2>4
<1>7. CASE IndeedReads
  <2>1. UNCHANGED <<listed, sources, search>> /\ search = "running" /\ "indeed" \in Source
    BY <1>7 DEF IndeedReads, Working, Source
  <2>2. \E js \in FoundBy("indeed") : found' = [found EXCEPT !["indeed"] = js]
    <3>1. \A n \in 0..1 : [i \in 1..n |-> [from |-> "indeed", id |-> i]] \in FoundBy("indeed")
      BY DEF FoundBy
    <3>2. <<>> \in FoundBy("indeed")
      BY NothingFound DEF Source
    <3> QED BY <1>7, <3>1, <3>2 DEF IndeedReads, Succeed, Throw
  <2> QED BY <2>1, <2>2, FoundStep
<1>8. CASE WuzzufOpens \/ WuzzufFails
  <2>1. UNCHANGED <<listed, sources, search>> /\ search = "running" /\ "wuzzuf" \in Source
    BY <1>8 DEF WuzzufOpens, WuzzufFails, Working, Source
  <2>2. found' = found \/ found' = [found EXCEPT !["wuzzuf"] = <<>>]
    BY <1>8 DEF WuzzufOpens, WuzzufFails, Throw
  <2>3. CASE found' = found
    BY <2>1, <2>3 DEF FoundInv, SourcesInv, Once
  <2>4. CASE found' = [found EXCEPT !["wuzzuf"] = <<>>]
    BY <2>1, <2>4, NothingFound, FoundStep
  <2> QED BY <2>2, <2>3, <2>4
<1>9. CASE WuzzufReads
  <2>1. UNCHANGED <<listed, sources, search>> /\ search = "running" /\ "wuzzuf" \in Source
    BY <1>9 DEF WuzzufReads, Working, Source
  <2>2. PICK js : js = Collect(found["wuzzuf"], ResultPage(wuzzuf.page))
    OBVIOUS
  <2>3. found' = [found EXCEPT !["wuzzuf"] = js]
    BY <1>9, <2>2 DEF WuzzufReads, Succeed
  <2>4. ResultPage(wuzzuf.page) \in Seq(Nat)
    <3>1. wuzzuf.page \in Nat
      BY DEF SourceInv
    <3> QED BY <3>1, ResultPagePostings DEF FoundInv
  <2>5. found["wuzzuf"] \in FoundBy("wuzzuf") /\ Once(found["wuzzuf"])
    BY <2>1 DEF FoundInv, SourcesInv
  <2>6. js \in FoundBy("wuzzuf") /\ Once(js)
    BY <2>2, <2>4, <2>5, CollectedOnce
  <2> QED BY <2>1, <2>3, <2>6, FoundStep
<1>10. CASE WuzzufLists
  <2>1. UNCHANGED <<sources, search, found, answer>> /\ search = "running"
    BY <1>10 DEF WuzzufLists
  <2>2. PICK p \in Vacancies : listed' = <<p>> \o listed
    BY <1>10 DEF WuzzufLists
  <2>3. listed' \in Seq(Nat)
    <3>1. <<p>> \in Seq(Nat) /\ listed \in Seq(Nat)
      BY DiscoveryAssumption DEF FoundInv
    <3> QED BY <2>2, <3>1
  <2> QED BY <2>1, <2>3 DEF FoundInv, SourcesInv, Once
<1> QED
  BY <1>1, <1>2, <1>3, <1>4, <1>5, <1>6, <1>7, <1>8, <1>9, <1>10 DEF DiscoveryNext

\* What a search answers has the jobs of each source that did not fail, whole and in
\* the order of the sources (MultiJobSource), and no posting of Wuzzuf's twice, although
\* its list moves between two pages and its pairs overlap (`seen' in discover()).
THEOREM SearchesAnswerAllOnce == DiscoverySpec => []FoundOnceInOrder
<1>1. FoundInv => FoundOnceInOrder
  <2> SUFFICES ASSUME FoundInv, search = "answered" PROVE FoundOnceInOrder
    BY DEF FoundOnceInOrder
  <2>1. InOrder(answer, Len(sources), sources, found) /\ SourcesInv /\ Once(found["wuzzuf"])
    BY DEF FoundInv
  <2>2. DOMAIN sources = 1..Len(sources) /\ Len(sources) \in Nat
    BY <2>1 DEF SourcesInv
  <2>3. \A m \in ToSet(sources) : \E k \in 1..Len(sources) : m = sources[k]
    BY <2>2 DEF ToSet
  <2>4. ASSUME NEW m \in ToSet(sources)
        PROVE  \E base \in 0..Len(answer) :
                 /\ base + Len(found[m]) <= Len(answer)
                 /\ \A i \in 1..Len(found[m]) : answer[base + i] = found[m][i]
                 /\ \A i \in 1..Len(answer) : answer[i].from = m =>
                       i > base /\ i <= base + Len(found[m])
    <3>1. PICK k \in 1..Len(sources) : m = sources[k]
      BY <2>3, <2>4
    <3> QED BY <2>1, <3>1 DEF InOrder
  <2>5. \A i, j \in 1..Len(answer), m, n \in 1..Len(sources) :
          (i < j /\ answer[i].from = sources[m] /\ answer[j].from = sources[n]) => m <= n
    BY <2>1 DEF InOrder
  <2>6. ASSUME NEW i \in 1..Len(answer), NEW j \in 1..Len(answer),
               answer[i].from = "wuzzuf", answer[i] = answer[j]
        PROVE  i = j
    <3>1. "wuzzuf" \in ToSet(sources)
      <4>1. PICK k \in 1..Len(sources) : "wuzzuf" = sources[k]
        BY <2>1, <2>6 DEF InOrder
      <4> QED BY <2>2, <4>1 DEF ToSet
    <3> DEFINE js == found["wuzzuf"]
    <3>2. PICK base \in 0..Len(answer) :
            /\ base + Len(js) <= Len(answer)
            /\ \A k \in 1..Len(js) : answer[base + k] = js[k]
            /\ \A k \in 1..Len(answer) : answer[k].from = "wuzzuf" => k > base /\ k <= base + Len(js)
      BY <2>4, <3>1
    <3>3. Len(js) \in Nat /\ DOMAIN js = 1..Len(js) /\ Len(answer) \in Nat
      BY <2>1 DEF SourcesInv, Source, FoundBy, InOrder
    <3>4. Once(js)
      BY <2>1
    <3> HIDE DEF js
    <3>5. /\ i - base \in 1..Len(js) /\ base + (i - base) = i
          /\ j - base \in 1..Len(js) /\ base + (j - base) = j
      <4>1. i > base /\ i <= base + Len(js) /\ j > base /\ j <= base + Len(js)
        BY <2>6, <3>2
      <4> QED BY <3>3, <4>1
    <3>6. js[i - base] = js[j - base]
      BY <2>6, <3>2, <3>5
    <3>7. i - base = j - base
      BY <3>3, <3>4, <3>5, <3>6 DEF Once
    <3> QED BY <3>5, <3>7
  <2> QED BY <2>4, <2>5, <2>6 DEF FoundOnceInOrder
<1>2. DiscoveryInit => SourceInv /\ TabInv /\ FoundInv
  BY TabInvInitially, FoundInitially
<1>3. SourceInv /\ TabInv /\ FoundInv /\ [DiscoveryNext]_vars
        => (SourceInv /\ TabInv /\ FoundInv)'
  BY TabInvStep, FoundInvStep
<1> QED BY <1>1, <1>2, <1>3, PTL DEF DiscoverySpec

-----------------------------------------------------------------------------
(* The assistant's streams.                                                *)

\* Every number is twice another, or one more.
LEMMA Halves == \A t \in Nat : \E h \in Nat : t = 2 * h \/ t = 2 * h + 1
<1> DEFINE S == {t \in Nat : \E h \in Nat : t = 2 * h \/ t = 2 * h + 1}
<1>1. 0 \in S
  OBVIOUS
<1>2. \A t \in Nat : t \in S => t + 1 \in S
  <2> SUFFICES ASSUME NEW t \in Nat, t \in S PROVE t + 1 \in S
    OBVIOUS
  <2> PICK h \in Nat : t = 2 * h \/ t = 2 * h + 1
    OBVIOUS
  <2>1. CASE t = 2 * h
    BY <2>1
  <2>2. CASE t = 2 * h + 1
    <3> DEFINE g == h + 1
    <3>1. g \in Nat /\ t + 1 = 2 * g
      BY <2>2
    <3> HIDE DEF g
    <3> QED BY <3>1
  <2> QED BY <2>1, <2>2
<1>3. Nat \subseteq S
  <2> HIDE DEF S
  <2> QED BY <1>1, <1>2, SetInduction
<1> QED BY <1>3

\* The lines that follow the first j of c, as symbols.
Carries(s, c, j) ==
  /\ s \in Seq(Nat) /\ c \in Seq(Nat) /\ j \in 0..Len(c)
  /\ Len(s) = 2 * (Len(c) - j)
  /\ \A i \in 1..(Len(c) - j) : s[2 * i - 1] = c[j + i] /\ s[2 * i] = Newline

Plain(c) == c \in Seq(Nat) /\ \A i \in 1..Len(c) : c[i] # Newline

\* A text of h lines and what may have come of another.
Holding(text, h, c, j) ==
  /\ text \in Seq(Nat) /\ h \in Nat /\ j \in Nat /\ j + h <= Len(c)
  /\ Len(text) = 2 * h \/ (Len(text) = 2 * h + 1 /\ text[2 * h + 1] # Newline)
  /\ \A i \in 1..h : text[2 * i - 1] = c[j + i] /\ text[2 * i] = Newline

LEMMA NewlineOf ==
  ASSUME NEW text, NEW h, NEW c, NEW j, Holding(text, h, c, j)
  PROVE  LastNewline(text) = 2 * h
<1> DEFINE S == {0} \union {i \in DOMAIN text : text[i] = Newline}
<1>1. /\ Len(text) \in Nat /\ DOMAIN text = 1..Len(text) /\ h \in Nat
      /\ 2 * h \in Nat /\ 2 * h <= Len(text) /\ Len(text) <= 2 * h + 1
  BY DEF Holding
<1>2. S \in SUBSET (0..Len(text)) /\ S # {}
  BY <1>1
<1>3. 2 * h \in S
  <2>1. CASE h = 0
    BY <2>1
  <2>2. CASE h # 0
    <3>1. h \in 1..h /\ 2 * h \in DOMAIN text
      BY <1>1, <2>2
    <3> QED BY <3>1 DEF Holding
  <2> QED BY <2>1, <2>2
<1>4. \A i \in S : i <= 2 * h
  <2>1. ASSUME NEW i \in 1..Len(text), text[i] = Newline PROVE i <= 2 * h
    <3>1. CASE Len(text) = 2 * h
      BY <1>1, <3>1
    <3>2. CASE Len(text) = 2 * h + 1 /\ text[2 * h + 1] # Newline
      <4>1. i # 2 * h + 1
        BY <2>1, <3>2
      <4> QED BY <1>1, <3>2, <4>1
    <3> QED BY <3>1, <3>2 DEF Holding
  <2>2. 0 <= 2 * h
    BY <1>1
  <2> QED BY <1>1, <2>1, <2>2
<1>5. Max(S) \in S /\ Max(S) >= 2 * h
  <2> HIDE DEF S
  <2> QED BY <1>1, <1>2, <1>3, GreatestElement
<1>6. Max(S) = 2 * h
  <2> HIDE DEF S
  <2>1. Max(S) \in 0..Len(text)
    BY <1>2, <1>5
  <2> QED BY <1>1, <1>4, <1>5, <2>1
<1> QED BY <1>6 DEF LastNewline

\* What a text says, symbol by symbol.
SplitLoop(f, text, m) ==
  [n \in 0..m |-> IF n = 0 THEN <<>>
                  ELSE IF text[n] = Newline THEN f[n - 1] ELSE Append(f[n - 1], text[n])]

LEMMA LinesAreDefined ==
  ASSUME NEW text \in Seq(Nat), NEW m \in 0..Len(text), m = LastNewline(text)
  PROVE  \E f : /\ Lines(text) = f[m] /\ f[0] = <<>>
               /\ \A n \in 1..m : f[n] = IF text[n] = Newline THEN f[n - 1]
                                         ELSE Append(f[n - 1], text[n])
<1> DEFINE S == Seq(Nat)
           after(n, js) == IF n \in DOMAIN text /\ text[n] # Newline
                           THEN Append(js, text[n]) ELSE js
           step == [a \in Nat \X S |-> after(a[1], a[2])]
           F == CHOOSE f : f = SplitLoop(f, text, m)
<1>1. m \in Nat /\ DOMAIN text = 1..Len(text) /\ <<>> \in S /\ \A n \in 1..m : n \in DOMAIN text
  OBVIOUS
<1>2. \A n \in Nat, js \in S : after(n, js) \in S
  OBVIOUS
<1>3. step \in [Nat \X S -> S]
  <2> HIDE DEF after
  <2>1. \A a \in Nat \X S : after(a[1], a[2]) \in S
    BY <1>2
  <2> HIDE DEF S
  <2> QED BY <2>1
<1>4. PICK f \in [0..m -> S] : Loop(f, m, <<>>, step)
  <2> HIDE DEF step, S
  <2> QED BY <1>1, <1>3, LoopIsDefined
<1>5. f = SplitLoop(f, text, m)
  <2>1. ASSUME NEW n \in 1..m
        PROVE  f[n] = IF text[n] = Newline THEN f[n - 1] ELSE Append(f[n - 1], text[n])
    <3>1. n \in Nat /\ n - 1 \in 0..m /\ n \in DOMAIN text
      BY <1>1
    <3>2. f[n - 1] \in S
      BY <1>4, <3>1
    <3>3. step[<<n, f[n - 1]>>] = after(n, f[n - 1])
      <4> HIDE DEF after, S
      <4> QED BY <3>1, <3>2
    <3>4. f[n] = after(n, f[n - 1])
      <4> HIDE DEF after, S, step
      <4> QED BY <1>4, <3>3 DEF Loop
    <3> QED BY <3>1, <3>4
  <2>2. f = [n \in 0..m |-> f[n]]
    BY <1>4
  <2>3. \A n \in 0..m : n = 0 \/ n \in 1..m
    BY <1>1
  <2>4. f[0] = <<>>
    BY <1>4 DEF Loop
  <2> QED BY <2>1, <2>2, <2>3, <2>4 DEF SplitLoop
<1>6. F = SplitLoop(F, text, m)
  BY <1>5
<1>7. Lines(text) = F[m]
  <2>1. Lines(text) = (CHOOSE g : g = SplitLoop(g, text, LastNewline(text)))[LastNewline(text)]
    BY DEF Lines, SplitLoop
  <2> QED BY <2>1
<1> HIDE DEF F
<1>8. ASSUME NEW n \in 1..m
      PROVE  F[n] = IF text[n] = Newline THEN F[n - 1] ELSE Append(F[n - 1], text[n])
  <2>1. n \in 0..m /\ n # 0
    BY <1>1
  <2>2. SplitLoop(F, text, m)[n] = IF text[n] = Newline THEN F[n - 1] ELSE Append(F[n - 1], text[n])
    BY <2>1 DEF SplitLoop
  <2> QED BY <1>6, <2>2
<1>9. F[0] = <<>>
  <2>1. SplitLoop(F, text, m)[0] = <<>>
    BY <1>1 DEF SplitLoop
  <2> QED BY <1>6, <2>1
<1> QED BY <1>7, <1>8, <1>9

\* js says what the h lines after the first j of c say.
Says(js, h, c, j) ==
  js \in Seq(Nat) /\ Len(js) = h /\ \A i \in 1..h : js[i] = c[j + i]

LEMMA SplitText ==
  ASSUME NEW text, NEW h, NEW c, NEW j, Holding(text, h, c, j), Plain(c)
  PROVE  Says(Lines(text), h, c, j)
<1> DEFINE m == 2 * h
<1>1. /\ Len(text) \in Nat /\ DOMAIN text = 1..Len(text) /\ h \in Nat /\ text \in Seq(Nat)
      /\ m \in 0..Len(text) /\ m \in Nat /\ j \in Nat /\ j + h <= Len(c)
  BY DEF Holding
<1>2. LastNewline(text) = m
  BY NewlineOf
<1> HIDE DEF m
<1>3. PICK f : /\ Lines(text) = f[m] /\ f[0] = <<>>
               /\ \A n \in 1..m : f[n] = IF text[n] = Newline THEN f[n - 1]
                                         ELSE Append(f[n - 1], text[n])
  BY <1>1, <1>2, LinesAreDefined
<1> DEFINE Good == [n \in 0..m |->
                     {js \in Seq(Nat) : /\ 2 * Len(js) = n \/ 2 * Len(js) = n + 1
                                        /\ \A i \in 1..Len(js) : js[i] = c[j + i]}]
<1>4. f[0] \in Good[0]
  <2>1. <<>> \in Seq(Nat) /\ Len(<<>>) = 0 /\ 0 \in 0..m
    BY <1>1
  <2> QED BY <1>3, <2>1
<1>5. ASSUME NEW n \in 1..m, f[n - 1] \in Good[n - 1] PROVE f[n] \in Good[n]
  <2> DEFINE js == f[n - 1]
  <2>1. n - 1 \in 0..m /\ n \in 0..m /\ n \in Nat /\ n - 1 \in Nat
    BY <1>1
  <2>2. /\ js \in Seq(Nat) /\ Len(js) \in Nat /\ (2 * Len(js) = n - 1 \/ 2 * Len(js) = n)
        /\ \A i \in 1..Len(js) : js[i] = c[j + i]
    BY <1>5, <2>1
  <2>3. PICK e \in Nat : n = 2 * e \/ n = 2 * e + 1
    BY <2>1, Halves
  <2>4. CASE n = 2 * e
    <3>1. e \in 1..h
      BY <1>1, <2>1, <2>4 DEF m
    <3>2. text[n] = Newline
      BY <2>4, <3>1 DEF Holding
    <3>3. f[n] = js
      BY <1>3, <3>2
    <3>4. 2 * Len(js) = n
      BY <2>2, <2>4
    <3> QED BY <2>1, <2>2, <3>3, <3>4
  <2>5. CASE n = 2 * e + 1
    <3>1. e + 1 \in 1..h /\ n = 2 * (e + 1) - 1
      BY <1>1, <2>1, <2>5 DEF m
    <3>2. text[n] = c[j + (e + 1)]
      BY <3>1 DEF Holding
    <3>3. j + (e + 1) \in 1..Len(c)
      BY <1>1, <3>1 DEF Plain
    <3>4. text[n] # Newline /\ text[n] \in Nat
      BY <3>2, <3>3 DEF Plain
    <3>5. f[n] = Append(js, text[n])
      BY <1>3, <3>4
    <3>6. Len(js) = e
      BY <2>2, <2>5
    <3> HIDE DEF js
    <3> DEFINE u == Append(js, text[n])
    <3>7. /\ u \in Seq(Nat) /\ Len(u) = e + 1 /\ u[e + 1] = text[n]
          /\ \A i \in 1..e : u[i] = js[i]
      BY <2>2, <3>4, <3>6
    <3> HIDE DEF u
    <3>8. \A i \in 1..(e + 1) : i = e + 1 \/ i \in 1..e
      OBVIOUS
    <3>9. \A i \in 1..Len(u) : u[i] = c[j + i]
      BY <2>2, <3>2, <3>6, <3>7, <3>8
    <3>10. 2 * Len(u) = n + 1
      BY <2>5, <3>7
    <3> QED BY <2>1, <3>5, <3>7, <3>9, <3>10 DEF u
  <2> QED BY <2>3, <2>4, <2>5
<1>6. f[m] \in Good[m]
  <2> HIDE DEF Good
  <2>1. m \in 0..m
    BY <1>1
  <2> QED BY <1>1, <1>4, <1>5, <2>1, LoopInvariant
<1>7. /\ f[m] \in Seq(Nat) /\ (2 * Len(f[m]) = m \/ 2 * Len(f[m]) = m + 1)
      /\ \A i \in 1..Len(f[m]) : f[m][i] = c[j + i]
  <2>1. m \in 0..m
    BY <1>1
  <2> QED BY <1>6, <2>1
<1>8. Len(f[m]) = h
  <2>1. Len(f[m]) \in Nat
    BY <1>7
  <2> QED BY <1>1, <1>7, <2>1 DEF m
<1> QED BY <1>3, <1>7, <1>8 DEF Says

LEMMA Joins ==
  ASSUME NEW a \in Seq(Nat), NEW b \in Seq(Nat)
  PROVE  /\ a \o b \in Seq(Nat) /\ Len(a \o b) = Len(a) + Len(b)
         /\ Len(a) \in Nat /\ Len(b) \in Nat
         /\ \A i \in 1..Len(a) : (a \o b)[i] = a[i]
         /\ \A i \in 1..Len(b) : (a \o b)[Len(a) + i] = b[i]
  BY ConcatProperties

LEMMA JoinsOfThree ==
  ASSUME NEW a \in Seq(Nat), NEW b \in Seq(Nat), NEW d \in Seq(Nat)
  PROVE  a \o (b \o d) = (a \o b) \o d
<1>1. (a \o b) \o d = a \o (b \o d)
  BY ConcatAssociative, SMTT(30)
<1> QED BY <1>1

\* What a read does: the lines that are whole are taken, the rest stays.
LEMMA ReadStream ==
  ASSUME NEW buf \in Seq(Nat), NEW wire \in Seq(Nat), NEW c, NEW j, Plain(c),
         Carries(buf \o wire, c, j), NEW k \in 1..Len(wire)
  PROVE  LET text == buf \o SubSeq(wire, 1, k)
             rest == SubSeq(wire, k + 1, Len(wire))
         IN  \E h \in 0..(Len(c) - j) :
               /\ Says(Lines(text), h, c, j)
               /\ Carries(Remainder(text) \o rest, c, j + h)
               /\ Remainder(text) \in Seq(Nat) /\ Len(Remainder(text)) <= 1
               /\ rest \in Seq(Nat)
<1> DEFINE s == buf \o wire
           got == SubSeq(wire, 1, k)
           rest == SubSeq(wire, k + 1, Len(wire))
           text == buf \o got
           t == Len(buf) + k
           m == Len(c) - j
<1>1. /\ Len(buf) \in Nat /\ Len(wire) \in Nat /\ k \in Nat /\ k >= 1 /\ k <= Len(wire)
      /\ j \in Nat /\ Len(c) \in Nat /\ m \in Nat /\ t \in Nat
  BY DEF Carries
<1>2. /\ s \in Seq(Nat) /\ Len(s) = Len(buf) + Len(wire)
      /\ \A i \in 1..Len(buf) : s[i] = buf[i]
      /\ \A i \in 1..Len(wire) : s[Len(buf) + i] = wire[i]
  BY Joins
<1>3. /\ got \in Seq(Nat) /\ Len(got) = k /\ \A i \in 1..k : got[i] = wire[i]
  <2>1. \A i \in 1..k : wire[i] \in Nat
    BY <1>1
  <2> QED BY <1>1, <2>1, SubSeqProperties
<1>4. /\ rest \in Seq(Nat) /\ Len(rest) = Len(wire) - k
      /\ \A i \in 1..(Len(wire) - k) : rest[i] = wire[k + i]
  <2>1. \A i \in (k + 1)..Len(wire) : wire[i] \in Nat
    BY <1>1
  <2>2. /\ rest \in Seq(Nat)
        /\ Len(rest) = IF k + 1 <= Len(wire) THEN Len(wire) - (k + 1) + 1 ELSE 0
        /\ \A i \in 1..(Len(wire) - (k + 1) + 1) : rest[i] = wire[(k + 1) + i - 1]
    BY <1>1, <2>1, SubSeqProperties
  <2>3. Len(rest) = Len(wire) - k
    BY <1>1, <2>2
  <2>4. \A i \in 1..(Len(wire) - k) : i \in 1..(Len(wire) - (k + 1) + 1) /\ (k + 1) + i - 1 = k + i
    BY <1>1
  <2> QED BY <2>2, <2>3, <2>4
<1> HIDE DEF got, rest
<1>5. /\ text \in Seq(Nat) /\ Len(text) = t
      /\ \A i \in 1..Len(buf) : text[i] = buf[i]
      /\ \A i \in 1..k : text[Len(buf) + i] = got[i]
  BY <1>3, Joins
<1>6. Carries(s, c, j)
  OBVIOUS
<1> HIDE DEF s, text
<1>7. \A i \in 1..t : text[i] = s[i]
  <2> SUFFICES ASSUME NEW i \in 1..t PROVE text[i] = s[i]
    OBVIOUS
  <2>1. CASE i <= Len(buf)
    <3>1. i \in 1..Len(buf)
      BY <1>1, <2>1
    <3> QED BY <1>2, <1>5, <3>1
  <2>2. CASE i > Len(buf)
    <3> DEFINE x == i - Len(buf)
    <3>1. x \in 1..k /\ x \in 1..Len(wire) /\ Len(buf) + x = i
      BY <1>1, <2>2
    <3> HIDE DEF x
    <3>2. text[Len(buf) + x] = wire[x] /\ s[Len(buf) + x] = wire[x]
      BY <1>2, <1>3, <1>5, <3>1
    <3> QED BY <3>1, <3>2
  <2> QED BY <1>1, <2>1, <2>2
<1>8. PICK h \in Nat : t = 2 * h \/ t = 2 * h + 1
  BY <1>1, Halves
<1>9. /\ t <= 2 * m /\ Len(s) = 2 * m /\ t <= Len(s)
      /\ h <= m /\ (t = 2 * h + 1 => h + 1 <= m)
  <2>1. Len(s) = 2 * m
    BY <1>6 DEF Carries
  <2>2. t <= Len(s)
    BY <1>1, <1>2
  <2> HIDE DEF m, t
  <2> QED BY <1>1, <1>8, <2>1, <2>2
<1>10. \A i \in 1..m : s[2 * i - 1] = c[j + i] /\ s[2 * i] = Newline
  BY <1>6 DEF Carries
<1> HIDE DEF m, t
<1>11. \A i \in 1..h : text[2 * i - 1] = c[j + i] /\ text[2 * i] = Newline
  <2> SUFFICES ASSUME NEW i \in 1..h
               PROVE  text[2 * i - 1] = c[j + i] /\ text[2 * i] = Newline
    OBVIOUS
  <2>1. i \in 1..m /\ 2 * i - 1 \in 1..t /\ 2 * i \in 1..t
    BY <1>1, <1>8, <1>9
  <2> QED BY <1>7, <1>10, <2>1
<1>12. t = 2 * h + 1 => text[2 * h + 1] # Newline
  <2> SUFFICES ASSUME t = 2 * h + 1 PROVE text[2 * h + 1] # Newline
    OBVIOUS
  <2>1. h + 1 \in 1..m /\ 2 * h + 1 \in 1..t /\ 2 * (h + 1) - 1 = 2 * h + 1
    BY <1>1, <1>8, <1>9
  <2>2. text[2 * h + 1] = c[j + (h + 1)]
    BY <1>7, <1>10, <2>1
  <2>3. j + (h + 1) \in 1..Len(c)
    BY <1>1, <2>1 DEF m
  <2> QED BY <2>2, <2>3 DEF Plain
<1>13. Holding(text, h, c, j)
  <2>1. j + h <= Len(c)
    BY <1>1, <1>8, <1>9 DEF m
  <2> QED BY <1>1, <1>5, <1>8, <1>11, <1>12, <2>1 DEF Holding
<1>14. Says(Lines(text), h, c, j)
  BY <1>13, SplitText
<1> DEFINE surplus == SubSeq(text, 2 * h + 1, t)
<1>15. Remainder(text) = surplus
  BY <1>5, <1>13, NewlineOf DEF Remainder
<1>16. /\ surplus \in Seq(Nat) /\ Len(surplus) = t - 2 * h
       /\ \A i \in 1..(t - 2 * h) : surplus[i] = text[2 * h + i]
  <2>1. \A i \in (2 * h + 1)..t : text[i] \in Nat
    BY <1>1, <1>5, <1>8
  <2>2. 2 * h + 1 \in Int /\ t \in Int
    BY <1>1, <1>8
  <2>3. /\ surplus \in Seq(Nat)
        /\ Len(surplus) = IF 2 * h + 1 <= t THEN t - (2 * h + 1) + 1 ELSE 0
        /\ \A i \in 1..(t - (2 * h + 1) + 1) : surplus[i] = text[(2 * h + 1) + i - 1]
    BY <2>1, <2>2, SubSeqProperties
  <2>4. Len(surplus) = t - 2 * h
    BY <1>1, <1>8, <2>3
  <2>5. \A i \in 1..(t - 2 * h) :
          i \in 1..(t - (2 * h + 1) + 1) /\ (2 * h + 1) + i - 1 = 2 * h + i
    BY <1>1, <1>8
  <2> QED BY <2>3, <2>4, <2>5
<1> HIDE DEF surplus
<1>17. /\ surplus \o rest \in Seq(Nat) /\ Len(surplus \o rest) = 2 * (m - h)
       /\ \A i \in 1..Len(surplus) : (surplus \o rest)[i] = surplus[i]
       /\ \A i \in 1..Len(rest) : (surplus \o rest)[Len(surplus) + i] = rest[i]
  <2>1. /\ surplus \o rest \in Seq(Nat) /\ Len(surplus \o rest) = Len(surplus) + Len(rest)
        /\ \A i \in 1..Len(surplus) : (surplus \o rest)[i] = surplus[i]
        /\ \A i \in 1..Len(rest) : (surplus \o rest)[Len(surplus) + i] = rest[i]
    BY <1>4, <1>16, Joins
  <2>2. Len(surplus) + Len(rest) = 2 * (m - h)
    <3>1. t = Len(buf) + k /\ Len(buf) + Len(wire) = 2 * m
      BY <1>2, <1>9 DEF t
    <3>2. Len(surplus) = t - 2 * h /\ Len(rest) = Len(wire) - k
      BY <1>4, <1>16
    <3> DEFINE x == Len(surplus)
               y == Len(rest)
               b == Len(buf)
               w == Len(wire)
    <3>3. /\ x = b + k - 2 * h /\ y = w - k /\ b + w = 2 * m
          /\ b \in Nat /\ w \in Nat /\ k \in Nat /\ m \in Nat /\ h \in Nat
      BY <1>1, <1>8, <3>1, <3>2
    <3> HIDE DEF x, y, b, w
    <3>4. x + y = 2 * (m - h)
      BY <3>3
    <3> QED BY <3>4 DEF x, y
  <2> QED BY <2>1, <2>2
<1>18. \A i \in 1..(2 * (m - h)) : (surplus \o rest)[i] = s[2 * h + i]
  <2> SUFFICES ASSUME NEW i \in 1..(2 * (m - h)) PROVE (surplus \o rest)[i] = s[2 * h + i]
    OBVIOUS
  <2>1. i \in Nat /\ i >= 1 /\ i <= 2 * (m - h)
    BY <1>1, <1>8, <1>9
  <2>2. CASE i <= t - 2 * h
    <3>1. i \in 1..(t - 2 * h) /\ i \in 1..Len(surplus) /\ 2 * h + i \in 1..t
      BY <1>1, <1>8, <1>16, <2>1, <2>2
    <3> QED BY <1>7, <1>16, <1>17, <3>1
  <2>3. CASE i > t - 2 * h
    <3> DEFINE x == i - (t - 2 * h)
    <3>1. /\ x \in 1..Len(rest) /\ Len(surplus) + x = i /\ x \in 1..(Len(wire) - k)
          /\ k + x \in 1..Len(wire) /\ Len(buf) + (k + x) = 2 * h + i
      <4>1. t = Len(buf) + k /\ Len(buf) + Len(wire) = 2 * m
        BY <1>2, <1>9 DEF t
      <4>2. x \in Nat /\ x >= 1 /\ t - 2 * h + x = i
        BY <1>1, <1>8, <2>1, <2>3
      <4>3. x <= Len(wire) - k
        BY <1>1, <1>8, <2>1, <4>1
      <4> HIDE DEF x
      <4>4. Len(surplus) + x = i /\ Len(rest) = Len(wire) - k
        BY <1>4, <1>16, <4>2
      <4>5. Len(buf) + (k + x) = 2 * h + i
        BY <1>1, <1>8, <4>1, <4>2
      <4> QED BY <1>1, <4>2, <4>3, <4>4, <4>5
    <3> HIDE DEF x
    <3>2. (surplus \o rest)[Len(surplus) + x] = wire[k + x]
      BY <1>4, <1>17, <3>1
    <3>3. s[Len(buf) + (k + x)] = wire[k + x]
      BY <1>2, <3>1
    <3> QED BY <3>1, <3>2, <3>3, Zenon
  <2>4. i <= t - 2 * h \/ i > t - 2 * h
    BY <1>1, <1>8, <2>1
  <2> QED BY <2>2, <2>3, <2>4
<1>19. Carries(surplus \o rest, c, j + h)
  <2>1. j + h \in 0..Len(c) /\ Len(c) - (j + h) = m - h
    BY <1>1, <1>8, <1>9 DEF m
  <2>2. ASSUME NEW i \in 1..(Len(c) - (j + h))
        PROVE  /\ (surplus \o rest)[2 * i - 1] = c[(j + h) + i]
               /\ (surplus \o rest)[2 * i] = Newline
    <3>1. /\ 2 * i - 1 \in 1..(2 * (m - h)) /\ 2 * i \in 1..(2 * (m - h))
          /\ h + i \in 1..m /\ 2 * h + (2 * i - 1) = 2 * (h + i) - 1
          /\ 2 * h + 2 * i = 2 * (h + i) /\ j + (h + i) = (j + h) + i
      <4>1. i \in 1..(m - h)
        BY <2>1
      <4> QED BY <1>1, <1>8, <1>9, <4>1
    <3>2. s[2 * (h + i) - 1] = c[j + (h + i)] /\ s[2 * (h + i)] = Newline
      BY <1>10, <3>1
    <3>3. /\ (surplus \o rest)[2 * i - 1] = s[2 * h + (2 * i - 1)]
          /\ (surplus \o rest)[2 * i] = s[2 * h + 2 * i]
      BY <1>18, <3>1
    <3> QED BY <3>1, <3>2, <3>3, Zenon
  <2>3. Len(surplus \o rest) = 2 * (Len(c) - (j + h))
    BY <1>17, <2>1
  <2>4. c \in Seq(Nat)
    BY <1>6 DEF Carries
  <2> DEFINE u == surplus \o rest
  <2>5. /\ u \in Seq(Nat) /\ Len(u) = 2 * (Len(c) - (j + h)) /\ j + h \in 0..Len(c)
        /\ \A i \in 1..(Len(c) - (j + h)) : u[2 * i - 1] = c[(j + h) + i] /\ u[2 * i] = Newline
    BY <1>17, <2>1, <2>2, <2>3
  <2> HIDE DEF u
  <2>6. Carries(u, c, j + h)
    BY <2>4, <2>5 DEF Carries
  <2> QED BY <2>6 DEF u
<1>20. h \in 0..m /\ Len(surplus) <= 1
  <2>1. m \in Nat /\ t \in Nat /\ h \in Nat /\ h <= m
    BY <1>1, <1>8, <1>9
  <2>2. Len(surplus) = t - 2 * h
    BY <1>16
  <2> DEFINE x == Len(surplus)
  <2>3. x = t - 2 * h
    BY <2>2
  <2> HIDE DEF x
  <2>4. x <= 1
    BY <1>8, <2>1, <2>3
  <2> QED BY <2>1, <2>4 DEF x
<1> QED BY <1>4, <1>14, <1>15, <1>16, <1>19, <1>20 DEF m, text, rest, got

\* What a write does.
LEMMA WriteStream ==
  ASSUME NEW buf \in Seq(Nat), NEW wire \in Seq(Nat), NEW c, NEW j, NEW x \in Nat,
         Carries(buf \o wire, c, j)
  PROVE  Carries(buf \o (wire \o Line(x)), Append(c, x), j) /\ wire \o Line(x) \in Seq(Nat)
<1> DEFINE s == buf \o wire
           line == Line(x)
           d == Append(c, x)
           m == Len(c) - j
<1>1. Newline \in Nat
  BY AssistantAssumption DEF Newline
<1>2. line \in Seq(Nat) /\ Len(line) = 2 /\ line[1] = x /\ line[2] = Newline
  BY <1>1 DEF Line
<1> HIDE DEF line
<1>3. wire \o line \in Seq(Nat) /\ buf \o (wire \o line) = s \o line
  <2>1. wire \o line \in Seq(Nat)
    BY <1>2, Joins
  <2>2. buf \o (wire \o line) = s \o line
    BY <1>2, JoinsOfThree
  <2> QED BY <2>1, <2>2
<1>4. Carries(s, c, j)
  OBVIOUS
<1> HIDE DEF s
<1>5. /\ s \in Seq(Nat) /\ c \in Seq(Nat) /\ j \in 0..Len(c) /\ Len(s) = 2 * m
      /\ \A i \in 1..m : s[2 * i - 1] = c[j + i] /\ s[2 * i] = Newline
  BY <1>4 DEF Carries
<1>6. /\ d \in Seq(Nat) /\ Len(d) = Len(c) + 1 /\ d[Len(c) + 1] = x
      /\ \A i \in 1..Len(c) : d[i] = c[i]
  BY <1>5, AppendProperties
<1>7. Len(c) \in Nat /\ j \in Nat /\ m \in Nat
  BY <1>5
<1> HIDE DEF d
<1>8. /\ s \o line \in Seq(Nat) /\ Len(s \o line) = 2 * m + 2
      /\ \A i \in 1..(2 * m) : (s \o line)[i] = s[i]
      /\ (s \o line)[2 * m + 1] = x /\ (s \o line)[2 * m + 2] = Newline
  <2>1. /\ s \o line \in Seq(Nat) /\ Len(s \o line) = Len(s) + Len(line)
        /\ \A i \in 1..Len(s) : (s \o line)[i] = s[i]
        /\ \A i \in 1..Len(line) : (s \o line)[Len(s) + i] = line[i]
    BY <1>2, <1>5, Joins
  <2>2. 1 \in 1..Len(line) /\ 2 \in 1..Len(line)
    BY <1>2
  <2> QED BY <1>2, <1>5, <2>1, <2>2
<1>9. j \in 0..Len(d) /\ Len(d) - j = m + 1 /\ 2 * (m + 1) = 2 * m + 2
  BY <1>5, <1>6, <1>7
<1>10. ASSUME NEW i \in 1..(m + 1)
       PROVE  (s \o line)[2 * i - 1] = d[j + i] /\ (s \o line)[2 * i] = Newline
  <2>1. CASE i = m + 1
    <3>1. j + i = Len(c) + 1 /\ 2 * i - 1 = 2 * m + 1 /\ 2 * i = 2 * m + 2
      BY <1>7, <2>1
    <3> QED BY <1>6, <1>8, <3>1
  <2>2. CASE i \in 1..m
    <3>1. 2 * i - 1 \in 1..(2 * m) /\ 2 * i \in 1..(2 * m) /\ j + i \in 1..Len(c)
      <4>1. j + i \in 1..Len(c)
        BY <1>7, <2>2
      <4> HIDE DEF m
      <4> QED BY <1>7, <2>2, <4>1
    <3> QED BY <1>5, <1>6, <1>8, <2>2, <3>1
  <2>3. i = m + 1 \/ i \in 1..m
    <3> HIDE DEF m
    <3> QED BY <1>7
  <2> QED BY <2>1, <2>2, <2>3
<1>11. Carries(s \o line, d, j)
  BY <1>6, <1>8, <1>9, <1>10 DEF Carries
<1> QED BY <1>3, <1>11 DEF d, line

\* A buffer and what has not been read carry the lines after the first j of c.
Stream(buf, wire, c, j) ==
  /\ buf \in Seq(Nat) /\ Len(buf) <= 1 /\ wire \in Seq(Nat)
  /\ Carries(buf \o wire, c, j)

LEMMA StreamRead ==
  ASSUME NEW buf, NEW wire, NEW c, NEW j, Plain(c), Stream(buf, wire, c, j),
         NEW k \in 1..Len(wire)
  PROVE  LET text == buf \o SubSeq(wire, 1, k) IN
         \E h \in 0..(Len(c) - j) :
            /\ Says(Lines(text), h, c, j)
            /\ Stream(Remainder(text), SubSeq(wire, k + 1, Len(wire)), c, j + h)
  BY ReadStream DEF Stream

LEMMA StreamWritten ==
  ASSUME NEW buf, NEW wire, NEW c, NEW j, NEW x \in Nat, Stream(buf, wire, c, j)
  PROVE  Stream(buf, wire \o Line(x), Append(c, x), j)
  BY WriteStream DEF Stream

\* A stream at its end has been read whole.
LEMMA StreamOver ==
  ASSUME NEW buf, NEW c, NEW j, Stream(buf, <<>>, c, j)
  PROVE  buf = <<>> /\ j = Len(c)
<1>1. buf \o <<>> = buf /\ buf \in Seq(Nat) /\ Len(buf) \in Nat /\ Len(buf) <= 1
  BY DEF Stream
<1>2. /\ c \in Seq(Nat) /\ Len(c) \in Nat /\ j \in 0..Len(c) /\ Len(buf) = 2 * (Len(c) - j)
  BY <1>1 DEF Stream, Carries
<1> DEFINE x == Len(buf)
           y == Len(c)
<1>3. x \in Nat /\ x <= 1 /\ y \in Nat /\ j \in 0..y /\ x = 2 * (y - j)
  BY <1>1, <1>2
<1> HIDE DEF x, y
<1>4. x = 0 /\ j = y
  BY <1>3
<1> QED BY <1>1, <1>4, EmptySeq DEF x, y

\* Nothing has been sent yet.
LEMMA StreamOfNothing == Stream(<<>>, <<>>, <<>>, 0)
<1>1. <<>> \in Seq(Nat) /\ Len(<<>>) = 0 /\ <<>> \o <<>> = <<>>
  OBVIOUS
<1> QED BY <1>1 DEF Stream, Carries

\* What the provider has said, and all it has sent.
Spoken(n) == [i \in 1..n |-> i]
AllIn(n, src) == IF src = "ended" THEN Append(Spoken(n), Done) ELSE Spoken(n)

LEMMA SpokenIs ==
  ASSUME NEW n \in 0..MaxDeltas
  PROVE  /\ Spoken(n) \in Seq(Nat) /\ Len(Spoken(n)) = n /\ Plain(Spoken(n))
         /\ \A i \in 1..n : Spoken(n)[i] = i
<1>1. n \in Nat /\ MaxDeltas \in Nat /\ n <= MaxDeltas
  BY AssistantAssumption
<1>2. Spoken(n) \in [1..n -> Nat]
  BY <1>1 DEF Spoken
<1>3. Spoken(n) \in Seq(Nat) /\ Len(Spoken(n)) = n
  BY <1>1, <1>2
<1>4. \A i \in 1..n : Spoken(n)[i] = i /\ i # Newline
  BY <1>1 DEF Spoken, Newline
<1> QED BY <1>3, <1>4 DEF Plain

LEMMA SpokenMore ==
  ASSUME NEW n \in Nat, n + 1 <= MaxDeltas
  PROVE  Append(Spoken(n), n + 1) = Spoken(n + 1)
<1>1. n \in 0..MaxDeltas /\ n + 1 \in 0..MaxDeltas
  BY AssistantAssumption
<1> DEFINE u == Append(Spoken(n), n + 1)
<1>2. /\ u \in Seq(Nat) /\ Len(u) = n + 1 /\ u[n + 1] = n + 1 /\ \A i \in 1..n : u[i] = i
  BY <1>1, SpokenIs, AppendProperties
<1>3. Spoken(n + 1) \in Seq(Nat) /\ Len(Spoken(n + 1)) = n + 1
      /\ \A i \in 1..(n + 1) : Spoken(n + 1)[i] = i
  BY <1>1, SpokenIs
<1>4. \A i \in 1..(n + 1) : i = n + 1 \/ i \in 1..n
  OBVIOUS
<1> HIDE DEF u
<1>5. \A i \in 1..Len(u) : u[i] = Spoken(n + 1)[i]
  BY <1>2, <1>3, <1>4
<1>6. u = Spoken(n + 1)
  BY <1>2, <1>3, <1>5, SeqEqual
<1> QED BY <1>6 DEF u

\* An answer of n deltas and one line more.
LEMMA TailIs ==
  ASSUME NEW n \in 0..MaxDeltas, NEW x \in {Done, Failed}
  PROVE  LET c == Append(Spoken(n), x) IN
         /\ c \in Seq(Nat) /\ Len(c) = n + 1 /\ Plain(c) /\ c[n + 1] = x
         /\ \A i \in 1..n : c[i] = i
<1> DEFINE c == Append(Spoken(n), x)
<1>1. x \in Nat /\ x # Newline /\ n \in Nat
  BY AssistantAssumption DEF Done, Failed, Newline
<1>2. /\ Spoken(n) \in Seq(Nat) /\ Len(Spoken(n)) = n /\ \A i \in 1..n : Spoken(n)[i] = i
  BY SpokenIs
<1>3. /\ c \in Seq(Nat) /\ Len(c) = n + 1 /\ c[n + 1] = x /\ \A i \in 1..n : c[i] = i
  BY <1>1, <1>2, AppendProperties
<1>4. \A i \in 1..n : i # Newline
  BY AssistantAssumption DEF Newline
<1>5. \A i \in 1..(n + 1) : i = n + 1 \/ i \in 1..n
  BY <1>1
<1>6. Plain(c)
  <2> HIDE DEF c
  <2> QED BY <1>1, <1>3, <1>4, <1>5 DEF Plain
<1> QED BY <1>3, <1>6

Least(m, n) == IF m <= n THEN m ELSE n

LEMMA AllInIs ==
  ASSUME NEW n \in 0..MaxDeltas, NEW src
  PROVE  /\ AllIn(n, src) \in Seq(Nat) /\ Plain(AllIn(n, src))
         /\ Len(AllIn(n, src)) = IF src = "ended" THEN n + 1 ELSE n
         /\ \A i \in 1..n : AllIn(n, src)[i] = i
         /\ src = "ended" => AllIn(n, src)[n + 1] = Done
  BY SpokenIs, TailIs DEF AllIn

\* The loop of the handler.
RelayLoop(f, wire, lines, m) ==
  [n \in 0..m |-> IF n = 0 THEN wire
                  ELSE IF IsDelta(lines[n]) THEN f[n - 1] \o Line(lines[n]) ELSE f[n - 1]]

LEMMA RelayIsDefined ==
  ASSUME NEW wire \in Seq(Nat), NEW lines \in Seq(Nat)
  PROVE  \E f : /\ Relayed(wire, lines) = f[Len(lines)] /\ f[0] = wire
                /\ \A n \in 1..Len(lines) :
                      f[n] = IF IsDelta(lines[n]) THEN f[n - 1] \o Line(lines[n])
                             ELSE f[n - 1]
<1> DEFINE m == Len(lines)
           S == Seq(Nat)
           after(n, js) == IF n \in DOMAIN lines /\ IsDelta(lines[n])
                           THEN js \o Line(lines[n]) ELSE js
           step == [a \in Nat \X S |-> after(a[1], a[2])]
           F == CHOOSE f : f = RelayLoop(f, wire, lines, m)
<1>1. m \in Nat /\ DOMAIN lines = 1..m /\ \A n \in 1..m : n \in DOMAIN lines
  OBVIOUS
<1>2. \A n \in Nat, js \in S : after(n, js) \in S
  <2> SUFFICES ASSUME NEW n \in DOMAIN lines, NEW js \in S PROVE js \o Line(lines[n]) \in S
    OBVIOUS
  <2>1. Newline \in Nat /\ lines[n] \in Nat
    BY AssistantAssumption DEF Newline
  <2>2. Line(lines[n]) \in Seq(Nat)
    BY <2>1 DEF Line
  <2> QED BY <2>2, ConcatProperties
<1>3. step \in [Nat \X S -> S]
  <2> HIDE DEF after
  <2>1. \A a \in Nat \X S : after(a[1], a[2]) \in S
    BY <1>2
  <2> HIDE DEF S
  <2> QED BY <2>1
<1>4. PICK f \in [0..m -> S] : Loop(f, m, wire, step)
  <2> HIDE DEF step
  <2> QED BY <1>1, <1>3, LoopIsDefined
<1>5. f = RelayLoop(f, wire, lines, m)
  <2>1. ASSUME NEW n \in 1..m
        PROVE  f[n] = IF IsDelta(lines[n]) THEN f[n - 1] \o Line(lines[n]) ELSE f[n - 1]
    <3>1. n \in Nat /\ n - 1 \in 0..m /\ n \in DOMAIN lines
      BY <1>1
    <3>2. f[n - 1] \in S
      BY <1>4, <3>1
    <3>3. step[<<n, f[n - 1]>>] = after(n, f[n - 1])
      <4> HIDE DEF after, S
      <4> QED BY <3>1, <3>2
    <3>4. f[n] = after(n, f[n - 1])
      <4> HIDE DEF after, S, step
      <4> QED BY <1>4, <3>3 DEF Loop
    <3> QED BY <3>1, <3>4
  <2>2. f = [n \in 0..m |-> f[n]]
    BY <1>4
  <2>3. \A n \in 0..m : n = 0 \/ n \in 1..m
    BY <1>1
  <2>4. f[0] = wire
    BY <1>4 DEF Loop
  <2> QED BY <2>1, <2>2, <2>3, <2>4 DEF RelayLoop
<1>6. F = RelayLoop(F, wire, lines, m)
  BY <1>5
<1>7. Relayed(wire, lines) = F[m]
  <2>1. Relayed(wire, lines)
          = (CHOOSE g : g = RelayLoop(g, wire, lines, Len(lines)))[Len(lines)]
    BY DEF Relayed, RelayLoop
  <2> QED BY <2>1
<1> HIDE DEF F
<1>8. ASSUME NEW n \in 1..m
      PROVE  F[n] = IF IsDelta(lines[n]) THEN F[n - 1] \o Line(lines[n]) ELSE F[n - 1]
  <2>1. n \in 0..m /\ n # 0
    BY <1>1
  <2>2. RelayLoop(F, wire, lines, m)[n]
          = IF IsDelta(lines[n]) THEN F[n - 1] \o Line(lines[n]) ELSE F[n - 1]
    BY <2>1 DEF RelayLoop
  <2> QED BY <1>6, <2>2
<1>9. F[0] = wire
  <2>1. RelayLoop(F, wire, lines, m)[0] = wire
    BY <1>1 DEF RelayLoop
  <2> QED BY <1>6, <2>1
<1> QED BY <1>7, <1>8, <1>9

\* The handler passes on the deltas it has read and nothing else.
LEMMA StreamRelayed ==
  ASSUME NEW buf, NEW wire, NEW n \in 0..MaxDeltas, NEW src, NEW r, NEW h, NEW lines, NEW j,
         r \in Nat, h \in Nat, r + h <= Len(AllIn(n, src)),
         Says(lines, h, AllIn(n, src), r), Stream(buf, wire, Spoken(Least(r, n)), j)
  PROVE  Stream(buf, Relayed(wire, lines), Spoken(Least(r + h, n)), j)
<1> DEFINE c == AllIn(n, src)
<1>1. /\ c \in Seq(Nat) /\ Len(c) = (IF src = "ended" THEN n + 1 ELSE n)
      /\ \A i \in 1..n : c[i] = i
      /\ src = "ended" => c[n + 1] = Done
  BY AllInIs
<1>2. /\ lines \in Seq(Nat) /\ Len(lines) = h /\ (\A i \in 1..h : lines[i] = c[r + i])
      /\ wire \in Seq(Nat) /\ n \in Nat /\ n <= MaxDeltas /\ MaxDeltas \in Nat
  BY AssistantAssumption DEF Says, Stream
<1> HIDE DEF c
<1>3. PICK f : /\ Relayed(wire, lines) = f[h] /\ f[0] = wire
               /\ \A m \in 1..h : f[m] = IF IsDelta(lines[m]) THEN f[m - 1] \o Line(lines[m])
                                         ELSE f[m - 1]
  <2>1. h = Len(lines) /\ lines \in Seq(Nat) /\ wire \in Seq(Nat)
    BY <1>2
  <2>2. \E f : /\ Relayed(wire, lines) = f[Len(lines)] /\ f[0] = wire
                /\ \A m \in 1..Len(lines) :
                      f[m] = IF IsDelta(lines[m]) THEN f[m - 1] \o Line(lines[m])
                             ELSE f[m - 1]
    BY <2>1, RelayIsDefined
  <2> QED BY <2>1, <2>2
<1> DEFINE Good == [m \in 0..h |-> {w \in Seq(Nat) : Stream(buf, w, Spoken(Least(r + m, n)), j)}]
<1>4. f[0] \in Good[0]
  <2>1. r + 0 = r /\ 0 \in 0..h
    OBVIOUS
  <2> QED BY <1>2, <1>3, <2>1
<1>5. ASSUME NEW m \in 1..h, f[m - 1] \in Good[m - 1] PROVE f[m] \in Good[m]
  <2>1. m - 1 \in 0..h /\ m \in 0..h /\ m \in Nat /\ r + m \in Nat /\ r + (m - 1) \in Nat
        /\ r + (m - 1) + 1 = r + m
    OBVIOUS
  <2>2. f[m - 1] \in Seq(Nat) /\ Stream(buf, f[m - 1], Spoken(Least(r + (m - 1), n)), j)
    BY <1>5, <2>1
  <2>3. lines[m] = c[r + m] /\ r + m <= Len(c)
    BY <1>2 DEF c
  <2>4. CASE r + m <= n
    <3>1. r + m \in 1..n /\ Least(r + (m - 1), n) = r + (m - 1) /\ Least(r + m, n) = r + m
      BY <1>2, <2>1, <2>4 DEF Least
    <3>2. lines[m] = r + m
      BY <1>1, <2>3, <3>1
    <3>3. r + m \in 1..MaxDeltas
      BY <1>2, <3>1
    <3>4. IsDelta(lines[m])
      BY <3>2, <3>3 DEF IsDelta
    <3>5. f[m] = f[m - 1] \o Line(r + m)
      <4>1. f[m] = IF IsDelta(lines[m]) THEN f[m - 1] \o Line(lines[m]) ELSE f[m - 1]
        BY <1>3
      <4> QED BY <3>2, <3>4, <4>1
    <3>6. Append(Spoken(r + (m - 1)), r + m) = Spoken(r + m)
      <4>1. r + m <= MaxDeltas
        BY <3>3
      <4> DEFINE e == r + (m - 1)
      <4>2. e \in Nat /\ e + 1 = r + m /\ e + 1 <= MaxDeltas
        BY <2>1, <4>1
      <4> HIDE DEF e
      <4>3. Append(Spoken(e), e + 1) = Spoken(e + 1)
        BY <4>2, SpokenMore
      <4>4. Append(Spoken(e), r + m) = Spoken(r + m)
        BY <4>2, <4>3
      <4> QED BY <4>4 DEF e
    <3>7. Stream(buf, f[m], Spoken(r + m), j)
      BY <2>1, <2>2, <3>1, <3>5, <3>6, StreamWritten
    <3>8. f[m] \in Seq(Nat) /\ Stream(buf, f[m], Spoken(Least(r + m, n)), j)
      BY <3>1, <3>7 DEF Stream
    <3> QED BY <2>1, <3>8
  <2>5. CASE r + m > n
    <3>1. src = "ended" /\ r + m = n + 1
      BY <1>1, <1>2, <2>1, <2>3, <2>5
    <3>2. Least(r + (m - 1), n) = n /\ Least(r + m, n) = n
      <4>1. n \in Nat /\ r + (m - 1) = n
        BY <1>2, <2>1, <3>1
      <4> QED BY <3>1, <4>1 DEF Least
    <3>3. ~IsDelta(lines[m])
      BY <1>1, <1>2, <2>3, <3>1 DEF IsDelta, Done
    <3>4. f[m] = f[m - 1]
      BY <1>3, <3>3
    <3> QED BY <2>1, <2>2, <3>2, <3>4
  <2> QED BY <1>2, <2>1, <2>4, <2>5
<1>6. f[h] \in Good[h]
  <2> HIDE DEF Good
  <2>1. h \in 0..h
    OBVIOUS
  <2> QED BY <1>4, <1>5, <2>1, LoopInvariant
<1>7. h \in 0..h
  OBVIOUS
<1> QED BY <1>3, <1>6, <1>7

-----------------------------------------------------------------------------
\* The answers on the dashboard's screen.
Bubbles == [of : Prompts, text : Seq(Prompts \X Nat), streaming : BOOLEAN]
Shown(q, n) == [i \in 1..n |-> <<q, i>>]
Error(q) == <<<<q, Failed>>>>

LEMMA ShownIs ==
  ASSUME NEW q \in Prompts, NEW n \in Nat
  PROVE  /\ Shown(q, n) \in Seq(Prompts \X Nat) /\ Len(Shown(q, n)) = n
         /\ \A i \in 1..n : Shown(q, n)[i] = <<q, i>>
         /\ Append(Shown(q, n), <<q, n + 1>>) = Shown(q, n + 1)
<1>1. \A m \in Nat : /\ Shown(q, m) \in Seq(Prompts \X Nat) /\ Len(Shown(q, m)) = m
                     /\ \A i \in 1..m : Shown(q, m)[i] = <<q, i>>
  <2> SUFFICES ASSUME NEW m \in Nat
               PROVE  /\ Shown(q, m) \in Seq(Prompts \X Nat) /\ Len(Shown(q, m)) = m
                      /\ \A i \in 1..m : Shown(q, m)[i] = <<q, i>>
    OBVIOUS
  <2>1. Shown(q, m) \in [1..m -> Prompts \X Nat]
    BY DEF Shown
  <2>2. \A i \in 1..m : Shown(q, m)[i] = <<q, i>>
    BY DEF Shown
  <2> QED BY <2>1, <2>2
<1> DEFINE u == Append(Shown(q, n), <<q, n + 1>>)
           v == Shown(q, n + 1)
<1>2. <<q, n + 1>> \in Prompts \X Nat
  OBVIOUS
<1>3. /\ u \in Seq(Prompts \X Nat) /\ Len(u) = n + 1 /\ u[n + 1] = <<q, n + 1>>
      /\ \A i \in 1..n : u[i] = Shown(q, n)[i]
  <2> DEFINE P == Prompts \X Nat
             t == Shown(q, n)
             x == <<q, n + 1>>
  <2>1. t \in Seq(P) /\ Len(t) = n /\ x \in P
    BY <1>1, <1>2
  <2> HIDE DEF P, t, x
  <2>2. /\ Append(t, x) \in Seq(P) /\ Len(Append(t, x)) = n + 1 /\ Append(t, x)[n + 1] = x
        /\ \A i \in 1..n : Append(t, x)[i] = t[i]
    BY <2>1, AppendProperties
  <2> QED BY <2>2 DEF P, t, x
<1>4. /\ v \in Seq(Prompts \X Nat) /\ Len(v) = n + 1 /\ \A i \in 1..(n + 1) : v[i] = <<q, i>>
  <2>1. n + 1 \in Nat
    OBVIOUS
  <2> QED BY <1>1, <2>1
<1>5. \A i \in 1..(n + 1) : i = n + 1 \/ i \in 1..n
  OBVIOUS
<1>6. u = v
  <2> HIDE DEF u, v
  <2>1. \A i \in 1..(n + 1) : u[i] = v[i]
    BY <1>1, <1>3, <1>4, <1>5
  <2> QED BY <1>3, <1>4, <2>1, SeqEqual
<1> QED BY <1>1, <1>6

\* What a line does to the last answer.
LineShown(text, q, c) ==
  IF IsDelta(c) THEN Append(text, <<q, c>>) ELSE IF c = Failed THEN Error(q) ELSE text

LEMMA ShowLineIs ==
  ASSUME NEW q \in Prompts, NEW u \in Seq(Bubbles), NEW c \in Nat
  PROVE  LET v == ShowLine("dashboard", u, q, c) IN
         /\ v \in Seq(Bubbles) /\ Len(v) = Len(u)
         /\ \A k \in 1..Len(u) : k # Len(u) => v[k] = u[k]
         /\ u # <<>> => /\ v[Len(u)].of = u[Len(u)].of
                        /\ v[Len(u)].text = LineShown(u[Len(u)].text, q, c)
<1> DEFINE v == ShowLine("dashboard", u, q, c)
           i == Len(u)
           b == u[i]
           w(t, s) == [u EXCEPT ![i].text = t, ![i].streaming = s]
<1>1. i \in Nat /\ Target("dashboard", u) = i
  BY DEF Target
<1>2. CASE i = 0
  <2>1. u = <<>> /\ v = u
    BY <1>1, <1>2, EmptySeq DEF ShowLine
  <2> QED BY <2>1
<1>3. CASE i > 0
  <2>1. i \in 1..Len(u) /\ b \in Bubbles /\ u # <<>>
    BY <1>1, <1>3
  <2>2. b.text \in Seq(Prompts \X Nat) /\ b.streaming \in BOOLEAN /\ <<q, c>> \in Prompts \X Nat
        /\ b.of \in Prompts /\ Error(q) \in Seq(Prompts \X Nat)
    <3>1. Failed \in Nat
      BY AssistantAssumption DEF Failed
    <3> QED BY <2>1, <3>1 DEF Bubbles, Error
  <2>3. LineShown(b.text, q, c) \in Seq(Prompts \X Nat)
    BY <2>2 DEF LineShown
  <2> DEFINE dl == [u EXCEPT ![i].text = Append(@, <<q, c>>)]
             er == [u EXCEPT ![i].text = Error(q), ![i].streaming = FALSE]
             ot == [u EXCEPT ![i].streaming = @]
  <2>4. v = CASE i = 0 -> u [] i > 0 /\ IsDelta(c) -> dl [] i > 0 /\ c = Failed -> er
              [] OTHER -> ot
    BY <1>1 DEF ShowLine, Error
  <2>5. v = IF IsDelta(c) THEN dl ELSE IF c = Failed THEN er ELSE ot
    <3> HIDE DEF v, dl, er, ot
    <3>1. IsDelta(c) => c # Failed
      BY AssistantAssumption DEF IsDelta, Failed
    <3> QED BY <1>1, <1>3, <2>4, <3>1 DEF IsDelta
  <2>6. \E s \in BOOLEAN : v = w(LineShown(b.text, q, c), s)
    <3>1. CASE IsDelta(c)
      <4>1. v = [u EXCEPT ![i].text = Append(@, <<q, c>>)]
        BY <2>5, <3>1
      <4>2. v = w(LineShown(b.text, q, c), b.streaming)
        BY <2>1, <2>2, <3>1, <4>1 DEF LineShown, Bubbles
      <4> QED BY <2>2, <4>2
    <3>2. CASE ~IsDelta(c) /\ c = Failed
      <4>1. v = [u EXCEPT ![i].text = Error(q), ![i].streaming = FALSE]
        BY <2>5, <3>2
      <4>2. LineShown(b.text, q, c) = Error(q)
        BY <3>2 DEF LineShown
      <4> QED BY <4>1, <4>2
    <3>3. CASE ~IsDelta(c) /\ c # Failed
      <4>1. v = [u EXCEPT ![i].streaming = @]
        BY <2>5, <3>3
      <4>2. v = w(LineShown(b.text, q, c), b.streaming)
        BY <2>1, <2>2, <3>3, <4>1 DEF LineShown, Bubbles
      <4> QED BY <2>2, <4>2
    <3> QED BY <3>1, <3>2, <3>3
  <2>7. PICK s \in BOOLEAN : v = w(LineShown(b.text, q, c), s)
    BY <2>6
  <2> DEFINE t == LineShown(b.text, q, c)
             d == [b EXCEPT !.text = t, !.streaming = s]
  <2>8. d \in Bubbles /\ d.of = b.of /\ d.text = t
    <3> HIDE DEF t
    <3> QED BY <2>1, <2>3, <2>7 DEF Bubbles, t
  <2>9. v = [u EXCEPT ![i] = d]
    BY <2>1, <2>7
  <2> HIDE DEF d, v, t, w
  <2>10. v \in Seq(Bubbles) /\ Len(v) = Len(u) /\ v[i] = d /\ \A k \in 1..Len(u) : k # i => v[k] = u[k]
    BY <2>1, <2>8, <2>9
  <2> QED BY <2>8, <2>10 DEF v, t
<1> QED BY <1>1, <1>2, <1>3

\* The loop over the lines of a read.
ShowLoop(f, screen, q, lines, m) ==
  [n \in 0..m |-> IF n = 0 THEN screen ELSE ShowLine("dashboard", f[n - 1], q, lines[n])]

\* f is the screen after each of the lines.
Shows(f, screen, q, lines) ==
  /\ ShowLines("dashboard", screen, q, lines) = f[Len(lines)] /\ f[0] = screen
  /\ \A n \in 1..Len(lines) : f[n] = ShowLine("dashboard", f[n - 1], q, lines[n])

LEMMA ShowIsDefined ==
  ASSUME NEW q \in Prompts, NEW screen \in Seq(Bubbles), NEW lines \in Seq(Nat)
  PROVE  \E f : Shows(f, screen, q, lines)
<1> DEFINE m == Len(lines)
           S == Seq(Bubbles)
           after(n, js) == IF n \in DOMAIN lines THEN ShowLine("dashboard", js, q, lines[n]) ELSE js
           step == [a \in Nat \X S |-> after(a[1], a[2])]
           F == CHOOSE f : f = ShowLoop(f, screen, q, lines, m)
<1>1. m \in Nat /\ DOMAIN lines = 1..m /\ \A n \in 1..m : n \in DOMAIN lines
  OBVIOUS
<1>2. \A n \in Nat, js \in S : after(n, js) \in S
  <2> SUFFICES ASSUME NEW n \in DOMAIN lines, NEW js \in S
               PROVE  ShowLine("dashboard", js, q, lines[n]) \in S
    OBVIOUS
  <2>1. lines[n] \in Nat
    OBVIOUS
  <2> QED BY <2>1, ShowLineIs
<1>3. step \in [Nat \X S -> S]
  <2> HIDE DEF after
  <2>1. \A a \in Nat \X S : after(a[1], a[2]) \in S
    BY <1>2
  <2> HIDE DEF S
  <2> QED BY <2>1
<1>4. PICK f \in [0..m -> S] : Loop(f, m, screen, step)
  <2> HIDE DEF step
  <2> QED BY <1>1, <1>3, LoopIsDefined
<1>5. f = ShowLoop(f, screen, q, lines, m)
  <2>1. ASSUME NEW n \in 1..m PROVE f[n] = ShowLine("dashboard", f[n - 1], q, lines[n])
    <3>1. n \in Nat /\ n - 1 \in 0..m /\ n \in DOMAIN lines
      BY <1>1
    <3>2. f[n - 1] \in S
      BY <1>4, <3>1
    <3>3. step[<<n, f[n - 1]>>] = after(n, f[n - 1])
      <4> HIDE DEF after, S
      <4> QED BY <3>1, <3>2
    <3>4. f[n] = after(n, f[n - 1])
      <4> HIDE DEF after, S, step
      <4> QED BY <1>4, <3>3 DEF Loop
    <3> QED BY <3>1, <3>4
  <2>2. f = [n \in 0..m |-> f[n]]
    BY <1>4
  <2>3. \A n \in 0..m : n = 0 \/ n \in 1..m
    BY <1>1
  <2>4. f[0] = screen
    BY <1>4 DEF Loop
  <2> QED BY <2>1, <2>2, <2>3, <2>4 DEF ShowLoop
<1>6. F = ShowLoop(F, screen, q, lines, m)
  BY <1>5
<1>7. ShowLines("dashboard", screen, q, lines) = F[m]
  <2>1. ShowLines("dashboard", screen, q, lines)
          = (CHOOSE g : g = ShowLoop(g, screen, q, lines, Len(lines)))[Len(lines)]
    BY DEF ShowLines, ShowLoop
  <2> QED BY <2>1
<1> HIDE DEF F
<1>8. ASSUME NEW n \in 1..m PROVE F[n] = ShowLine("dashboard", F[n - 1], q, lines[n])
  <2>1. n \in 0..m /\ n # 0
    BY <1>1
  <2>2. ShowLoop(F, screen, q, lines, m)[n] = ShowLine("dashboard", F[n - 1], q, lines[n])
    BY <2>1 DEF ShowLoop
  <2> QED BY <1>6, <2>2
<1>9. F[0] = screen
  <2>1. ShowLoop(F, screen, q, lines, m)[0] = screen
    BY <1>1 DEF ShowLoop
  <2> QED BY <1>6, <2>1
<1> QED BY <1>7, <1>8, <1>9 DEF Shows

LEMMA ShowNothing ==
  ASSUME NEW q \in Prompts, NEW screen \in Seq(Bubbles)
  PROVE  ShowLines("dashboard", screen, q, <<>>) = screen
<1> PICK none : none = <<>>
  OBVIOUS
<1>1. none \in Seq(Nat) /\ Len(none) = 0
  OBVIOUS
<1>2. PICK f : Shows(f, screen, q, none)
  BY <1>1, ShowIsDefined
<1> QED BY <1>1, <1>2 DEF Shows

\* c is e deltas and perhaps a last line; n of its lines show text.
AnswerLines(c, e) ==
  /\ c \in Seq(Nat) /\ e \in 0..MaxDeltas
  /\ Len(c) = e \/ (Len(c) = e + 1 /\ c[e + 1] \in {Done, Failed})
  /\ \A i \in 1..e : c[i] = i
TextAt(q, c, e, n) == IF n > e /\ c[n] = Failed THEN Error(q) ELSE Shown(q, Least(n, e))

\* Only the last answer has changed, and it shows text.
Pictured(u, screen, text) ==
  /\ u \in Seq(Bubbles) /\ Len(u) = Len(screen)
  /\ \A k \in 1..Len(screen) : k # Len(screen) => u[k] = screen[k]
  /\ u[Len(screen)].of = screen[Len(screen)].of /\ u[Len(screen)].text = text

\* Where the nth of the h that follow the first j is.
LEMMA PlaceOfNth ==
  ASSUME NEW j \in Nat, NEW h \in Nat, NEW len \in Nat, j + h <= len, NEW n \in 1..h
  PROVE  /\ n - 1 \in 0..h /\ n \in 0..h /\ j + n \in Nat /\ j + n >= 1
         /\ j + (n - 1) = (j + n) - 1 /\ j + n <= len
<1>1. n \in Nat /\ n >= 1 /\ n <= h
  OBVIOUS
<1> QED BY <1>1

LEMMA AnswerGrows ==
  ASSUME NEW q \in Prompts, NEW screen \in Seq(Bubbles), screen # <<>>,
         NEW c, NEW e, NEW j \in Nat, NEW h \in Nat, NEW lines,
         AnswerLines(c, e), j + h <= Len(c), Says(lines, h, c, j),
         screen[Len(screen)].text = TextAt(q, c, e, j)
  PROVE  Pictured(ShowLines("dashboard", screen, q, lines), screen, TextAt(q, c, e, j + h))
<1>1. /\ lines \in Seq(Nat) /\ Len(lines) = h /\ \A i \in 1..h : lines[i] = c[j + i]
      /\ c \in Seq(Nat) /\ e \in Nat /\ e <= MaxDeltas /\ MaxDeltas \in Nat /\ Len(c) \in Nat
  BY AssistantAssumption DEF Says, AnswerLines
<1>2. PICK f : /\ ShowLines("dashboard", screen, q, lines) = f[Len(lines)] /\ f[0] = screen
               /\ \A n \in 1..Len(lines) : f[n] = ShowLine("dashboard", f[n - 1], q, lines[n])
  <2>1. \E f : Shows(f, screen, q, lines)
    BY <1>1, ShowIsDefined
  <2> QED BY <2>1 DEF Shows
<1> DEFINE Good == [n \in 0..h |-> {u \in Seq(Bubbles) : Pictured(u, screen, TextAt(q, c, e, j + n))}]
<1>3. f[0] \in Good[0]
  <2>1. j + 0 = j /\ 0 \in 0..h
    OBVIOUS
  <2>2. Pictured(screen, screen, TextAt(q, c, e, j))
    BY DEF Pictured
  <2> QED BY <1>2, <2>1, <2>2
<1>4. ASSUME NEW n \in 1..h, f[n - 1] \in Good[n - 1] PROVE f[n] \in Good[n]
  <2> DEFINE u == f[n - 1]
             v == f[n]
             i == Len(screen)
             x == j + n
  <2>1. n - 1 \in 0..h /\ n \in 0..h /\ x \in Nat /\ x >= 1 /\ j + (n - 1) = x - 1 /\ x <= Len(c)
    <3>1. Len(c) \in Nat
      BY <1>1
    <3> HIDE DEF Good, u, v, i
    <3> QED BY <3>1, PlaceOfNth
  <2>2. u \in Seq(Bubbles) /\ Pictured(u, screen, TextAt(q, c, e, x - 1))
    BY <1>4, <2>1
  <2>3. v = ShowLine("dashboard", u, q, c[x]) /\ c[x] \in Nat
    <3>1. lines[n] = c[x] /\ n \in 1..Len(lines)
      BY <1>1
    <3>2. v = ShowLine("dashboard", u, q, lines[n])
      BY <1>2, <3>1
    <3>3. x \in 1..Len(c)
      BY <1>1, <2>1
    <3>4. c[x] \in Nat
      BY <1>1, <3>3, ElementOfSeq
    <3> QED BY <3>1, <3>2, <3>4
  <2>4. i \in Nat /\ i >= 1 /\ i \in 1..i /\ Len(u) = i /\ u # <<>>
        /\ u[i].text = TextAt(q, c, e, x - 1) /\ u[i].of = screen[i].of
    <3>1. i \in Nat /\ i # 0
      BY EmptySeq
    <3>2. Len(u) = i
      BY <2>2 DEF Pictured
    <3> HIDE DEF u
    <3>3. u # <<>>
      BY <3>1, <3>2
    <3> QED BY <2>2, <3>1, <3>2, <3>3 DEF Pictured
  <2> HIDE DEF u, v, x
  <2>5. /\ v \in Seq(Bubbles) /\ Len(v) = i /\ \A k \in 1..i : k # i => v[k] = u[k]
        /\ v[i].of = u[i].of /\ v[i].text = LineShown(u[i].text, q, c[x])
    BY <2>2, <2>3, <2>4, ShowLineIs
  <2>6. LineShown(u[i].text, q, c[x]) = TextAt(q, c, e, x)
    <3>1. CASE x <= e
      <4>1. x \in 1..e /\ c[x] = x
        BY <1>1, <2>1, <3>1 DEF AnswerLines
      <4>2. IsDelta(c[x])
        BY <1>1, <4>1 DEF IsDelta
      <4>3. TextAt(q, c, e, x - 1) = Shown(q, x - 1) /\ TextAt(q, c, e, x) = Shown(q, x)
        BY <1>1, <2>1, <3>1 DEF TextAt, Least
      <4> DEFINE y == x - 1
      <4>4. y \in Nat /\ y + 1 = x
        BY <2>1
      <4> HIDE DEF y
      <4>5. Append(Shown(q, y), <<q, y + 1>>) = Shown(q, y + 1)
        BY <4>4, ShownIs
      <4>6. Append(Shown(q, x - 1), <<q, x>>) = Shown(q, x)
        BY <4>4, <4>5 DEF y
      <4> QED BY <2>4, <4>1, <4>2, <4>3, <4>6 DEF LineShown
    <3>2. CASE x > e
      <4>1. x = e + 1 /\ c[x] \in {Done, Failed}
        <5>1. Len(c) = e \/ (Len(c) = e + 1 /\ c[e + 1] \in {Done, Failed})
          BY DEF AnswerLines
        <5>2. e \in Nat /\ x \in Nat /\ x <= Len(c)
          BY <1>1, <2>1
        <5>3. x = e + 1
          BY <3>2, <5>1, <5>2
        <5> QED BY <3>2, <5>1, <5>2, <5>3
      <4>2. ~IsDelta(c[x]) /\ Done # Failed
        <5>1. ~IsDelta(Done) /\ ~IsDelta(Failed) /\ Done # Failed
          BY AssistantAssumption DEF IsDelta, Done, Failed
        <5> QED BY <4>1, <5>1
      <4>3. TextAt(q, c, e, x - 1) = Shown(q, e)
        BY <1>1, <2>1, <4>1 DEF TextAt, Least
      <4>4. TextAt(q, c, e, x) = IF c[x] = Failed THEN Error(q) ELSE Shown(q, e)
        BY <1>1, <2>1, <4>1 DEF TextAt, Least
      <4> QED BY <2>4, <4>2, <4>3, <4>4 DEF LineShown
    <3> QED BY <1>1, <2>1, <3>1, <3>2
  <2>7. \A k \in 1..i : k # i => v[k] = screen[k]
    BY <2>2, <2>5 DEF Pictured
  <2>8. Pictured(v, screen, TextAt(q, c, e, x))
    BY <2>4, <2>5, <2>6, <2>7 DEF Pictured
  <2> QED BY <2>1, <2>5, <2>8 DEF v, x
<1>5. f[h] \in Good[h]
  <2> HIDE DEF Good
  <2>1. h \in 0..h
    OBVIOUS
  <2> QED BY <1>3, <1>4, <2>1, LoopInvariant
<1>6. h \in 0..h
  OBVIOUS
<1> QED BY <1>1, <1>2, <1>5, <1>6

-----------------------------------------------------------------------------
\* What is on its way to a dashboard's bubble that shows len deltas.
Answering(sv, n, src, ib, iw, ob, ow, len) ==
  /\ len \in 0..n /\ sv # "hung"
  /\ sv \in {"waiting", "streaming"} =>
        \E r \in Nat : /\ Stream(ib, iw, AllIn(n, src), r) /\ r <= Len(AllIn(n, src))
                       /\ Stream(ob, ow, Spoken(Least(r, n)), len)
  /\ sv = "ended" =>
        \E e \in 0..n, x \in {Done, Failed}, j \in Nat :
           /\ Stream(ob, ow, Append(Spoken(e), x), j) /\ j <= e + 1 /\ len = Least(j, e)
           /\ x = Done => e = n /\ src = "ended"
           /\ x = Failed => j <= e

\* What a read of k symbols gives, and what it leaves.
Got(buf, wire, k) == buf \o SubSeq(wire, 1, k)
Unread(wire, k) == SubSeq(wire, k + 1, Len(wire))

LEMMA ReadingProvider ==
  ASSUME NEW sv, NEW n \in 0..MaxDeltas, NEW src, NEW ib, NEW iw, NEW ob, NEW ow, NEW len,
         sv \in {"waiting", "streaming"}, Answering(sv, n, src, ib, iw, ob, ow, len),
         NEW k \in 1..Len(iw)
  PROVE  Answering(sv, n, src, Remainder(Got(ib, iw, k)), Unread(iw, k), ob,
                   Relayed(ow, Lines(Got(ib, iw, k))), len)
<1> DEFINE c == AllIn(n, src)
           text == Got(ib, iw, k)
           rest == Unread(iw, k)
<1>1. PICK r \in Nat : /\ Stream(ib, iw, c, r) /\ r <= Len(c)
                       /\ Stream(ob, ow, Spoken(Least(r, n)), len)
  BY DEF Answering
<1>2. Plain(c) /\ Len(c) \in Nat
  BY AllInIs
<1>3. PICK h \in 0..(Len(c) - r) : Says(Lines(text), h, c, r) /\ Stream(Remainder(text), rest, c, r + h)
  <2> HIDE DEF c
  <2> QED BY <1>1, <1>2, StreamRead DEF Got, Unread
<1>4. h \in Nat /\ r + h \in Nat /\ r + h <= Len(c)
  <2> HIDE DEF c
  <2> QED BY <1>1, <1>2, <1>3
<1>5. Stream(ob, Relayed(ow, Lines(text)), Spoken(Least(r + h, n)), len)
  <2> QED BY <1>1, <1>3, <1>4, StreamRelayed
<1>6. len \in 0..n
  BY DEF Answering
<1> HIDE DEF c, text, rest
<1>7. \E g \in Nat : /\ Stream(Remainder(text), rest, c, g) /\ g <= Len(c)
                     /\ Stream(ob, Relayed(ow, Lines(text)), Spoken(Least(g, n)), len)
  BY <1>3, <1>4, <1>5
<1> QED BY <1>6, <1>7 DEF Answering, c, text, rest

LEMMA Finishing ==
  ASSUME NEW sv, NEW n \in 0..MaxDeltas, NEW ib, NEW ob, NEW ow, NEW len,
         sv \in {"waiting", "streaming"}, Answering(sv, n, "ended", ib, <<>>, ob, ow, len)
  PROVE  Answering("ended", n, "ended", <<>>, <<>>, ob, ow \o Line(Done), len)
<1>1. PICK r \in Nat : /\ Stream(ib, <<>>, AllIn(n, "ended"), r)
                       /\ Stream(ob, ow, Spoken(Least(r, n)), len)
  BY DEF Answering
<1>2. r = n + 1 /\ Least(r, n) = n
  <2>1. r = n + 1
    BY <1>1, StreamOver, AllInIs
  <2> QED BY <2>1 DEF Least
<1>3. Done \in Nat /\ n \in 0..n /\ len \in 0..n
  BY AssistantAssumption DEF Done, Answering
<1>4. Stream(ob, ow \o Line(Done), Append(Spoken(n), Done), len)
  BY <1>1, <1>2, <1>3, StreamWritten
<1>5. Least(len, n) = len /\ len <= n + 1 /\ len \in Nat
  BY <1>3 DEF Least
<1>6. Done # Failed
  BY AssistantAssumption DEF Done, Failed
<1> QED BY <1>3, <1>4, <1>5, <1>6 DEF Answering

LEMMA Breaking ==
  ASSUME NEW sv, NEW n \in 0..MaxDeltas, NEW src, NEW ib, NEW iw, NEW ob, NEW ow, NEW len,
         sv \in {"waiting", "streaming"}, Answering(sv, n, src, ib, iw, ob, ow, len)
  PROVE  Answering("ended", n, src, <<>>, <<>>, ob, ow \o Line(Failed), len)
<1>1. PICK r \in Nat : Stream(ob, ow, Spoken(Least(r, n)), len)
  BY DEF Answering
<1> DEFINE e == Least(r, n)
<1>2. e \in 0..n /\ e \in 0..MaxDeltas
  BY AssistantAssumption DEF Least
<1> HIDE DEF e
<1>3. Failed \in Nat /\ len \in 0..n /\ Failed # Done
  BY AssistantAssumption DEF Failed, Done, Answering
<1>4. Stream(ob, ow \o Line(Failed), Append(Spoken(e), Failed), len)
  BY <1>1, <1>3, StreamWritten DEF e
<1>5. len \in 0..Len(Spoken(e))
  BY <1>1 DEF Stream, Carries, e
<1>6. len \in Nat /\ len <= e
  BY <1>2, <1>5, SpokenIs
<1>7. Least(len, e) = len /\ len <= e + 1
  BY <1>2, <1>6 DEF Least
<1> QED BY <1>2, <1>3, <1>4, <1>6, <1>7 DEF Answering

LEMMA Speaking ==
  ASSUME NEW sv, NEW n \in 0..MaxDeltas, NEW ib, NEW iw, NEW ob, NEW ow, NEW len,
         sv \in {"waiting", "streaming"}, n < MaxDeltas,
         Answering(sv, n, "open", ib, iw, ob, ow, len)
  PROVE  Answering(sv, n + 1, "open", ib, iw \o Line(n + 1), ob, ow, len)
<1>1. PICK r \in Nat : /\ Stream(ib, iw, AllIn(n, "open"), r) /\ r <= Len(AllIn(n, "open"))
                       /\ Stream(ob, ow, Spoken(Least(r, n)), len)
  BY DEF Answering
<1>2. n \in Nat /\ n + 1 \in Nat /\ n + 1 <= MaxDeltas /\ n + 1 \in 0..MaxDeltas
  BY AssistantAssumption
<1>3. AllIn(n, "open") = Spoken(n) /\ AllIn(n + 1, "open") = Spoken(n + 1)
  BY DEF AllIn
<1>4. Stream(ib, iw \o Line(n + 1), Spoken(n + 1), r)
  <2>1. Stream(ib, iw \o Line(n + 1), Append(Spoken(n), n + 1), r)
    BY <1>1, <1>2, <1>3, StreamWritten
  <2> QED BY <1>2, <2>1, SpokenMore
<1>5. r <= n /\ Len(Spoken(n + 1)) = n + 1
  BY <1>1, <1>2, <1>3, SpokenIs
<1>6. Least(r, n + 1) = Least(r, n) /\ r <= n + 1
  BY <1>2, <1>5 DEF Least
<1>7. len \in 0..(n + 1)
  BY <1>2 DEF Answering
<1>8. sv # "hung" /\ sv # "ended"
  OBVIOUS
<1> QED BY <1>1, <1>3, <1>4, <1>5, <1>6, <1>7, <1>8 DEF Answering

LEMMA Ending ==
  ASSUME NEW sv, NEW n \in 0..MaxDeltas, NEW ib, NEW iw, NEW ob, NEW ow, NEW len,
         sv \in {"waiting", "streaming"}, Answering(sv, n, "open", ib, iw, ob, ow, len)
  PROVE  Answering(sv, n, "ended", ib, iw \o Line(Done), ob, ow, len)
<1>1. PICK r \in Nat : /\ Stream(ib, iw, AllIn(n, "open"), r) /\ r <= Len(AllIn(n, "open"))
                       /\ Stream(ob, ow, Spoken(Least(r, n)), len)
  BY DEF Answering
<1>2. AllIn(n, "open") = Spoken(n) /\ AllIn(n, "ended") = Append(Spoken(n), Done)
  BY DEF AllIn
<1>3. Done \in Nat /\ n \in Nat
  BY AssistantAssumption DEF Done
<1>4. Stream(ib, iw \o Line(Done), AllIn(n, "ended"), r)
  BY <1>1, <1>2, <1>3, StreamWritten
<1>5. r <= n /\ Len(AllIn(n, "ended")) = n + 1
  BY <1>1, <1>2, SpokenIs, AllInIs
<1>6. r <= Len(AllIn(n, "ended"))
  BY <1>3, <1>5
<1>7. len \in 0..n /\ sv # "hung" /\ sv # "ended"
  BY DEF Answering
<1> QED BY <1>1, <1>4, <1>6, <1>7 DEF Answering

LEMMA Failing ==
  ASSUME NEW sv, NEW n \in 0..MaxDeltas, NEW ib, NEW iw, NEW ob, NEW ow, NEW len,
         sv \in {"waiting", "streaming"}, Answering(sv, n, "open", ib, iw, ob, ow, len)
  PROVE  Answering(sv, n, "broken", ib, iw, ob, ow, len)
<1>1. AllIn(n, "open") = Spoken(n) /\ AllIn(n, "broken") = Spoken(n)
  BY DEF AllIn
<1>2. sv # "ended"
  OBVIOUS
<1> QED BY <1>1, <1>2 DEF Answering

\* The answer that is asked for is empty and nothing has been sent of it.
LEMMA Starting ==
  ASSUME NEW sv \in {"no", "waiting", "streaming", "refused", "gone"}
  PROVE  Answering(sv, 0, "open", <<>>, <<>>, <<>>, <<>>, 0)
<1>1. 0 \in 0..MaxDeltas /\ Least(0, 0) = 0 /\ AllIn(0, "open") = Spoken(0)
  BY AssistantAssumption DEF Least, AllIn
<1>2. Spoken(0) = <<>>
  <2>1. Spoken(0) \in Seq(Nat) /\ Len(Spoken(0)) = 0
    BY <1>1, SpokenIs
  <2> QED BY <2>1, EmptySeq
<1>3. Stream(<<>>, <<>>, Spoken(0), 0) /\ 0 <= Len(Spoken(0))
  BY <1>2, StreamOfNothing
<1> QED BY <1>1, <1>3 DEF Answering

\* What a read of the response shows.
LEMMA ReadingLines ==
  ASSUME NEW q \in Prompts, NEW screen \in Seq(Bubbles), screen # <<>>,
         NEW c, NEW e, NEW j \in Nat, NEW ob, NEW ow, NEW k \in 1..Len(ow),
         AnswerLines(c, e), Stream(ob, ow, c, j), j > e => c[j] # Failed,
         screen[Len(screen)].text = TextAt(q, c, e, j)
  PROVE  LET text  == ob \o SubSeq(ow, 1, k)
             lines == Lines(text)
         IN  \E g \in Nat :
               /\ g <= Len(c) /\ Stream(Remainder(text), SubSeq(ow, k + 1, Len(ow)), c, g)
               /\ Pictured(ShowLines("dashboard", screen, q, lines), screen, TextAt(q, c, e, g))
               /\ Failed \in ToSet(lines) <=> (g > e /\ c[g] = Failed)
<1> DEFINE text == ob \o SubSeq(ow, 1, k)
           lines == Lines(text)
           rest == SubSeq(ow, k + 1, Len(ow))
<1>1. /\ c \in Seq(Nat) /\ Len(c) \in Nat /\ e \in Nat /\ e <= MaxDeltas /\ MaxDeltas \in Nat
      /\ (Len(c) = e \/ (Len(c) = e + 1 /\ c[e + 1] \in {Done, Failed}))
      /\ \A i \in 1..e : c[i] = i
  BY AssistantAssumption DEF AnswerLines
<1>2. Plain(c)
  <2> SUFFICES ASSUME NEW i \in 1..Len(c) PROVE c[i] # Newline
    BY <1>1 DEF Plain
  <2>1. CASE i \in 1..e
    BY <1>1, <2>1 DEF Newline
  <2>2. CASE i = e + 1 /\ Len(c) = e + 1
    BY <1>1, <2>2 DEF Newline, Done, Failed
  <2> QED BY <1>1, <2>1, <2>2
<1>3. PICK h \in 0..(Len(c) - j) : Says(lines, h, c, j) /\ Stream(Remainder(text), rest, c, j + h)
  BY <1>2, StreamRead
<1> HIDE DEF text, lines, rest
<1>4. h \in Nat /\ j + h \in Nat /\ j + h <= Len(c)
  BY <1>1, <1>3
<1>5. Pictured(ShowLines("dashboard", screen, q, lines), screen, TextAt(q, c, e, j + h))
  BY <1>3, <1>4, AnswerGrows
<1>6. lines \in Seq(Nat) /\ Len(lines) = h /\ \A i \in 1..h : lines[i] = c[j + i]
  BY <1>3 DEF Says
<1>7. ASSUME Failed \in ToSet(lines) PROVE j + h > e /\ c[j + h] = Failed
  <2>1. PICK i \in 1..h : c[j + i] = Failed
    <3>1. PICK i \in DOMAIN lines : lines[i] = Failed
      BY <1>7 DEF ToSet
    <3>2. i \in 1..h
      BY <1>6
    <3> QED BY <1>6, <3>1, <3>2
  <2>2. ~(j + i <= e)
    <3> SUFFICES ASSUME j + i <= e PROVE FALSE
      OBVIOUS
    <3>1. j + i \in 1..e
      BY <1>1, <1>4
    <3> QED BY <1>1, <2>1, <3>1 DEF Failed
  <2>3. i = h /\ j + h > e
    BY <1>1, <1>4, <2>2
  <2> QED BY <2>1, <2>3
<1>8. ASSUME j + h > e, c[j + h] = Failed PROVE Failed \in ToSet(lines)
  <2>1. h # 0
    BY <1>4, <1>8
  <2>2. h \in 1..h
    BY <1>4, <2>1
  <2>3. lines[h] = Failed /\ h \in DOMAIN lines
    BY <1>6, <1>8, <2>2
  <2> QED BY <2>3 DEF ToSet
<1>9. \E g \in Nat :
        /\ g <= Len(c) /\ Stream(Remainder(text), rest, c, g)
        /\ Pictured(ShowLines("dashboard", screen, q, lines), screen, TextAt(q, c, e, g))
        /\ Failed \in ToSet(lines) <=> (g > e /\ c[g] = Failed)
  BY <1>3, <1>4, <1>5, <1>7, <1>8
<1> QED BY <1>9 DEF text, lines, rest

\* A read of the response, k symbols of it: an error line ends the answer, other
\* lines make it longer.
AnswerIsRead(q, screen, sv, n, src, ib, iw, ob, ow, k) ==
  LET lines == Lines(Got(ob, ow, k))
      now   == ShowLines("dashboard", screen, q, lines)
  IN  IF Failed \in ToSet(lines) THEN sv = "ended" /\ Pictured(now, screen, Error(q))
      ELSE \E l \in Nat :
             /\ Pictured(now, screen, Shown(q, l))
             /\ Answering(sv, n, src, ib, iw, Remainder(Got(ob, ow, k)), Unread(ow, k), l)

LEMMA ReadingAnswer ==
  ASSUME NEW q \in Prompts, NEW screen \in Seq(Bubbles), screen # <<>>,
         NEW sv \in {"streaming", "ended"}, NEW n \in 0..MaxDeltas, NEW src, NEW ib, NEW iw,
         NEW ob, NEW ow, NEW len, Answering(sv, n, src, ib, iw, ob, ow, len),
         NEW k \in 1..Len(ow), screen[Len(screen)].text = Shown(q, len)
  PROVE  AnswerIsRead(q, screen, sv, n, src, ib, iw, ob, ow, k)
<1> DEFINE text == Got(ob, ow, k)
           lines == Lines(text)
           rest == Unread(ow, k)
           now == ShowLines("dashboard", screen, q, lines)
<1>1. n \in Nat /\ MaxDeltas \in Nat /\ n <= MaxDeltas /\ len \in 0..n
  BY AssistantAssumption DEF Answering
<1>2. CASE sv = "streaming"
  <2>1. PICK r \in Nat : /\ Stream(ib, iw, AllIn(n, src), r) /\ r <= Len(AllIn(n, src))
                         /\ Stream(ob, ow, Spoken(Least(r, n)), len)
    BY <1>2 DEF Answering
  <2> DEFINE e == Least(r, n)
             c == Spoken(e)
  <2>2. e \in 0..n /\ e \in 0..MaxDeltas /\ e \in Nat
    BY <1>1 DEF Least
  <2> HIDE DEF e
  <2>3. AnswerLines(c, e) /\ Len(c) = e
    BY <2>2, SpokenIs DEF AnswerLines
  <2>4. Stream(ob, ow, c, len)
    BY <2>1 DEF e
  <2>5. len \in 0..e
    BY <2>3, <2>4 DEF Stream, Carries
  <2>6. TextAt(q, c, e, len) = Shown(q, len) /\ len \in Nat /\ ~(len > e)
    BY <1>1, <2>2, <2>5 DEF TextAt, Least
  <2> HIDE DEF c
  <2>7. PICK g \in Nat : /\ g <= Len(c) /\ Stream(Remainder(text), rest, c, g)
                         /\ Pictured(now, screen, TextAt(q, c, e, g))
                         /\ Failed \in ToSet(lines) <=> (g > e /\ c[g] = Failed)
    BY <2>3, <2>4, <2>6, ReadingLines DEF Got, Unread
  <2> HIDE DEF AnswerIsRead, text, lines, rest, now
  <2>8. g <= e /\ Failed \notin ToSet(lines) /\ TextAt(q, c, e, g) = Shown(q, g)
    BY <2>2, <2>3, <2>7 DEF TextAt, Least
  <2>9. g \in 0..n /\ sv # "ended"
    BY <1>1, <1>2, <2>2, <2>8
  <2>10. Answering(sv, n, src, ib, iw, Remainder(text), rest, g)
    BY <2>1, <2>7, <2>9 DEF Answering, e, c
  <2> QED BY <2>7, <2>8, <2>10 DEF AnswerIsRead, text, lines, rest, now
<1>3. CASE sv = "ended"
  <2>1. PICK e \in 0..n, x \in {Done, Failed}, j \in Nat :
           /\ Stream(ob, ow, Append(Spoken(e), x), j) /\ j <= e + 1 /\ len = Least(j, e)
           /\ x = Done => e = n /\ src = "ended"
           /\ x = Failed => j <= e
    BY <1>3 DEF Answering
  <2> DEFINE c == Append(Spoken(e), x)
  <2>2. e \in 0..MaxDeltas /\ e \in Nat /\ Done # Failed
    BY <1>1 DEF Done, Failed
  <2>3. AnswerLines(c, e) /\ Len(c) = e + 1 /\ c[e + 1] = x
    BY <2>2, TailIs DEF AnswerLines
  <2> HIDE DEF c
  <2>4. Stream(ob, ow, c, j)
    BY <2>1 DEF c
  <2>5. j > e => c[j] # Failed
    <3> SUFFICES ASSUME j > e PROVE c[j] # Failed
      OBVIOUS
    <3>1. j = e + 1
      BY <2>1, <2>2
    <3>2. x = Done
      BY <2>1, <2>2
    <3> QED BY <2>2, <2>3, <3>1, <3>2
  <2>6. TextAt(q, c, e, j) = Shown(q, len)
    BY <2>1, <2>5 DEF TextAt
  <2>7. PICK g \in Nat : /\ g <= Len(c) /\ Stream(Remainder(text), rest, c, g)
                         /\ Pictured(now, screen, TextAt(q, c, e, g))
                         /\ Failed \in ToSet(lines) <=> (g > e /\ c[g] = Failed)
    BY <2>3, <2>4, <2>5, <2>6, ReadingLines DEF Got, Unread
  <2> HIDE DEF AnswerIsRead, text, lines, rest, now
  <2>8. CASE Failed \in ToSet(lines)
    <3>1. TextAt(q, c, e, g) = Error(q)
      BY <2>7, <2>8 DEF TextAt
    <3> QED BY <1>3, <2>7, <2>8, <3>1 DEF AnswerIsRead, text, lines, rest, now
  <2>9. CASE Failed \notin ToSet(lines)
    <3>1. TextAt(q, c, e, g) = Shown(q, Least(g, e))
      BY <2>7, <2>9 DEF TextAt
    <3>2. g <= e + 1
      BY <2>3, <2>7
    <3>3. x = Failed => g <= e
      <4> SUFFICES ASSUME x = Failed, ~(g <= e) PROVE FALSE
        OBVIOUS
      <4>1. g = e + 1
        BY <2>2, <3>2
      <4> QED BY <2>2, <2>3, <2>7, <2>9, <4>1
    <3>4. Least(g, e) \in 0..n /\ Least(g, e) \in Nat
      BY <1>1, <2>2 DEF Least
    <3> DEFINE l == Least(g, e)
    <3>5. Stream(Remainder(text), rest, Append(Spoken(e), x), g)
      BY <2>7 DEF c
    <3>6. /\ sv = "ended" /\ l \in 0..n
          /\ \E e2 \in 0..n, x2 \in {Done, Failed}, j2 \in Nat :
               /\ Stream(Remainder(text), rest, Append(Spoken(e2), x2), j2) /\ j2 <= e2 + 1
               /\ l = Least(j2, e2)
               /\ x2 = Done => e2 = n /\ src = "ended"
               /\ x2 = Failed => j2 <= e2
      BY <1>3, <2>1, <3>2, <3>3, <3>4, <3>5
    <3>7. Answering(sv, n, src, ib, iw, Remainder(text), rest, l)
      <4> HIDE DEF l
      <4> QED BY <3>6 DEF Answering
    <3> QED BY <2>7, <2>9, <3>1, <3>4, <3>7 DEF AnswerIsRead, text, lines, rest, now
  <2> QED BY <2>8, <2>9
<1> QED BY <1>2, <1>3

\* A response that is read to its end is whole.
LEMMA AnswerRead ==
  ASSUME NEW n \in 0..MaxDeltas, NEW src, NEW ib, NEW iw, NEW ob, NEW len,
         Answering("ended", n, src, ib, iw, ob, <<>>, len)
  PROVE  ob = <<>> /\ src = "ended" /\ len = n
<1>1. PICK e \in 0..n, x \in {Done, Failed}, j \in Nat :
           /\ Stream(ob, <<>>, Append(Spoken(e), x), j) /\ j <= e + 1 /\ len = Least(j, e)
           /\ x = Done => e = n /\ src = "ended"
           /\ x = Failed => j <= e
  BY DEF Answering
<1>2. e \in 0..MaxDeltas /\ e \in Nat /\ Done # Failed
  BY AssistantAssumption DEF Done, Failed
<1>3. ob = <<>> /\ j = e + 1
  BY <1>1, <1>2, StreamOver, TailIs
<1>4. x = Done
  BY <1>1, <1>2, <1>3
<1> QED BY <1>1, <1>2, <1>3, <1>4 DEF Least

-----------------------------------------------------------------------------
\* Every question's part of the state, and the invariant.
Dash == bubbles["dashboard"]
Over == {"refused", "gone", "ended"}

ChatTypeOK ==
  /\ asked \in [Prompts -> Doors \union {"no"}]
  /\ served \in [Prompts -> {"no", "waiting", "streaming", "hung"} \union Over]
  /\ said \in [Prompts -> 0..MaxDeltas]
  /\ source \in [Prompts -> {"open", "ended", "broken"}]
  /\ DOMAIN inWire = Prompts /\ DOMAIN inBuffer = Prompts
  /\ DOMAIN outWire = Prompts /\ DOMAIN outBuffer = Prompts
  /\ DOMAIN bubbles = Doors /\ bubbles["dashboard"] \in Seq(Bubbles)
  /\ pending \in BOOLEAN /\ settled \subseteq Prompts

Flow(q, len) ==
  Answering(served[q], said[q], source[q], inBuffer[q], inWire[q], outBuffer[q], outWire[q], len)

Fresh(q) ==
  /\ said[q] = 0 /\ source[q] = "open" /\ inBuffer[q] = <<>> /\ inWire[q] = <<>>
  /\ outBuffer[q] = <<>> /\ outWire[q] = <<>>

\* A bubble shows a beginning of its answer; once settled the whole or an error.
BubbleOK(b) ==
  /\ b.of \in Prompts /\ asked[b.of] = "dashboard"
  /\ IF b.of \in settled
     THEN \/ b.text = Error(b.of)
          \/ source[b.of] = "ended" /\ b.text = Shown(b.of, said[b.of])
     ELSE \E len \in Nat : b.text = Shown(b.of, len) /\ Flow(b.of, len)

QuestionOK(q) ==
  /\ asked[q] = "no" => served[q] = "no"
  /\ served[q] = "no" => Fresh(q)
  /\ q \in settled => served[q] \in Over
  /\ asked[q] = "dashboard" /\ q \notin settled =>
        pending /\ Dash # <<>> /\ Dash[Len(Dash)].of = q

ChatInv ==
  /\ ChatTypeOK
  /\ \A q \in Prompts : QuestionOK(q)
  /\ \A i, k \in 1..Len(Dash) : i # k => Dash[i].of # Dash[k].of
  /\ \A i \in 1..Len(Dash) : BubbleOK(Dash[i])

Same(q) ==
  /\ served'[q] = served[q] /\ said'[q] = said[q] /\ source'[q] = source[q]
  /\ inBuffer'[q] = inBuffer[q] /\ inWire'[q] = inWire[q]
  /\ outBuffer'[q] = outBuffer[q] /\ outWire'[q] = outWire[q]

\* A step that leaves the dashboard's screen alone.
LEMMA ChatQuiet ==
  ASSUME ChatInv, ChatTypeOK', asked' = asked, pending' = pending,
         bubbles'["dashboard"] = bubbles["dashboard"],
         \A q \in Prompts : asked[q] = "dashboard" => (q \in settled' <=> q \in settled),
         \A q \in settled' : served'[q] \in Over,
         \A q \in Prompts :
            \/ Same(q)
            \/ /\ asked[q] # "no" /\ served'[q] # "no"
               /\ q \in settled => said'[q] = said[q] /\ source'[q] = source[q]
               /\ asked[q] = "dashboard" /\ q \notin settled =>
                     \A len : Flow(q, len) => Flow(q, len)'
  PROVE  ChatInv'
<1>1. ASSUME NEW q \in Prompts PROVE QuestionOK(q)'
  <2>1. QuestionOK(q)
    BY DEF ChatInv
  <2>2. (asked[q] = "no" => served[q] = "no")'
    BY <2>1 DEF QuestionOK, Same
  <2>3. (served[q] = "no" => Fresh(q))'
    <3>1. CASE Same(q)
      BY <2>1, <3>1 DEF QuestionOK, Same, Fresh
    <3>2. CASE served'[q] # "no"
      BY <3>2
    <3> QED BY <3>1, <3>2
  <2>4. (q \in settled => served[q] \in Over)'
    BY DEF Over
  <2>5. (asked[q] = "dashboard" /\ q \notin settled => pending /\ Dash # <<>> /\ Dash[Len(Dash)].of = q)'
    BY <2>1 DEF QuestionOK, Dash
  <2> QED BY <2>2, <2>3, <2>4, <2>5 DEF QuestionOK
<1>2. ASSUME NEW i \in 1..Len(Dash) PROVE BubbleOK(Dash[i])'
  <2> PICK b : b = Dash[i]
    OBVIOUS
  <2> PICK q : q = b.of
    OBVIOUS
  <2>1. BubbleOK(b)
    BY DEF ChatInv
  <2>2. (Dash[i])' = b
    BY DEF Dash
  <2>3. q \in Prompts /\ asked[q] = "dashboard"
    BY <2>1 DEF BubbleOK
  <2>4. CASE q \in settled
    <3>1. said'[q] = said[q] /\ source'[q] = source[q] /\ q \in settled'
      BY <2>3, <2>4 DEF Same
    <3>2. BubbleOK(b)'
      BY <2>1, <2>2, <2>3, <2>4, <3>1 DEF BubbleOK
    <3> QED BY <2>2, <3>2
  <2>5. CASE q \notin settled
    <3>1. PICK len \in Nat : b.text = Shown(q, len) /\ Flow(q, len)
      BY <2>1, <2>5 DEF BubbleOK
    <3>2. Flow(q, len)'
      <4>1. CASE Same(q)
        BY <3>1, <4>1 DEF Same, Flow
      <4> QED BY <2>3, <2>5, <3>1, <4>1
    <3>3. q \notin settled'
      BY <2>3, <2>5
    <3>4. b.text = Shown(q, len)
      BY <3>1
    <3> QED BY <2>2, <2>3, <3>2, <3>3, <3>4 DEF BubbleOK
  <2> QED BY <2>4, <2>5
<1>3. Dash' = Dash
  BY DEF Dash
<1>4. (\A i, k \in 1..Len(Dash) : i # k => Dash[i].of # Dash[k].of)'
  BY <1>3 DEF ChatInv
<1>5. (\A i \in 1..Len(Dash) : BubbleOK(Dash[i]))'
  BY <1>2, <1>3
<1> QED BY <1>1, <1>4, <1>5 DEF ChatInv

\* A step that writes to the last answer of the dashboard, q's.
LEMMA ChatShows ==
  ASSUME ChatInv, ChatTypeOK', asked' = asked, NEW q \in Prompts, NEW text,
         asked[q] = "dashboard", q \notin settled, served[q] # "no",
         served' = served, said' = said, source' = source, inBuffer' = inBuffer, inWire' = inWire,
         \A p \in Prompts : p # q => outBuffer'[p] = outBuffer[p] /\ outWire'[p] = outWire[p],
         Pictured(bubbles'["dashboard"], bubbles["dashboard"], text),
         \/ /\ settled' = settled /\ pending' = pending
            /\ \E len \in Nat : text = Shown(q, len) /\ Flow(q, len)'
         \/ /\ settled' = settled \union {q} /\ served[q] \in Over
            /\ text = Error(q) \/ (source[q] = "ended" /\ text = Shown(q, said[q]))
  PROVE  ChatInv'
<1>1. /\ Dash \in Seq(Bubbles) /\ Len(Dash) \in Nat /\ Dash # <<>> /\ Dash[Len(Dash)].of = q
      /\ \A i, k \in 1..Len(Dash) : i # k => Dash[i].of # Dash[k].of
      /\ pending = TRUE /\ Len(Dash) \in 1..Len(Dash)
  <2>1. QuestionOK(q) /\ Dash \in Seq(Bubbles)
    BY DEF ChatInv, ChatTypeOK, Dash
  <2>2. Dash # <<>> /\ Dash[Len(Dash)].of = q /\ pending
    BY <2>1 DEF QuestionOK
  <2>3. pending \in BOOLEAN
    BY DEF ChatInv, ChatTypeOK
  <2>4. Len(Dash) \in Nat /\ Len(Dash) # 0
    BY <2>1, <2>2, EmptySeq
  <2> QED BY <2>1, <2>2, <2>3, <2>4 DEF ChatInv
<1>2. /\ Dash' \in Seq(Bubbles) /\ Len(Dash') = Len(Dash) /\ Dash' # <<>>
      /\ \A k \in 1..Len(Dash) : k # Len(Dash) => Dash'[k] = Dash[k]
      /\ Dash'[Len(Dash)].of = q /\ Dash'[Len(Dash)].text = text
  <2>1. /\ Dash' \in Seq(Bubbles) /\ Len(Dash') = Len(Dash)
        /\ \A k \in 1..Len(Dash) : k # Len(Dash) => Dash'[k] = Dash[k]
        /\ Dash'[Len(Dash)].of = Dash[Len(Dash)].of /\ Dash'[Len(Dash)].text = text
    BY DEF Pictured, Dash
  <2>2. Len(Dash') # 0
    BY <1>1, <2>1
  <2>3. Dash' # <<>>
    BY <2>2
  <2> QED BY <1>1, <2>1, <2>3
<1>3. ASSUME NEW p \in Prompts PROVE QuestionOK(p)'
  <2>1. QuestionOK(p)
    BY DEF ChatInv
  <2>2. (asked[p] = "no" => served[p] = "no")'
    BY <2>1 DEF QuestionOK
  <2>3. (served[p] = "no" => Fresh(p))'
    BY <2>1 DEF QuestionOK, Fresh
  <2>4. (p \in settled => served[p] \in Over)'
    BY <2>1 DEF QuestionOK, Over
  <2>5. (asked[p] = "dashboard" /\ p \notin settled => pending /\ Dash # <<>> /\ Dash[Len(Dash)].of = p)'
    <3> SUFFICES ASSUME asked[p] = "dashboard", p \notin settled'
                 PROVE  pending' /\ Dash' # <<>> /\ Dash'[Len(Dash')].of = p
      BY Zenon
    <3>1. p \notin settled
      OBVIOUS
    <3>2. p = q
      BY <1>1, <2>1, <3>1 DEF QuestionOK
    <3>3. settled' = settled /\ pending' = pending
      BY <3>2
    <3> QED BY <1>1, <1>2, <3>2, <3>3
  <2> QED BY <2>2, <2>3, <2>4, <2>5 DEF QuestionOK
<1>4. \A i \in 1..Len(Dash) : Dash'[i].of = Dash[i].of
  BY <1>1, <1>2
<1>5. (\A i, k \in 1..Len(Dash) : i # k => Dash[i].of # Dash[k].of)'
  BY <1>1, <1>2, <1>4
<1>6. ASSUME NEW i \in 1..Len(Dash), i # Len(Dash) PROVE BubbleOK(Dash[i])'
  <2> PICK b : b = Dash[i]
    OBVIOUS
  <2> PICK p : p = b.of
    OBVIOUS
  <2>1. BubbleOK(b)
    BY DEF ChatInv
  <2>2. (Dash[i])' = b
    <3>1. Dash'[i] = b
      BY <1>2, <1>6
    <3> QED BY <3>1
  <2>3. p \in Prompts /\ asked[p] = "dashboard" /\ p # q
    BY <1>1, <1>6, <2>1 DEF BubbleOK
  <2>4. p \in settled
    <3>1. QuestionOK(p)
      BY <2>3 DEF ChatInv
    <3> QED BY <1>1, <2>3, <3>1 DEF QuestionOK
  <2>5. p \in settled'
    BY <2>4
  <2>6. BubbleOK(b)'
    BY <2>1, <2>3, <2>4, <2>5 DEF BubbleOK
  <2> QED BY <2>2, <2>6
<1>7. BubbleOK(Dash[Len(Dash)])'
  <2> PICK b : b = Dash'[Len(Dash)]
    OBVIOUS
  <2>1. (Dash[Len(Dash)])' = b
    BY <1>2
  <2>2. b.of = q /\ b.text = text
    BY <1>2
  <2>3. BubbleOK(b)'
    <3>1. CASE /\ settled' = settled
               /\ \E len \in Nat : text = Shown(q, len) /\ Flow(q, len)'
      BY <2>2, <3>1 DEF BubbleOK
    <3>2. CASE /\ settled' = settled \union {q}
               /\ text = Error(q) \/ (source[q] = "ended" /\ text = Shown(q, said[q]))
      BY <2>2, <3>2 DEF BubbleOK
    <3> QED BY <3>1, <3>2
  <2> QED BY <2>1, <2>3
<1>8. (\A i \in 1..Len(Dash) : BubbleOK(Dash[i]))'
  <2> SUFFICES ASSUME NEW i \in 1..Len(Dash') PROVE BubbleOK(Dash[i])'
    OBVIOUS
  <2>1. i \in 1..Len(Dash) /\ (i = Len(Dash') \/ i # Len(Dash))
    BY <1>2
  <2>2. CASE i = Len(Dash')
    BY <1>7, <2>2
  <2>3. CASE i # Len(Dash)
    BY <1>6, <2>1, <2>3
  <2> QED BY <2>1, <2>2, <2>3
<1> QED BY <1>3, <1>5, <1>8 DEF ChatInv

LEMMA ChatStarts == AssistantInit => ChatInv
<1> SUFFICES ASSUME AssistantInit PROVE ChatInv
  OBVIOUS
<1>1. Dash = <<>> /\ Len(Dash) = 0
  BY DEF AssistantInit, Dash, Doors
<1>2. ChatTypeOK
  <2>1. <<>> \in Seq(Bubbles) /\ 0 \in 0..MaxDeltas /\ "dashboard" \in Doors
    BY AssistantAssumption DEF Doors
  <2> QED BY <2>1 DEF AssistantInit, ChatTypeOK, Doors
<1>3. \A q \in Prompts : QuestionOK(q)
  BY DEF AssistantInit, QuestionOK, Fresh
<1> QED BY <1>1, <1>2, <1>3 DEF ChatInv

LEMMA ChatAsk ==
  ASSUME ChatInv, NEW q \in Prompts, NEW door \in Doors, Ask(q, door)
  PROVE  ChatInv'
<1> DEFINE new == [of |-> q, text |-> <<>>, streaming |-> TRUE]
<1>1. /\ asked[q] = "no" /\ asked' = [asked EXCEPT ![q] = door]
      /\ bubbles' = [bubbles EXCEPT ![door] = Append(@, new)]
      /\ pending' = (pending \/ door = "dashboard") /\ MayAsk(door)
      /\ served' = served /\ said' = said /\ source' = source /\ inWire' = inWire
      /\ inBuffer' = inBuffer /\ outWire' = outWire /\ outBuffer' = outBuffer /\ settled' = settled
  BY DEF Ask
<1>2. ChatTypeOK /\ QuestionOK(q) /\ Dash \in Seq(Bubbles) /\ Len(Dash) \in Nat
  BY DEF ChatInv, ChatTypeOK, Dash
<1>3. served[q] = "no" /\ Fresh(q) /\ q \notin settled
  BY <1>1, <1>2 DEF QuestionOK, Over
<1>4. Shown(q, 0) = <<>>
  <2>1. Shown(q, 0) \in Seq(Prompts \X Nat) /\ Len(Shown(q, 0)) = 0
    BY ShownIs
  <2> QED BY <2>1, EmptySeq
<1>5. new \in Bubbles
  <2>1. <<>> \in Seq(Prompts \X Nat)
    OBVIOUS
  <2> QED BY <2>1 DEF Bubbles
<1>6. CASE door = "panel"
  <2>1. Dash' = Dash /\ pending' = pending
    BY <1>1, <1>2, <1>6 DEF Dash, ChatTypeOK
  <2>2. ChatTypeOK'
    BY <1>1, <1>2, <1>6 DEF ChatTypeOK, Doors
  <2>3. ASSUME NEW p \in Prompts PROVE QuestionOK(p)'
    <3>1. QuestionOK(p)
      BY DEF ChatInv
    <3>2. asked'[p] = asked[p] \/ (p = q /\ asked'[p] = "panel")
      BY <1>1, <1>2, <1>6 DEF ChatTypeOK
    <3> QED BY <1>1, <2>1, <3>1, <3>2 DEF QuestionOK, Fresh
  <2>4. ASSUME NEW i \in 1..Len(Dash) PROVE BubbleOK(Dash[i])'
    <3> PICK b : b = Dash[i]
      OBVIOUS
    <3>1. BubbleOK(b)
      BY DEF ChatInv
    <3>2. (Dash[i])' = b
      BY <2>1
    <3>3. asked'[b.of] = asked[b.of]
      BY <1>1, <1>2, <3>1 DEF BubbleOK, ChatTypeOK
    <3>4. BubbleOK(b)'
      BY <1>1, <3>1, <3>3 DEF BubbleOK, Flow
    <3> QED BY <3>2, <3>4
  <2> QED BY <2>1, <2>2, <2>3, <2>4 DEF ChatInv
<1>7. CASE door = "dashboard"
  <2>1. ~pending /\ pending'
    BY <1>1, <1>7 DEF MayAsk
  <2>2. Dash' = Append(Dash, new)
    BY <1>1, <1>2, <1>7 DEF Dash, ChatTypeOK, Doors
  <2> HIDE DEF new
  <2>3. /\ Dash' \in Seq(Bubbles) /\ Len(Dash') = Len(Dash) + 1 /\ Dash'[Len(Dash) + 1] = new
        /\ \A i \in 1..Len(Dash) : Dash'[i] = Dash[i]
    BY <1>2, <1>5, <2>2, AppendProperties
  <2>4. \A p \in Prompts : asked[p] = "dashboard" => p \in settled
    BY <2>1 DEF ChatInv, QuestionOK
  <2>5. new.of = q /\ new.text = <<>>
    BY DEF new
  <2>6. ChatTypeOK'
    <3>1. asked' \in [Prompts -> Doors \union {"no"}]
      BY <1>1, <1>2 DEF ChatTypeOK
    <3>2. DOMAIN bubbles' = Doors /\ pending' \in BOOLEAN
      BY <1>1, <1>2 DEF ChatTypeOK
    <3>3. bubbles'["dashboard"] \in Seq(Bubbles)
      BY <2>3 DEF Dash
    <3> QED BY <1>1, <1>2, <3>1, <3>2, <3>3 DEF ChatTypeOK
  <2>7. ASSUME NEW p \in Prompts PROVE QuestionOK(p)'
    <3>1. QuestionOK(p)
      BY DEF ChatInv
    <3>2. CASE p = q
      <4>1. asked'[q] = "dashboard"
        BY <1>1, <1>2, <1>7 DEF ChatTypeOK
      <4>2. Dash' # <<>> /\ Dash'[Len(Dash')].of = q
        <5>1. Len(Dash') # 0
          BY <1>2, <2>3
        <5> QED BY <2>3, <2>5, <5>1
      <4> QED BY <1>1, <1>3, <2>1, <3>2, <4>1, <4>2 DEF QuestionOK, Fresh
    <3>3. CASE p # q
      <4>1. asked'[p] = asked[p]
        BY <1>1, <1>2, <3>3 DEF ChatTypeOK
      <4>2. asked[p] = "dashboard" => p \in settled
        BY <2>4
      <4> QED BY <1>1, <3>1, <4>1, <4>2 DEF QuestionOK, Fresh
    <3> QED BY <3>2, <3>3
  <2>8. \A i \in 1..Len(Dash) : Dash[i].of # q
    <3> SUFFICES ASSUME NEW i \in 1..Len(Dash), Dash[i].of = q PROVE FALSE
      OBVIOUS
    <3>1. BubbleOK(Dash[i])
      BY DEF ChatInv
    <3>2. asked[q] = "dashboard"
      BY <3>1 DEF BubbleOK
    <3> QED BY <1>1, <3>2
  <2>9. \A i \in 1..Len(Dash') : i \in 1..Len(Dash) \/ i = Len(Dash) + 1
    BY <1>2, <2>3
  <2>10. (\A i, k \in 1..Len(Dash) : i # k => Dash[i].of # Dash[k].of)'
    <3> SUFFICES ASSUME NEW i \in 1..Len(Dash'), NEW k \in 1..Len(Dash'), i # k
                 PROVE  Dash'[i].of # Dash'[k].of
      OBVIOUS
    <3>1. \A a, d \in 1..Len(Dash) : a # d => Dash[a].of # Dash[d].of
      BY DEF ChatInv
    <3> QED BY <2>3, <2>5, <2>8, <2>9, <3>1
  <2>11. ASSUME NEW i \in 1..Len(Dash') PROVE BubbleOK(Dash[i])'
    <3>1. CASE i \in 1..Len(Dash)
      <4> PICK b : b = Dash[i]
        OBVIOUS
      <4>1. BubbleOK(b)
        BY <3>1 DEF ChatInv
      <4>2. (Dash[i])' = b
        BY <2>3, <3>1
      <4>3. asked'[b.of] = asked[b.of]
        BY <1>1, <1>2, <4>1 DEF BubbleOK, ChatTypeOK
      <4>4. BubbleOK(b)'
        BY <1>1, <4>1, <4>3 DEF BubbleOK, Flow
      <4> QED BY <4>2, <4>4
    <3>2. CASE i = Len(Dash) + 1
      <4> PICK b : b = new
        OBVIOUS
      <4>1. (Dash[i])' = b
        BY <2>3, <3>2
      <4>2. Flow(q, 0)'
        BY <1>1, <1>3, Starting DEF Flow, Fresh
      <4>3. asked'[q] = "dashboard" /\ q \notin settled'
        BY <1>1, <1>2, <1>3, <1>7 DEF ChatTypeOK
      <4>4. b.of = q /\ b.text = Shown(q, 0)
        BY <1>4, <2>5
      <4>5. BubbleOK(b)'
        BY <4>2, <4>3, <4>4 DEF BubbleOK
      <4> QED BY <4>1, <4>5
    <3> QED BY <2>9, <3>1, <3>2
  <2> QED BY <2>6, <2>7, <2>10, <2>11 DEF ChatInv
<1> QED BY <1>6, <1>7 DEF Doors

\* A step of q's handler or of its provider.
LEMMA ChatServes ==
  ASSUME ChatInv, NEW q \in Prompts, asked[q] # "no", served'[q] # "no", q \notin settled,
         asked' = asked, pending' = pending, bubbles' = bubbles, settled' = settled,
         ChatTypeOK', \A p \in Prompts : p # q => Same(p),
         asked[q] = "dashboard" => \A len : Flow(q, len) => Flow(q, len)'
  PROVE  ChatInv'
<1>1. \A p \in settled' : served'[p] \in Over
  <2> SUFFICES ASSUME NEW p \in settled PROVE served'[p] \in Over
    OBVIOUS
  <2>1. p \in Prompts /\ p # q
    BY DEF ChatInv, ChatTypeOK
  <2>2. QuestionOK(p) /\ Same(p)
    BY <2>1 DEF ChatInv
  <2> QED BY <2>2 DEF QuestionOK, Same
<1>2. \A p \in Prompts :
        \/ Same(p)
        \/ /\ asked[p] # "no" /\ served'[p] # "no"
           /\ p \in settled => said'[p] = said[p] /\ source'[p] = source[p]
           /\ asked[p] = "dashboard" /\ p \notin settled =>
                 \A len : Flow(p, len) => Flow(p, len)'
  OBVIOUS
<1> QED BY <1>1, <1>2, ChatQuiet

LEMMA ChatArrive ==
  ASSUME ChatInv, NEW q \in Prompts, Arrive(q)
  PROVE  ChatInv'
<1>1. /\ asked[q] # "no" /\ served[q] = "no"
      /\ asked' = asked /\ said' = said /\ source' = source /\ inWire' = inWire
      /\ inBuffer' = inBuffer /\ outBuffer' = outBuffer /\ bubbles' = bubbles
      /\ pending' = pending /\ settled' = settled
  BY DEF Arrive
<1>2. ChatTypeOK /\ QuestionOK(q) /\ asked[q] \in Doors
  BY <1>1 DEF ChatInv, ChatTypeOK
<1>3. Fresh(q) /\ q \notin settled
  BY <1>1, <1>2 DEF QuestionOK, Over
<1>4. \E sv \in {"waiting", "streaming", "hung", "refused"} :
         /\ served' = [served EXCEPT ![q] = sv] /\ outWire' = outWire
         /\ asked[q] = "dashboard" => sv # "hung"
  <2>1. CASE stopped
    <3>1. Throws(q)
      BY <2>1 DEF Arrive
    <3>2. CASE asked[q] = "panel"
      BY <1>1, <3>1, <3>2 DEF Throws
    <3>3. CASE asked[q] = "dashboard"
      BY <1>1, <3>1, <3>3 DEF Throws
    <3> QED BY <1>2, <3>2, <3>3 DEF Doors
  <2>2. CASE ~stopped
    BY <2>2 DEF Arrive
  <2> QED BY <2>1, <2>2
<1>5. PICK sv \in {"waiting", "streaming", "hung", "refused"} :
         /\ served' = [served EXCEPT ![q] = sv] /\ outWire' = outWire
         /\ asked[q] = "dashboard" => sv # "hung"
  BY <1>4
<1>6. served'[q] = sv /\ \A p \in Prompts : p # q => Same(p)
  BY <1>1, <1>2, <1>5 DEF ChatTypeOK, Same
<1>7. ChatTypeOK'
  BY <1>1, <1>2, <1>5 DEF ChatTypeOK, Over
<1>8. ASSUME asked[q] = "dashboard", NEW len, Flow(q, len) PROVE Flow(q, len)'
  <2>1. len \in 0..0
    BY <1>3, <1>8 DEF Flow, Answering, Fresh
  <2>2. len = 0 /\ sv \in {"no", "waiting", "streaming", "refused", "gone"}
    BY <1>5, <1>8, <2>1
  <2> QED BY <1>1, <1>3, <1>5, <1>6, <2>2, Starting DEF Flow, Fresh
<1> QED BY <1>1, <1>3, <1>6, <1>7, <1>8, ChatServes

LEMMA LiveIs ==
  ASSUME ChatInv, NEW q \in Prompts, Live(q)
  PROVE  /\ asked[q] # "no" /\ served[q] # "no" /\ q \notin settled
         /\ ChatTypeOK /\ served[q] \in {"waiting", "streaming"} /\ said[q] \in 0..MaxDeltas
         /\ asked[q] \in Doors /\ source[q] \in {"open", "ended", "broken"}
<1>1. QuestionOK(q) /\ ChatTypeOK
  BY DEF ChatInv
<1> QED BY <1>1 DEF QuestionOK, Live, Over, ChatTypeOK

LEMMA ChatReadProvider ==
  ASSUME ChatInv, NEW q \in Prompts, NEW k, ReadProvider(q, k)
  PROVE  ChatInv'
<1> DEFINE text == Got(inBuffer[q], inWire[q], k)
           rest == Unread(inWire[q], k)
           more == Relayed(outWire[q], Lines(text))
<1>1. /\ Live(q) /\ k \in 1..Len(inWire[q])
      /\ inWire' = [inWire EXCEPT ![q] = rest] /\ inBuffer' = [inBuffer EXCEPT ![q] = Remainder(text)]
      /\ outWire' = [outWire EXCEPT ![q] = more]
      /\ asked' = asked /\ said' = said /\ source' = source
      /\ outBuffer' = outBuffer /\ bubbles' = bubbles
      /\ pending' = pending /\ settled' = settled
  BY DEF ReadProvider, Got, Unread
<1>2. /\ asked[q] # "no" /\ q \notin settled /\ ChatTypeOK /\ served[q] \in {"waiting", "streaming"}
      /\ said[q] \in 0..MaxDeltas
  BY <1>1, LiveIs
<1>3. \E sv \in {"waiting", "streaming"} : served' = [served EXCEPT ![q] = sv]
  <2>1. served' = [served EXCEPT ![q] = "streaming"] \/ served' = [served EXCEPT ![q] = served[q]]
    <3> DEFINE C == \E i \in DOMAIN Lines(text) : IsDelta(Lines(text)[i])
    <3>1. served' = [served EXCEPT ![q] = IF C THEN "streaming" ELSE served[q]]
      BY <1>2 DEF ReadProvider, ChatTypeOK, Got
    <3> HIDE DEF C
    <3> QED BY <3>1
  <2> QED BY <1>2, <2>1
<1>4. PICK sv \in {"waiting", "streaming"} : served' = [served EXCEPT ![q] = sv]
  BY <1>3
<1>5. \A p \in Prompts : p # q => Same(p)
  <2> HIDE DEF text, rest, more
  <2> QED BY <1>1, <1>2, <1>4 DEF ChatTypeOK, Same
<1>6. /\ served'[q] = sv /\ inWire'[q] = rest /\ inBuffer'[q] = Remainder(text) /\ outWire'[q] = more
      /\ ChatTypeOK'
  <2> HIDE DEF text, rest, more
  <2> QED BY <1>1, <1>2, <1>4 DEF ChatTypeOK
<1>7. ASSUME NEW len, Flow(q, len) PROVE Flow(q, len)'
  <2>1. Answering(served[q], said[q], source[q], inBuffer[q], inWire[q], outBuffer[q], outWire[q], len)
    BY <1>7 DEF Flow
  <2>2. k \in 1..Len(inWire[q]) /\ served[q] \in {"waiting", "streaming"} /\ said[q] \in 0..MaxDeltas
        /\ sv \in {"waiting", "streaming"}
    BY <1>1, <1>2
  <2>3. Answering(served[q], said[q], source[q], Remainder(text), rest, outBuffer[q], more, len)
    BY <2>1, <2>2, ReadingProvider
  <2> HIDE DEF text, rest, more
  <2>4. Answering(sv, said[q], source[q], Remainder(text), rest, outBuffer[q], more, len)
    BY <2>2, <2>3 DEF Answering
  <2> QED BY <1>1, <1>6, <2>4 DEF Flow
<1>8. served'[q] # "no"
  BY <1>6
<1> HIDE DEF text, rest, more
<1> QED BY <1>1, <1>2, <1>5, <1>6, <1>7, <1>8, ChatServes

LEMMA ChatFinish ==
  ASSUME ChatInv, NEW q \in Prompts, FinishAnswer(q)
  PROVE  ChatInv'
<1>1. /\ Live(q) /\ source[q] = "ended" /\ inWire[q] = <<>>
      /\ served' = [served EXCEPT ![q] = "ended"]
      /\ outWire' = [outWire EXCEPT ![q] = @ \o Line(Done)]
      /\ inWire' = [inWire EXCEPT ![q] = <<>>] /\ inBuffer' = [inBuffer EXCEPT ![q] = <<>>]
      /\ asked' = asked /\ said' = said /\ source' = source
      /\ outBuffer' = outBuffer /\ bubbles' = bubbles
      /\ pending' = pending /\ settled' = settled
  BY DEF FinishAnswer, Leave
<1>2. /\ asked[q] # "no" /\ q \notin settled /\ ChatTypeOK /\ served[q] \in {"waiting", "streaming"}
      /\ said[q] \in 0..MaxDeltas
  BY <1>1, LiveIs
<1>3. \A p \in Prompts : p # q => Same(p)
  BY <1>1, <1>2 DEF ChatTypeOK, Same
<1>4. /\ served'[q] = "ended" /\ inWire'[q] = <<>> /\ inBuffer'[q] = <<>>
      /\ outWire'[q] = outWire[q] \o Line(Done) /\ ChatTypeOK'
  BY <1>1, <1>2 DEF ChatTypeOK, Over
<1>5. ASSUME NEW len, Flow(q, len) PROVE Flow(q, len)'
  <2>1. Answering("ended", said[q], "ended", <<>>, <<>>, outBuffer[q], outWire[q] \o Line(Done), len)
    BY <1>1, <1>2, <1>5, Finishing DEF Flow
  <2> QED BY <1>1, <1>4, <2>1 DEF Flow
<1>6. served'[q] # "no"
  BY <1>4
<1> QED BY <1>1, <1>2, <1>3, <1>4, <1>5, <1>6, ChatServes

LEMMA ChatLose ==
  ASSUME ChatInv, NEW q \in Prompts, LoseProvider(q)
  PROVE  ChatInv'
<1>1. /\ Live(q) /\ Throws(q)
      /\ inWire' = [inWire EXCEPT ![q] = <<>>] /\ inBuffer' = [inBuffer EXCEPT ![q] = <<>>]
      /\ asked' = asked /\ said' = said /\ source' = source
      /\ outBuffer' = outBuffer /\ bubbles' = bubbles
      /\ pending' = pending /\ settled' = settled
  BY DEF LoseProvider, Leave
<1>2. /\ asked[q] # "no" /\ q \notin settled /\ ChatTypeOK /\ served[q] \in {"waiting", "streaming"}
      /\ said[q] \in 0..MaxDeltas /\ asked[q] \in Doors
  BY <1>1, LiveIs
<1>3. \E sv \in {"hung", "refused", "ended"} :
        /\ served' = [served EXCEPT ![q] = sv]
        /\ \/ sv # "ended" /\ outWire' = outWire
           \/ sv = "ended" /\ outWire' = [outWire EXCEPT ![q] = @ \o Line(Failed)]
        /\ asked[q] = "dashboard" => sv # "hung"
  <2>1. CASE asked[q] = "panel"
    <3>1. served' = [served EXCEPT ![q] = "hung"] /\ outWire' = outWire
      BY <1>1, <2>1 DEF Throws
    <3> QED BY <2>1, <3>1
  <2>2. CASE asked[q] = "dashboard" /\ served[q] # "streaming"
    <3>1. served' = [served EXCEPT ![q] = "refused"] /\ outWire' = outWire
      BY <1>1, <2>2 DEF Throws
    <3> QED BY <3>1
  <2>3. CASE asked[q] = "dashboard" /\ served[q] = "streaming"
    <3>1. /\ served' = [served EXCEPT ![q] = "ended"]
          /\ outWire' = [outWire EXCEPT ![q] = @ \o Line(Failed)]
      BY <1>1, <2>3 DEF Throws
    <3> QED BY <3>1
  <2> QED BY <1>2, <2>1, <2>2, <2>3 DEF Doors
<1>4. PICK sv \in {"hung", "refused", "ended"} :
        /\ served' = [served EXCEPT ![q] = sv]
        /\ \/ sv # "ended" /\ outWire' = outWire
           \/ sv = "ended" /\ outWire' = [outWire EXCEPT ![q] = @ \o Line(Failed)]
        /\ asked[q] = "dashboard" => sv # "hung"
  BY <1>3
<1>5. \A p \in Prompts : p # q => Same(p)
  BY <1>1, <1>2, <1>4 DEF ChatTypeOK, Same
<1>6. /\ served'[q] = sv /\ inWire'[q] = <<>> /\ inBuffer'[q] = <<>>
      /\ sv = "ended" => outWire'[q] = outWire[q] \o Line(Failed)
      /\ ChatTypeOK'
  BY <1>1, <1>2, <1>4 DEF ChatTypeOK, Over
<1>7. ASSUME asked[q] = "dashboard", NEW len, Flow(q, len) PROVE Flow(q, len)'
  <2>1. Answering(served[q], said[q], source[q], inBuffer[q], inWire[q], outBuffer[q], outWire[q], len)
    BY <1>7 DEF Flow
  <2>2. CASE sv = "ended"
    <3>1. Answering("ended", said[q], source[q], <<>>, <<>>, outBuffer[q], outWire[q] \o Line(Failed), len)
      BY <1>2, <2>1, Breaking
    <3> QED BY <1>1, <1>6, <2>2, <3>1 DEF Flow
  <2>3. CASE sv = "refused"
    BY <1>1, <1>6, <2>1, <2>3 DEF Flow, Answering
  <2> QED BY <1>4, <1>7, <2>2, <2>3
<1>8. served'[q] # "no"
  BY <1>6
<1> QED BY <1>1, <1>2, <1>5, <1>6, <1>7, <1>8, ChatServes

LEMMA ChatProvider ==
  ASSUME ChatInv, NEW q \in Prompts, Provider(q)
  PROVE  ChatInv'
<1>1. /\ Live(q) /\ source[q] = "open"
      /\ asked' = asked /\ served' = served /\ inBuffer' = inBuffer /\ outWire' = outWire
      /\ outBuffer' = outBuffer /\ bubbles' = bubbles
      /\ pending' = pending /\ settled' = settled
  BY DEF Provider, ProviderSays, ProviderEnds, ProviderFails
<1>2. /\ asked[q] # "no" /\ served[q] # "no" /\ q \notin settled /\ ChatTypeOK
      /\ served[q] \in {"waiting", "streaming"} /\ said[q] \in 0..MaxDeltas
  BY <1>1, LiveIs
<1>3. CASE ProviderSays(q)
  <2>1. /\ said[q] < MaxDeltas /\ said' = [said EXCEPT ![q] = @ + 1] /\ source' = source
        /\ inWire' = [inWire EXCEPT ![q] = @ \o Line(said[q] + 1)]
    BY <1>3 DEF ProviderSays
  <2>2. said[q] + 1 \in 0..MaxDeltas
    BY <1>2, <2>1, AssistantAssumption
  <2>3. ChatTypeOK' /\ \A p \in Prompts : p # q => Same(p)
    BY <1>1, <1>2, <2>1, <2>2 DEF ChatTypeOK, Same
  <2>4. said'[q] = said[q] + 1 /\ inWire'[q] = inWire[q] \o Line(said[q] + 1)
    BY <1>2, <2>1 DEF ChatTypeOK
  <2>5. ASSUME NEW len, Flow(q, len) PROVE Flow(q, len)'
    <3>1. Answering(served[q], said[q] + 1, "open", inBuffer[q], inWire[q] \o Line(said[q] + 1),
                    outBuffer[q], outWire[q], len)
      BY <1>1, <1>2, <2>1, <2>5, Speaking DEF Flow
    <3> QED BY <1>1, <2>1, <2>4, <3>1 DEF Flow
  <2> QED BY <1>1, <1>2, <2>3, <2>5, ChatServes
<1>4. CASE ProviderEnds(q)
  <2>1. /\ source' = [source EXCEPT ![q] = "ended"] /\ said' = said
        /\ inWire' = [inWire EXCEPT ![q] = @ \o Line(Done)]
    BY <1>4 DEF ProviderEnds
  <2>2. ChatTypeOK' /\ \A p \in Prompts : p # q => Same(p)
    BY <1>1, <1>2, <2>1 DEF ChatTypeOK, Same
  <2>3. source'[q] = "ended" /\ inWire'[q] = inWire[q] \o Line(Done)
    BY <1>2, <2>1 DEF ChatTypeOK
  <2>4. ASSUME NEW len, Flow(q, len) PROVE Flow(q, len)'
    <3>1. Answering(served[q], said[q], "ended", inBuffer[q], inWire[q] \o Line(Done),
                    outBuffer[q], outWire[q], len)
      BY <1>1, <1>2, <2>4, Ending DEF Flow
    <3> QED BY <1>1, <2>1, <2>3, <3>1 DEF Flow
  <2> QED BY <1>1, <1>2, <2>2, <2>4, ChatServes
<1>5. CASE ProviderFails(q)
  <2>1. source' = [source EXCEPT ![q] = "broken"] /\ said' = said /\ inWire' = inWire
    BY <1>5 DEF ProviderFails
  <2>2. ChatTypeOK' /\ \A p \in Prompts : p # q => Same(p)
    BY <1>1, <1>2, <2>1 DEF ChatTypeOK, Same
  <2>3. source'[q] = "broken"
    BY <1>2, <2>1 DEF ChatTypeOK
  <2>4. ASSUME NEW len, Flow(q, len) PROVE Flow(q, len)'
    <3>1. Answering(served[q], said[q], "broken", inBuffer[q], inWire[q], outBuffer[q], outWire[q], len)
      BY <1>1, <1>2, <2>4, Failing DEF Flow
    <3> QED BY <1>1, <2>1, <2>3, <3>1 DEF Flow
  <2> QED BY <1>1, <1>2, <2>2, <2>4, ChatServes
<1> QED BY <1>3, <1>4, <1>5 DEF Provider

LEMMA ChatRestart ==
  ASSUME ChatInv, RestartOrchestrator
  PROVE  ChatInv'
<1>1. /\ served' = [q \in Prompts |-> IF Live(q) \/ served[q] = "hung" THEN "gone" ELSE served[q]]
      /\ inWire' = [q \in Prompts |-> <<>>] /\ inBuffer' = [q \in Prompts |-> <<>>]
      /\ asked' = asked /\ said' = said /\ source' = source /\ outWire' = outWire
      /\ outBuffer' = outBuffer /\ bubbles' = bubbles
      /\ pending' = pending /\ settled' = settled
  BY DEF RestartOrchestrator
<1>2. ChatTypeOK
  BY DEF ChatInv
<1>3. ChatTypeOK'
  <2>1. served' \in [Prompts -> {"no", "waiting", "streaming", "hung"} \union Over]
    BY <1>1, <1>2 DEF ChatTypeOK, Over
  <2> QED BY <1>1, <1>2, <2>1 DEF ChatTypeOK
<1>4. \A q \in settled' : served'[q] \in Over
  <2> SUFFICES ASSUME NEW q \in settled PROVE served'[q] \in Over
    BY <1>1
  <2>1. q \in Prompts
    BY <1>2 DEF ChatTypeOK
  <2>2. served[q] \in Over
    BY <2>1 DEF ChatInv, QuestionOK
  <2> QED BY <1>1, <2>1, <2>2 DEF Live, Over
<1>5. ASSUME NEW q \in Prompts
      PROVE  \/ Same(q)
             \/ /\ asked[q] # "no" /\ served'[q] # "no"
                /\ q \in settled => said'[q] = said[q] /\ source'[q] = source[q]
                /\ asked[q] = "dashboard" /\ q \notin settled =>
                      \A len : Flow(q, len) => Flow(q, len)'
  <2>1. QuestionOK(q)
    BY DEF ChatInv
  <2>2. CASE served[q] = "no"
    BY <1>1, <2>1, <2>2 DEF QuestionOK, Fresh, Same, Live
  <2>3. CASE served[q] # "no"
    <3>1. asked[q] # "no"
      BY <2>1, <2>3 DEF QuestionOK
    <3>2. /\ inWire'[q] = <<>> /\ inBuffer'[q] = <<>>
          /\ served'[q] = "gone" \/ (served'[q] = served[q] /\ ~Live(q))
      BY <1>1
    <3>3. served'[q] # "no"
      BY <2>3, <3>2
    <3>4. ASSUME NEW len, Flow(q, len) PROVE Flow(q, len)'
      <4>1. Answering(served'[q], said[q], source[q], <<>>, <<>>, outBuffer[q], outWire[q], len)
        <5>1. CASE served'[q] = "gone"
          BY <3>4, <5>1 DEF Flow, Answering
        <5>2. CASE served'[q] = served[q] /\ ~Live(q)
          BY <3>4, <5>2 DEF Flow, Answering, Live
        <5> QED BY <3>2, <5>1, <5>2
      <4> QED BY <1>1, <3>2, <4>1 DEF Flow
    <3> QED BY <1>1, <3>1, <3>3, <3>4
  <2> QED BY <2>2, <2>3
<1> QED BY <1>1, <1>3, <1>4, <1>5, ChatQuiet

LEMMA ChatStop ==
  ASSUME ChatInv, EngageStop \/ ResetStop
  PROVE  ChatInv'
<1>1. /\ asked' = asked /\ said' = said /\ source' = source /\ outWire' = outWire
      /\ outBuffer' = outBuffer /\ bubbles' = bubbles /\ served' = served
      /\ inWire' = inWire /\ inBuffer' = inBuffer
      /\ pending' = pending /\ settled' = settled
  BY DEF EngageStop, ResetStop
<1>2. \A q \in Prompts : Same(q)
  BY <1>1 DEF Same
<1>3. ChatTypeOK'
  BY <1>1 DEF ChatInv, ChatTypeOK
<1>4. \A q \in settled' : served'[q] \in Over
  BY <1>1 DEF ChatInv, ChatTypeOK, QuestionOK
<1> QED BY <1>1, <1>2, <1>3, <1>4, ChatQuiet

\* The answer the dashboard waits for is its last.
LEMMA LastBubble ==
  ASSUME ChatInv, NEW q \in Prompts, asked[q] = "dashboard", q \notin settled
  PROVE  /\ Dash \in Seq(Bubbles) /\ Dash # <<>> /\ Dash[Len(Dash)].of = q
         /\ \E len \in Nat : Dash[Len(Dash)].text = Shown(q, len) /\ Flow(q, len)
<1>1. QuestionOK(q) /\ Dash \in Seq(Bubbles)
  BY DEF ChatInv, ChatTypeOK, Dash
<1>2. Dash # <<>> /\ Dash[Len(Dash)].of = q
  BY <1>1 DEF QuestionOK
<1>3. Len(Dash) \in 1..Len(Dash)
  <2>1. Len(Dash) \in Nat /\ Len(Dash) # 0
    BY <1>1, <1>2, EmptySeq
  <2> QED BY <2>1
<1>4. BubbleOK(Dash[Len(Dash)])
  BY <1>3 DEF ChatInv
<1> QED BY <1>1, <1>2, <1>4 DEF BubbleOK

\* A step that writes to the panel's bubbles.
LEMMA ChatOnPanel ==
  ASSUME ChatInv, NEW q \in Prompts, asked[q] = "panel", served[q] # "no",
         asked' = asked, served' = served, said' = said, source' = source,
         inBuffer' = inBuffer, inWire' = inWire, pending' = pending,
         NEW now, bubbles' = [bubbles EXCEPT !["panel"] = now],
         NEW w, outWire' = [outWire EXCEPT ![q] = w],
         NEW b, outBuffer' = [outBuffer EXCEPT ![q] = b],
         settled' = settled \/ (settled' = settled \union {q} /\ served[q] \in Over)
  PROVE  ChatInv'
<1>1. ChatTypeOK
  BY DEF ChatInv
<1>2. ChatTypeOK' /\ bubbles'["dashboard"] = bubbles["dashboard"]
  BY <1>1 DEF ChatTypeOK, Doors
<1>3. \A p \in settled' : served'[p] \in Over
  BY <1>1 DEF ChatInv, ChatTypeOK, QuestionOK
<1>4. \A p \in Prompts : p # q => Same(p)
  BY <1>1 DEF ChatTypeOK, Same
<1>5. \A p \in Prompts :
        \/ Same(p)
        \/ /\ asked[p] # "no" /\ served'[p] # "no"
           /\ p \in settled => said'[p] = said[p] /\ source'[p] = source[p]
           /\ asked[p] = "dashboard" /\ p \notin settled =>
                 \A len : Flow(p, len) => Flow(p, len)'
  BY <1>4
<1>6. \A p \in Prompts : asked[p] = "dashboard" => (p \in settled' <=> p \in settled)
  OBVIOUS
<1> QED BY <1>2, <1>3, <1>5, <1>6, ChatQuiet

LEMMA ChatReadAnswer ==
  ASSUME ChatInv, NEW q \in Prompts, NEW k, ReadAnswer(q, k)
  PROVE  ChatInv'
<1> DEFINE door == asked[q]
           text == Got(outBuffer[q], outWire[q], k)
           lines == Lines(text)
           rest == Unread(outWire[q], k)
           now == ShowLines(door, bubbles[door], q, lines)
<1>1. /\ q \notin settled /\ served[q] \in {"streaming", "ended", "hung"} /\ k \in 1..Len(outWire[q])
      /\ asked' = asked /\ served' = served /\ said' = said /\ source' = source
      /\ inWire' = inWire /\ inBuffer' = inBuffer
  BY DEF ReadAnswer
<1>2. ChatTypeOK /\ QuestionOK(q)
  BY DEF ChatInv
<1>3. bubbles' = [bubbles EXCEPT ![door] = now]
  BY DEF ReadAnswer, Got
<1>4. IF door = "dashboard" /\ Failed \in ToSet(lines)
      THEN Settle(q)
      ELSE /\ outWire' = [outWire EXCEPT ![q] = rest]
           /\ outBuffer' = [outBuffer EXCEPT ![q] = Remainder(text)]
           /\ settled' = settled /\ pending' = pending
  BY DEF ReadAnswer, Got, Unread
<1>5. door \in Doors
  BY <1>1, <1>2 DEF QuestionOK, ChatTypeOK
<1>6. CASE door = "panel"
  <2> HIDE DEF now, text, rest
  <2>1. /\ outWire' = [outWire EXCEPT ![q] = rest]
        /\ outBuffer' = [outBuffer EXCEPT ![q] = Remainder(text)]
        /\ settled' = settled /\ pending' = pending
    BY <1>4, <1>6
  <2>2. bubbles' = [bubbles EXCEPT !["panel"] = now] /\ asked[q] = "panel" /\ served[q] # "no"
    BY <1>1, <1>3, <1>6
  <2> QED BY <1>1, <2>1, <2>2, ChatOnPanel
<1>7. CASE door = "dashboard"
  <2>1. /\ Dash \in Seq(Bubbles) /\ Dash # <<>>
        /\ \E len \in Nat : Dash[Len(Dash)].text = Shown(q, len) /\ Flow(q, len)
    BY <1>1, <1>7, LastBubble
  <2>2. PICK len \in Nat : Dash[Len(Dash)].text = Shown(q, len) /\ Flow(q, len)
    BY <2>1
  <2>3. served[q] \in {"streaming", "ended"} /\ said[q] \in 0..MaxDeltas
    BY <1>1, <1>2, <2>2 DEF Flow, Answering, ChatTypeOK
  <2>4. now = ShowLines("dashboard", Dash, q, lines)
    BY <1>7 DEF Dash
  <2>5. Answering(served[q], said[q], source[q], inBuffer[q], inWire[q], outBuffer[q], outWire[q], len)
    BY <2>2 DEF Flow
  <2>6. IF Failed \in ToSet(lines) THEN served[q] = "ended" /\ Pictured(now, Dash, Error(q))
        ELSE \E l \in Nat :
               /\ Pictured(now, Dash, Shown(q, l))
               /\ Answering(served[q], said[q], source[q], inBuffer[q], inWire[q],
                            Remainder(text), rest, l)
    <3>1. AnswerIsRead(q, Dash, served[q], said[q], source[q], inBuffer[q], inWire[q],
                       outBuffer[q], outWire[q], k)
      <4> HIDE DEF now, text, lines, rest
      <4> QED BY <1>1, <2>1, <2>2, <2>3, <2>5, ReadingAnswer
    <3> QED BY <2>4, <3>1 DEF AnswerIsRead
  <2> HIDE DEF now, text, lines, rest
  <2>7. bubbles'["dashboard"] = now /\ DOMAIN bubbles' = Doors
    BY <1>2, <1>3, <1>5, <1>7 DEF ChatTypeOK
  <2>8. CASE Failed \in ToSet(lines)
    <3>1. /\ settled' = settled \union {q} /\ pending' \in BOOLEAN
          /\ outWire' = [outWire EXCEPT ![q] = <<>>] /\ outBuffer' = [outBuffer EXCEPT ![q] = <<>>]
      <4>1. Settle(q)
        BY <1>4, <1>7, <2>8
      <4> QED BY <4>1 DEF Settle
    <3>2. served[q] \in Over /\ Pictured(bubbles'["dashboard"], bubbles["dashboard"], Error(q))
      BY <2>6, <2>7, <2>8 DEF Over, Dash
    <3>3. ChatTypeOK'
      <4>1. bubbles'["dashboard"] \in Seq(Bubbles)
        BY <3>2 DEF Pictured
      <4> QED BY <1>1, <1>2, <2>7, <3>1, <4>1 DEF ChatTypeOK
    <3>4. \A p \in Prompts : p # q => outBuffer'[p] = outBuffer[p] /\ outWire'[p] = outWire[p]
      BY <1>2, <3>1 DEF ChatTypeOK
    <3>5. served[q] # "no"
      BY <1>1
    <3> QED BY <1>1, <1>7, <3>1, <3>2, <3>3, <3>4, <3>5, ChatShows
  <2>9. CASE Failed \notin ToSet(lines)
    <3>1. /\ outWire' = [outWire EXCEPT ![q] = rest]
          /\ outBuffer' = [outBuffer EXCEPT ![q] = Remainder(text)]
          /\ settled' = settled /\ pending' = pending
      BY <1>4, <2>9
    <3>2. PICK l \in Nat :
               /\ Pictured(now, Dash, Shown(q, l))
               /\ Answering(served[q], said[q], source[q], inBuffer[q], inWire[q],
                            Remainder(text), rest, l)
      BY <2>6, <2>9
    <3>3. Pictured(bubbles'["dashboard"], bubbles["dashboard"], Shown(q, l))
      BY <2>7, <3>2 DEF Dash
    <3>4. outWire'[q] = rest /\ outBuffer'[q] = Remainder(text)
      BY <1>2, <3>1 DEF ChatTypeOK
    <3>5. Flow(q, l)'
      BY <1>1, <3>2, <3>4 DEF Flow
    <3>6. ChatTypeOK'
      <4>1. bubbles'["dashboard"] \in Seq(Bubbles)
        BY <3>3 DEF Pictured
      <4> QED BY <1>1, <1>2, <2>7, <3>1, <4>1 DEF ChatTypeOK
    <3>7. \A p \in Prompts : p # q => outBuffer'[p] = outBuffer[p] /\ outWire'[p] = outWire[p]
      BY <1>2, <3>1 DEF ChatTypeOK
    <3>8. served[q] # "no"
      BY <1>1
    <3> QED BY <1>1, <1>7, <3>1, <3>3, <3>5, <3>6, <3>7, <3>8, ChatShows
  <2> QED BY <2>8, <2>9
<1> QED BY <1>5, <1>6, <1>7 DEF Doors

LEMMA ChatAnswerEnds ==
  ASSUME ChatInv, NEW q \in Prompts, AnswerEnds(q)
  PROVE  ChatInv'
<1> DEFINE door == asked[q]
           surplus == IF door = "dashboard" THEN outBuffer[q] ELSE <<>>
           now == ShowLines(door, bubbles[door], q, surplus)
<1>1. /\ q \notin settled /\ served[q] = "ended" /\ outWire[q] = <<>>
      /\ asked' = asked /\ served' = served /\ said' = said /\ source' = source
      /\ inWire' = inWire /\ inBuffer' = inBuffer
      /\ settled' = settled \union {q} /\ pending' = (pending /\ door # "dashboard")
      /\ outWire' = [outWire EXCEPT ![q] = <<>>] /\ outBuffer' = [outBuffer EXCEPT ![q] = <<>>]
  BY DEF AnswerEnds, Settle
<1>2. bubbles' = [bubbles EXCEPT ![door] = now]
  BY DEF AnswerEnds
<1>3. ChatTypeOK /\ QuestionOK(q) /\ served[q] \in Over
  BY <1>1 DEF ChatInv, Over
<1>4. door \in Doors
  BY <1>1, <1>3 DEF QuestionOK, ChatTypeOK
<1>5. CASE door = "panel"
  <2> HIDE DEF now
  <2>1. pending' = pending
    BY <1>1, <1>3, <1>5 DEF ChatTypeOK
  <2>2. bubbles' = [bubbles EXCEPT !["panel"] = now] /\ asked[q] = "panel" /\ served[q] # "no"
    BY <1>1, <1>2, <1>5
  <2> QED BY <1>1, <1>3, <2>1, <2>2, ChatOnPanel
<1>6. CASE door = "dashboard"
  <2>1. Dash \in Seq(Bubbles) /\ Dash # <<>>
    BY <1>1, <1>6, LastBubble
  <2>2. PICK len \in Nat : Dash[Len(Dash)].text = Shown(q, len) /\ Flow(q, len)
    BY <1>1, <1>6, LastBubble
  <2>3. Answering("ended", said[q], source[q], inBuffer[q], inWire[q], outBuffer[q], <<>>, len)
    BY <1>1, <2>2 DEF Flow
  <2>4. said[q] \in 0..MaxDeltas
    BY <1>3 DEF ChatTypeOK
  <2>5. outBuffer[q] = <<>> /\ source[q] = "ended" /\ len = said[q]
    BY <2>3, <2>4, AnswerRead
  <2>6. now = Dash
    <3>1. now = ShowLines("dashboard", Dash, q, <<>>)
      BY <1>6, <2>5 DEF Dash
    <3> HIDE DEF now
    <3> QED BY <2>1, <3>1, ShowNothing
  <2> HIDE DEF now
  <2>7. bubbles'["dashboard"] = Dash /\ DOMAIN bubbles' = Doors
    BY <1>2, <1>3, <1>4, <1>6, <2>6 DEF ChatTypeOK
  <2>8. Pictured(bubbles'["dashboard"], bubbles["dashboard"], Shown(q, said[q]))
    BY <2>1, <2>2, <2>5, <2>7 DEF Pictured, Dash
  <2>9. ChatTypeOK'
    BY <1>1, <1>3, <2>1, <2>7 DEF ChatTypeOK
  <2>10. \A p \in Prompts : p # q => outBuffer'[p] = outBuffer[p] /\ outWire'[p] = outWire[p]
    BY <1>1, <1>3 DEF ChatTypeOK
  <2>11. served[q] # "no"
    BY <1>1
  <2> QED BY <1>1, <1>3, <1>6, <2>5, <2>8, <2>9, <2>10, <2>11, ChatShows
<1> QED BY <1>4, <1>5, <1>6 DEF Doors

LEMMA ChatAnswerFails ==
  ASSUME ChatInv, NEW q \in Prompts, AnswerFails(q)
  PROVE  ChatInv'
<1> DEFINE door == asked[q]
           now == ShowLine(door, bubbles[door], q, Failed)
<1>1. /\ q \notin settled /\ served[q] \in {"refused", "gone"}
      /\ asked' = asked /\ served' = served /\ said' = said /\ source' = source
      /\ inWire' = inWire /\ inBuffer' = inBuffer
      /\ settled' = settled \union {q} /\ pending' = (pending /\ door # "dashboard")
      /\ outWire' = [outWire EXCEPT ![q] = <<>>] /\ outBuffer' = [outBuffer EXCEPT ![q] = <<>>]
  BY DEF AnswerFails, Settle
<1>2. bubbles' = [bubbles EXCEPT ![door] = now]
  BY DEF AnswerFails
<1>3. ChatTypeOK /\ QuestionOK(q) /\ served[q] \in Over
  BY <1>1 DEF ChatInv, Over
<1>4. door \in Doors
  BY <1>1, <1>3 DEF QuestionOK, ChatTypeOK
<1>5. CASE door = "panel"
  <2> HIDE DEF now
  <2>1. pending' = pending
    BY <1>1, <1>3, <1>5 DEF ChatTypeOK
  <2>2. bubbles' = [bubbles EXCEPT !["panel"] = now] /\ asked[q] = "panel" /\ served[q] # "no"
    BY <1>1, <1>2, <1>5
  <2> QED BY <1>1, <1>3, <2>1, <2>2, ChatOnPanel
<1>6. CASE door = "dashboard"
  <2>1. Dash \in Seq(Bubbles) /\ Dash # <<>>
    BY <1>1, <1>6, LastBubble
  <2>2. Failed \in Nat /\ ~IsDelta(Failed)
    BY AssistantAssumption DEF Failed, IsDelta
  <2>3. now = ShowLine("dashboard", Dash, q, Failed)
    BY <1>6 DEF Dash
  <2>4. LineShown(Dash[Len(Dash)].text, q, Failed) = Error(q)
    BY <2>2 DEF LineShown
  <2> HIDE DEF now
  <2>5. Pictured(now, Dash, Error(q))
    BY <2>1, <2>2, <2>3, <2>4, ShowLineIs DEF Pictured
  <2>6. bubbles'["dashboard"] = now /\ DOMAIN bubbles' = Doors
    BY <1>2, <1>3, <1>4, <1>6 DEF ChatTypeOK
  <2>7. Pictured(bubbles'["dashboard"], bubbles["dashboard"], Error(q))
    BY <2>5, <2>6 DEF Dash
  <2>8. ChatTypeOK'
    <3>1. bubbles'["dashboard"] \in Seq(Bubbles)
      BY <2>7 DEF Pictured
    <3> QED BY <1>1, <1>3, <2>6, <3>1 DEF ChatTypeOK
  <2>9. \A p \in Prompts : p # q => outBuffer'[p] = outBuffer[p] /\ outWire'[p] = outWire[p]
    BY <1>1, <1>3 DEF ChatTypeOK
  <2>10. served[q] # "no"
    BY <1>1
  <2> QED BY <1>1, <1>3, <1>6, <2>7, <2>8, <2>9, <2>10, ChatShows
<1> QED BY <1>4, <1>5, <1>6 DEF Doors

LEMMA ChatUnmoved == ASSUME ChatInv, UNCHANGED chatVars PROVE ChatInv'
<1>1. \A q \in Prompts : Same(q)
  BY DEF chatVars, Same
<1>2. ChatTypeOK'
  BY DEF ChatInv, ChatTypeOK, chatVars
<1>3. \A q \in settled' : served'[q] \in Over
  BY DEF ChatInv, ChatTypeOK, QuestionOK, chatVars
<1> QED BY <1>1, <1>2, <1>3, ChatQuiet DEF chatVars

LEMMA ChatStep == ChatInv /\ [AssistantNext]_chatVars => ChatInv'
<1> SUFFICES ASSUME ChatInv, [AssistantNext]_chatVars PROVE ChatInv'
  OBVIOUS
<1>1. ASSUME NEW q \in Prompts, \E door \in Doors : Ask(q, door) PROVE ChatInv'
  BY <1>1, ChatAsk
<1>2. ASSUME NEW q \in Prompts, Reader(q) PROVE ChatInv'
  BY <1>2, ChatReadAnswer, ChatAnswerEnds, ChatAnswerFails DEF Reader
<1>3. ASSUME NEW q \in Prompts, Handler(q) PROVE ChatInv'
  BY <1>3, ChatArrive, ChatReadProvider, ChatFinish, ChatLose DEF Handler
<1>4. ASSUME NEW q \in Prompts, Provider(q) PROVE ChatInv'
  BY <1>4, ChatProvider
<1>5. CASE AssistantNext
  BY <1>1, <1>2, <1>3, <1>4, <1>5, ChatStop, ChatRestart DEF AssistantNext
<1>6. CASE UNCHANGED chatVars
  BY <1>6, ChatUnmoved
<1> QED BY <1>5, <1>6

LEMMA ChatShowsAnswers == ChatInv => AnswerIsWhole
<1> SUFFICES ASSUME ChatInv, NEW i \in 1..Len(Dash)
             PROVE  \/ Dash[i].text = Error(Dash[i].of)
                    \/ /\ Begins(Dash[i].text, Dash[i].of)
                       /\ Dash[i].of \in settled =>
                             /\ source[Dash[i].of] = "ended"
                             /\ Len(Dash[i].text) = said[Dash[i].of]
  BY DEF AnswerIsWhole, Dash, Error
<1> PICK b : b = Dash[i]
  OBVIOUS
<1>1. BubbleOK(b)
  BY DEF ChatInv
<1>2. b.of \in Prompts /\ said[b.of] \in Nat
  BY <1>1, AssistantAssumption DEF BubbleOK, ChatInv, ChatTypeOK
<1>3. ASSUME NEW len \in 0..said[b.of], b.text = Shown(b.of, len)
      PROVE  Begins(b.text, b.of) /\ Len(b.text) = len
  <2>1. len \in Nat /\ len <= said[b.of]
    BY <1>2
  <2>2. Len(Shown(b.of, len)) = len /\ \A n \in 1..len : Shown(b.of, len)[n] = <<b.of, n>>
    BY <1>2, <2>1, ShownIs
  <2>3. Len(b.text) = len /\ \A n \in 1..len : b.text[n] = <<b.of, n>>
    BY <1>3, <2>2
  <2>4. Len(b.text) <= said[b.of] /\ \A n \in 1..Len(b.text) : b.text[n] = <<b.of, n>>
    BY <2>1, <2>3
  <2> QED BY <2>3, <2>4 DEF Begins
<1>4. CASE b.of \in settled /\ b.text # Error(b.of)
  <2>1. source[b.of] = "ended" /\ b.text = Shown(b.of, said[b.of])
    BY <1>1, <1>4 DEF BubbleOK
  <2>2. said[b.of] \in 0..said[b.of]
    BY <1>2
  <2> QED BY <1>3, <2>1, <2>2
<1>5. CASE b.of \notin settled
  <2>1. PICK len \in Nat : b.text = Shown(b.of, len) /\ Flow(b.of, len)
    BY <1>1, <1>5 DEF BubbleOK
  <2>2. len \in 0..said[b.of]
    BY <2>1 DEF Flow, Answering
  <2> QED BY <1>3, <1>5, <2>1, <2>2
<1> QED BY <1>4, <1>5

\* Once its reader is through, an answer in the dashboard is the whole of what the
\* provider said to that question or an error, and before that a beginning of it:
\* for any number of questions, deltas, stops and restarts, and any cut of the
\* two byte streams (lib/api.ts streamAssistant, provider-sdk streamChat).
THEOREM AnswersAreWhole == AssistantSpec => []AnswerIsWhole
<1>1. AssistantInit => ChatInv
  BY ChatStarts
<1>2. ChatInv /\ [AssistantNext]_chatVars => ChatInv'
  BY ChatStep
<1>3. ChatInv => AnswerIsWhole
  BY ChatShowsAnswers
<1> QED BY <1>1, <1>2, <1>3, PTL DEF AssistantSpec
=============================================================================

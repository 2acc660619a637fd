-------------------------- MODULE Deployment_proofs --------------------------
(***************************************************************************)
(* For any releases, bounds, lines, buffers, runs and sizes of a page:     *)
(* what a summary has counted when it is answered, what an upgrade leaves  *)
(* behind, and what a client has when a stream ends.                       *)
(***************************************************************************)
EXTENDS Deployment, FiniteSetTheorems, SequenceTheorems, TLAPS

(* How many rows the pages read so far reach.                              *)
Reached == IF summary = "list" THEN Offset ELSE page * PageSize

(* A run is behind, or in front of, the place the summary has reached.     *)
Ahead(r) == \E i \in DOMAIN listed : Reached < i /\ listed[i] = r
Behind(r) == \E i \in DOMAIN listed : i <= Reached /\ listed[i] = r

Distinct == \A i, j \in DOMAIN listed : listed[i] = listed[j] => i = j

Unasked ==
    summary = "none" => listed = <<>> /\ page = 1 /\ before = {} /\ seen = [r \in Runs |-> 0]

(* Inserted rows push the others back: what was not counted is still to    *)
(* come, unless a short page has shown the end.                            *)
NoneLost ==
    /\ summary \in {"list", "count"} => \A r \in before : seen[r] > 0 \/ Ahead(r)
    /\ summary = "count" /\ items < PageSize => \A r \in before : seen[r] > 0
    /\ summary = "answered" => \A r \in before : seen[r] > 0

QuietExact ==
    quiet =>
        /\ before = Listed
        /\ summary \in {"list", "count"} =>
               \A r \in Runs : seen[r] = IF Behind(r) THEN 1 ELSE 0
        /\ summary = "count" /\ items < PageSize => Len(listed) < page * PageSize
        /\ summary = "answered" =>
               /\ total = Len(listed)
               /\ \A r \in Runs : seen[r] = IF r \in before THEN 1 ELSE 0

SummaryInv == SummaryTypeOK /\ Distinct /\ Unasked /\ NoneLost /\ QuietExact

-----------------------------------------------------------------------------
(* What InsertAt does to the places of the others.                         *)
LEMMA InsertAtShifts ==
  ASSUME NEW S, NEW s \in Seq(S), NEW i \in 1..Len(s) + 1, NEW e \in S
  PROVE  /\ InsertAt(s, i, e) \in Seq(S)
         /\ Len(InsertAt(s, i, e)) = Len(s) + 1
         /\ \A k \in 1..Len(s) + 1 :
                InsertAt(s, i, e)[k] =
                    IF k < i THEN s[k] ELSE IF k = i THEN e ELSE s[k - 1]
<1> DEFINE front == SubSeq(s, 1, i - 1)
           back == SubSeq(s, i, Len(s))
<1>1. front \in Seq(S) /\ Len(front) = i - 1 /\ \A k \in 1..i - 1 : front[k] = s[k]
  OBVIOUS
<1>2. /\ back \in Seq(S) /\ Len(back) = Len(s) - i + 1
      /\ \A k \in 1..Len(s) - i + 1 : back[k] = s[k + i - 1]
  OBVIOUS
<1>3. <<e>> \in Seq(S) /\ Len(<<e>>) = 1 /\ <<e>>[1] = e
  OBVIOUS
<1> HIDE DEF front, back
<1>4. /\ front \o <<e>> \in Seq(S) /\ Len(front \o <<e>>) = i
      /\ \A k \in 1..i : (front \o <<e>>)[k] = IF k < i THEN s[k] ELSE e
  BY <1>1, <1>3
<1>5. InsertAt(s, i, e) = (front \o <<e>>) \o back
  BY DEF InsertAt, front, back
<1>6. InsertAt(s, i, e) \in Seq(S) /\ Len(InsertAt(s, i, e)) = Len(s) + 1
  <2>1. Len(s) \in Nat /\ i \in Nat /\ i + (Len(s) - i + 1) = Len(s) + 1
    OBVIOUS
  <2>2. /\ (front \o <<e>>) \o back \in Seq(S)
        /\ Len((front \o <<e>>) \o back) = Len(front \o <<e>>) + Len(back)
    BY <1>2, <1>4, ConcatProperties
  <2> QED
    BY <1>2, <1>4, <1>5, <2>1, <2>2
<1>7. ASSUME NEW k \in 1..Len(s) + 1
      PROVE  InsertAt(s, i, e)[k] = IF k < i THEN s[k] ELSE IF k = i THEN e ELSE s[k - 1]
  <2>1. CASE k <= i
    <3>1. InsertAt(s, i, e)[k] = (front \o <<e>>)[k]
      BY <1>2, <1>4, <1>5, <2>1
    <3> QED
      BY <1>4, <2>1, <3>1
  <2>2. CASE i < k
    <3>1. k - i \in 1..Len(s) - i + 1 /\ (k - i) + i - 1 = k - 1
      BY <2>2
    <3>2. InsertAt(s, i, e)[k] = back[k - i]
      BY <1>2, <1>4, <1>5, <2>2, <3>1
    <3>3. back[k - i] = s[k - 1]
      BY <1>2, <3>1
    <3> QED
      BY <2>2, <3>2, <3>3
  <2> QED
    BY <2>1, <2>2
<1> QED
  BY <1>6, <1>7

(* A sequence of the rows of a project.                                    *)
LEMMA RowsAreSequence ==
  ASSUME NEW S \in SUBSET Runs, NEW s \in SetToSeqs(S)
  PROVE  s \in Seq(Runs) /\ \A i, j \in DOMAIN s : s[i] = s[j] => i = j
<1>1. Cardinality(S) \in Nat
  BY SummaryAssumption, FS_Subset, FS_CardinalityType
<1>2. s \in [1..Cardinality(S) -> S] /\ \A i, j \in 1..Cardinality(S) : i # j => s[i] # s[j]
  BY DEF SetToSeqs
<1> QED
  BY <1>1, <1>2

(* The pages follow each other.                                            *)
LEMMA NextPage ==
  ASSUME NEW n \in Nat \ {0}
  PROVE  /\ (n - 1) * PageSize \in Nat /\ n * PageSize \in Nat
         /\ n * PageSize = (n - 1) * PageSize + PageSize
         /\ ((n + 1) - 1) * PageSize = n * PageSize
BY SummaryAssumption

-----------------------------------------------------------------------------
LEMMA SummaryStarts == SummaryInv /\ Summarise => SummaryInv'
<1> SUFFICES ASSUME SummaryInv, Summarise
             PROVE  SummaryInv'
  OBVIOUS
<1> USE DEF SummaryInv
<1>1. PICK S \in SUBSET Runs : listed' \in SetToSeqs(S)
  BY DEF Summarise
<1>2. listed' \in Seq(Runs) /\ Distinct'
  BY <1>1, RowsAreSequence DEF Distinct
<1>3. /\ summary' = "list" /\ page' = 1 /\ before' = Listed' /\ seen' = [r \in Runs |-> 0]
      /\ UNCHANGED <<items, total, quiet>>
  BY DEF Summarise, Unasked, Listed
<1>4. Offset' = 0
  BY <1>3, SummaryAssumption DEF Offset
<1>5. before' \subseteq Runs /\ \A r \in before' : \E i \in DOMAIN listed' : 0 < i /\ listed'[i] = r
  BY <1>2, <1>3 DEF Listed, ToSet
<1>6. SummaryTypeOK'
  BY <1>2, <1>3, <1>5 DEF SummaryTypeOK
<1>7. NoneLost'
  BY <1>3, <1>4, <1>5 DEF NoneLost, Ahead, Reached
<1>8. QuietExact'
  <2>1. \A r : ~Behind(r)'
    BY <1>2, <1>3, <1>4 DEF Behind, Reached
  <2> QED
    BY <1>3, <2>1 DEF QuietExact
<1> QED
  BY <1>2, <1>3, <1>6, <1>7, <1>8 DEF Unasked

LEMMA SummaryRowInserted ==
  ASSUME SummaryInv, NEW r \in Runs, InsertRun(r)
  PROVE  SummaryInv'
<1> USE DEF SummaryInv
<1>1. PICK i \in 1..Len(listed) + 1 : listed' = InsertAt(listed, i, r)
  BY DEF InsertRun
<1>2. /\ listed' \in Seq(Runs) /\ Len(listed') = Len(listed) + 1
      /\ \A k \in 1..Len(listed) + 1 :
             listed'[k] = IF k < i THEN listed[k] ELSE IF k = i THEN r ELSE listed[k - 1]
  <2>1. listed \in Seq(Runs)
    BY DEF SummaryTypeOK
  <2>2. /\ InsertAt(listed, i, r) \in Seq(Runs)
        /\ Len(InsertAt(listed, i, r)) = Len(listed) + 1
        /\ \A k \in 1..Len(listed) + 1 :
               InsertAt(listed, i, r)[k] =
                   IF k < i THEN listed[k] ELSE IF k = i THEN r ELSE listed[k - 1]
    BY <2>1, InsertAtShifts
  <2> QED
    BY <1>1, <2>2
<1>9. DOMAIN listed = 1..Len(listed) /\ DOMAIN listed' = 1..Len(listed) + 1 /\ Len(listed) \in Nat
  BY <1>2 DEF SummaryTypeOK
<1>3. /\ summary \in {"list", "count"} /\ quiet' = FALSE
      /\ UNCHANGED <<summary, page, items, seen, total, before>>
  BY DEF InsertRun, request
<1>4. \A k \in DOMAIN listed : listed[k] # r
  BY DEF InsertRun, Listed, ToSet
<1>5. Distinct'
  <2> SUFFICES \A j, k \in 1..Len(listed) + 1 : j < k => listed'[j] # listed'[k]
    <3> SUFFICES ASSUME \A j, k \in 1..Len(listed) + 1 : j < k => listed'[j] # listed'[k],
                        NEW j \in 1..Len(listed) + 1, NEW k \in 1..Len(listed) + 1, j # k
                 PROVE  listed'[j] # listed'[k]
      BY <1>9 DEF Distinct
    <3>1. j < k \/ k < j
      BY <1>9
    <3> QED
      BY <3>1
  <2> TAKE j, k \in 1..Len(listed) + 1
  <2> HAVE j < k
  <2>1. CASE k < i
    BY <1>2, <1>9, <2>1 DEF Distinct
  <2>2. CASE k = i
    BY <1>2, <1>4, <1>9, <2>2
  <2>3. CASE i < k
    <3>1. k - 1 \in DOMAIN listed /\ listed'[k] = listed[k - 1]
      BY <1>2, <1>9, <2>3
    <3>2. CASE j < i
      BY <1>2, <1>9, <2>3, <3>1, <3>2 DEF Distinct
    <3>3. CASE j = i
      BY <1>2, <1>4, <3>1, <3>3
    <3>4. CASE i < j
      <4>1. j - 1 \in DOMAIN listed /\ listed'[j] = listed[j - 1] /\ j - 1 # k - 1
        BY <1>2, <1>9, <3>4
      <4> QED
        BY <3>1, <4>1 DEF Distinct
    <3> QED
      BY <3>2, <3>3, <3>4
  <2> QED
    BY <2>1, <2>2, <2>3
<1>6. Reached' = Reached /\ Reached \in Nat
  BY <1>3, NextPage DEF Reached, Offset, SummaryTypeOK
<1>7. \A q \in Runs : Ahead(q) => Ahead(q)'
  <2> SUFFICES ASSUME NEW q \in Runs, NEW k \in DOMAIN listed, Reached < k, listed[k] = q
               PROVE  \E j \in DOMAIN listed' : Reached < j /\ listed'[j] = q
    BY <1>6 DEF Ahead
  <2>1. CASE k < i
    <3>1. k \in DOMAIN listed' /\ listed'[k] = q
      BY <1>2, <1>9, <2>1
    <3> QED
      BY <3>1
  <2>2. CASE i <= k
    <3>1. k + 1 \in DOMAIN listed' /\ listed'[k + 1] = q /\ Reached < k + 1
      BY <1>2, <1>6, <2>2 DEF SummaryTypeOK
    <3> QED
      BY <3>1
  <2> QED
    BY <2>1, <2>2 DEF SummaryTypeOK
<1>8. NoneLost'
  BY <1>3, <1>7 DEF NoneLost, SummaryTypeOK
<1> QED
  BY <1>2, <1>3, <1>5, <1>8 DEF SummaryTypeOK, Unasked, QuietExact

LEMMA SummaryPageListed == SummaryInv /\ ListPage => SummaryInv'
<1> SUFFICES ASSUME SummaryInv, ListPage
             PROVE  SummaryInv'
  OBVIOUS
<1> USE DEF SummaryInv
<1>1. summary = "list" /\ UNCHANGED <<listed, page, total, before, quiet>>
  BY DEF ListPage
<1>2. CASE summary' = "failed" /\ UNCHANGED <<items, seen>>
  BY <1>1, <1>2 DEF SummaryTypeOK, Distinct, Unasked, NoneLost, QuietExact, Listed
<1>3. CASE /\ summary' = "count" /\ items' = PageLength
           /\ seen' = [r \in Runs |-> IF r \in PageRows THEN seen[r] + 1 ELSE seen[r]]
  <2>1. /\ Offset \in Nat /\ page * PageSize = Offset + PageSize /\ page * PageSize \in Nat
        /\ Len(listed) \in Nat /\ PageSize \in Nat
    BY NextPage, SummaryAssumption DEF Offset, SummaryTypeOK
  <2>2. Reached = Offset /\ Reached' = Offset + PageSize
    BY <1>1, <1>3, <2>1 DEF Reached
  <2>3. \A r \in Runs : r \in PageRows <=>
            \E k \in DOMAIN listed : Reached < k /\ k <= Reached' /\ listed[k] = r
    BY <2>2 DEF PageRows
  <2>4. items' \in 0..PageSize /\ (items' < PageSize => Len(listed) < Reached')
    BY <1>3, <2>1, <2>2 DEF PageLength
  <2>5. SummaryTypeOK'
    BY <1>1, <1>3, <2>4 DEF SummaryTypeOK
  <2>6. \A r \in before : seen'[r] > 0 \/ Ahead(r)'
    BY <1>1, <1>3, <2>1, <2>2, <2>3 DEF NoneLost, Ahead, SummaryTypeOK
  <2>7. items' < PageSize => \A r \in before : seen'[r] > 0
    <3>1. items' < PageSize => \A r : ~Ahead(r)'
      BY <1>1, <2>1, <2>2, <2>4 DEF Ahead, SummaryTypeOK
    <3> QED
      BY <2>6, <3>1
  <2>8. quiet => \A r \in Runs : seen'[r] = IF Behind(r)' THEN 1 ELSE 0
    <3> SUFFICES ASSUME quiet, NEW r \in Runs
                 PROVE  seen'[r] = IF Behind(r)' THEN 1 ELSE 0
      OBVIOUS
    <3>1. seen[r] = IF Behind(r) THEN 1 ELSE 0
      BY <1>1 DEF QuietExact
    <3>2. Behind(r)' <=> Behind(r) \/ r \in PageRows
      BY <1>1, <2>1, <2>2, <2>3 DEF Behind, SummaryTypeOK
    <3>3. ~(Behind(r) /\ r \in PageRows)
      BY <2>1, <2>2, <2>3 DEF Behind, Distinct, SummaryTypeOK
    <3> QED
      BY <1>3, <3>1, <3>2, <3>3
  <2>9. QuietExact'
    BY <1>1, <1>3, <2>1, <2>2, <2>4, <2>8 DEF QuietExact, Listed
  <2> QED
    BY <1>1, <1>3, <2>5, <2>6, <2>7, <2>9 DEF Distinct, Unasked, NoneLost
<1> QED
  BY <1>2, <1>3 DEF ListPage

LEMMA SummaryRunsCounted == SummaryInv /\ CountRuns => SummaryInv'
<1> SUFFICES ASSUME SummaryInv, CountRuns
             PROVE  SummaryInv'
  OBVIOUS
<1> USE DEF SummaryInv
<1>1. summary = "count" /\ UNCHANGED <<listed, items, seen, before, quiet>>
  BY DEF CountRuns
<1>2. CASE summary' = "failed" /\ UNCHANGED <<total, page>>
  BY <1>1, <1>2 DEF SummaryTypeOK, Distinct, Unasked, NoneLost, QuietExact, Listed
<1>3. Reached = page * PageSize /\ Reached \in Nat /\ Len(listed) \in Nat /\ PageSize \in Nat
  BY <1>1, NextPage, SummaryAssumption DEF Reached, SummaryTypeOK
<1>4. CASE /\ total' = Len(listed) /\ LastPage(Len(listed))
           /\ summary' = "answered" /\ UNCHANGED page
  <2>1. SummaryTypeOK'
    BY <1>1, <1>3, <1>4 DEF SummaryTypeOK
  <2>2. items < PageSize \/ Len(listed) <= Reached
    BY <1>3, <1>4 DEF LastPage
  <2>3. \A r \in before : seen[r] > 0
    <3>1. Len(listed) <= Reached => \A r : ~Ahead(r)
      BY <1>3 DEF Ahead, SummaryTypeOK
    <3> QED
      BY <1>1, <2>2, <3>1 DEF NoneLost
  <2>4. quiet => \A r \in Runs : seen[r] = IF r \in before THEN 1 ELSE 0
    <3> SUFFICES ASSUME quiet, NEW r \in Runs
                 PROVE  seen[r] = IF r \in before THEN 1 ELSE 0
      OBVIOUS
    <3>1. Len(listed) <= Reached
      BY <1>1, <1>3, <2>2 DEF QuietExact, SummaryTypeOK
    <3>2. Behind(r) <=> r \in before
      BY <1>3, <3>1 DEF Behind, QuietExact, Listed, ToSet, SummaryTypeOK
    <3> QED
      BY <1>1, <3>2 DEF QuietExact
  <2>5. QuietExact'
    BY <1>1, <1>4, <2>4 DEF QuietExact, Listed
  <2> QED
    BY <1>1, <1>4, <2>1, <2>3, <2>5 DEF Distinct, Unasked, NoneLost
<1>5. CASE total' = Len(listed) /\ summary' = "list" /\ page' = page + 1
  <2>1. SummaryTypeOK'
    BY <1>1, <1>3, <1>5 DEF SummaryTypeOK
  <2>2. Reached' = Reached
    BY <1>1, <1>3, <1>5, NextPage DEF Reached, Offset, SummaryTypeOK
  <2>3. \A r : (Ahead(r)' <=> Ahead(r)) /\ (Behind(r)' <=> Behind(r))
    BY <1>1, <2>2 DEF Ahead, Behind
  <2> QED
    BY <1>1, <1>5, <2>1, <2>3 DEF Distinct, Unasked, NoneLost, QuietExact, Listed
<1> QED
  BY <1>2, <1>4, <1>5 DEF CountRuns

(* The other steps leave the summary alone, or end it with the process.    *)
LEMMA SummaryUnchanged == SummaryInv /\ UNCHANGED summaryVars => SummaryInv'
BY DEF SummaryInv, summaryVars, SummaryTypeOK, Distinct, Unasked, NoneLost, QuietExact, Ahead, Behind,
       Reached, Offset, Listed

LEMMA SummaryCut == SummaryInv /\ CutSummary => SummaryInv'
<1> SUFFICES ASSUME SummaryInv, CutSummary
             PROVE  SummaryInv'
  OBVIOUS
<1>1. CASE summary \in {"list", "count"}
  BY <1>1 DEF CutSummary, SummaryInv, SummaryTypeOK, Distinct, Unasked, NoneLost, QuietExact, Listed
<1>2. CASE summary \notin {"list", "count"}
  BY <1>2, SummaryUnchanged DEF CutSummary, summaryVars
<1> QED
  BY <1>1, <1>2

LEMMA SummaryStep == SummaryInv /\ [Next]_vars => SummaryInv'
<1> SUFFICES ASSUME SummaryInv, [Next]_vars
             PROVE  SummaryInv'
  OBVIOUS
<1>1. CASE \E r \in Runs : InsertRun(r)
  BY <1>1, SummaryRowInserted
<1>2. CASE Summarise \/ ListPage \/ CountRuns \/ CutSummary \/ UNCHANGED summaryVars
  BY <1>2, SummaryStarts, SummaryPageListed, SummaryRunsCounted, SummaryCut, SummaryUnchanged
<1>3. CASE Install \/ Ask
  BY <1>2, <1>3 DEF Install, Stop, Ask
<1>4. CASE Operator \/ Serve \/ Outside \/ UNCHANGED vars
  BY <1>2, <1>4 DEF Operator, Serve, Stream, Outside, vars
<1>5. CASE Answer \/ RunCreated
  BY <1>1, <1>2, <1>5 DEF Answer, Answering, RunCreated
<1> QED
  BY <1>3, <1>4, <1>5 DEF Next

LEMMA SummaryInitially == Init => SummaryInv
<1> SUFFICES ASSUME Init
             PROVE  SummaryInv
  OBVIOUS
<1>1. /\ listed = <<>> /\ summary = "none" /\ page = 1 /\ items = 0 /\ seen = [r \in Runs |-> 0]
      /\ total = 0 /\ before = {} /\ quiet = TRUE
  BY DEF Init, SummaryInit
<1>2. <<>> \in Seq(Runs) /\ Listed = {}
  BY <1>1 DEF Listed, ToSet
<1> QED
  BY <1>1, <1>2, SummaryAssumption
  DEF SummaryInv, SummaryTypeOK, Distinct, Unasked, NoneLost, QuietExact

LEMMA SummaryInvariant == Spec => []SummaryInv
BY SummaryInitially, SummaryStep, PTL DEF Spec

-----------------------------------------------------------------------------
(* A summary misses no run that was there when it began, whatever is       *)
(* inserted while its pages are read.                                      *)
THEOREM NoRunIsMissed == Spec => []NoRunMissed
<1>1. SummaryInv => NoRunMissed
  BY DEF SummaryInv, NoneLost, NoRunMissed
<1> QED
  BY <1>1, SummaryInvariant, PTL

(* A summary during which nothing is inserted is exact.                    *)
THEOREM QuietSummaryIsExact == Spec => []QuietSummaryExact
<1>1. SummaryInv => QuietSummaryExact
  BY DEF SummaryInv, QuietExact, QuietSummaryExact
<1> QED
  BY <1>1, SummaryInvariant, PTL

-----------------------------------------------------------------------------
(* The steps that change what an installation works on.                    *)
LEMMA InstallSteps ==
  [Next]_vars => UNCHANGED installVars \/ Killed \/ Boot \/ StopService \/ OtherStep
                     \/ \E v \in Releases : Begin(v)
BY DEF Next, vars, Install, Stop, Operator, Ask, Serve, Stream, Outside, Answer, RunCreated

-----------------------------------------------------------------------------
(* The backup is the first binary, or torn, and it is made before anything *)
(* else is touched; what replaces the target is whole.                     *)
InstallInv ==
    /\ InstallTypeOK
    /\ Original \in hasRun
    /\ script = "backup" => backup = NoFile
    /\ backup = NoFile => script \in {"idle", "backup"} /\ target = Original
    /\ backup \in {NoFile, Original, Torn}
    /\ backup = Torn => cuts > 0
    /\ script \in {"stop", "replace"} => pending = bundle
    /\ script = "restart" => target = backup

LEMMA InstallInitially == InstallInit => InstallInv
BY InstallAssumption DEF InstallInit, InstallInv, InstallTypeOK, Binary, ScriptStep

LEMMA StartedKeeps ==
  ASSUME InstallTypeOK, Started
  PROVE  service' \in Binary \cup {NoFile} /\ hasRun' \subseteq Binary /\ hasRun \subseteq hasRun'
BY DEF InstallTypeOK, Started, Starts

LEMMA InstallStepKeeps == InstallInv /\ [Next]_vars => InstallInv'
<1> SUFFICES ASSUME InstallInv, [Next]_vars
             PROVE  InstallInv'
  OBVIOUS
<1> USE InstallAssumption DEF InstallInv, InstallTypeOK, Binary, ScriptStep
<1>1. ASSUME NEW v \in Releases, Begin(v)
      PROVE  InstallInv'
  BY <1>1 DEF Begin
<1>2. CASE CopyBackup
  BY <1>2 DEF CopyBackup, Copied, CutShort
<1>3. CASE CopyPending
  BY <1>3 DEF CopyPending, Copied, CutShort
<1>4. CASE StopService
  BY <1>4 DEF StopService
<1>5. CASE Replace
  BY <1>5 DEF Replace
<1>6. CASE StartAndCheck
  BY <1>6, StartedKeeps DEF StartAndCheck
<1>7. CASE Restore
  BY <1>7 DEF Restore, Copied, CutShort
<1>8. CASE Restart
  BY <1>8, StartedKeeps DEF Restart
<1>9. CASE Killed
  BY <1>9 DEF Killed
<1>10. CASE Boot
  BY <1>10, StartedKeeps DEF Boot
<1>11. CASE UNCHANGED installVars
  BY <1>11 DEF installVars
<1> QED
  BY <1>1, <1>2, <1>3, <1>4, <1>5, <1>6, <1>7, <1>8, <1>9, <1>10, <1>11, InstallSteps DEF OtherStep

LEMMA InstallInvariant == Spec => []InstallInv
<1>1. Init => InstallInv
  BY InstallInitially DEF Init
<1> QED
  BY <1>1, InstallStepKeeps, PTL DEF Spec

-----------------------------------------------------------------------------
(* A client without input of its own, on an unbroken connection: its pump  *)
(* for input waits, and the one for the log ends after the last line.      *)
Undisturbed == asked = 0 /\ gcs # "broken"

AllPassed == gcs = "closed" /\ taken = sent /\ passed = taken

StreamInv ==
    /\ ProxyTypeOK
    /\ gcs = "closed" => ended /\ sent = written
    /\ handler = "none" <=> client = "none"
    /\ pump["logs"] = "write" => passed < taken
    /\ handler = "dialed" => client \in {"waiting", "left"}
    /\ client = "waiting" => handler = "dialed"
    /\ handler = "pumping" \/ client \in {"open", "eof"} => \A d \in Direction : pump[d] # "off"
    /\ handler \in {"none", "dialed"} =>
           done = 0 /\ passed = taken /\ \A d \in Direction : pump[d] = "off"
    /\ client \in {"open", "eof"} => handler \in {"pumping", "ended"}
    /\ client = "eof" => handler = "ended" /\ received = passed
    /\ client = "open" /\ handler = "pumping" /\ Undisturbed =>
           /\ pump["input"] = "read"
           /\ pump["logs"] = "read" => passed = taken
           /\ pump["logs"] = "write" => passed + 1 = taken
           /\ pump["logs"] \in {"signal", "gone"} => AllPassed
           /\ done > 0 => pump["logs"] = "gone"
    /\ client \in {"open", "eof"} /\ handler = "ended" /\ Undisturbed =>
           AllPassed /\ pump["logs"] = "gone"

LEMMA StreamInitially == ProxyInit => StreamInv
<1> SUFFICES ASSUME ProxyInit
             PROVE  StreamInv
  OBVIOUS
<1>1. ProxyTypeOK
  <2>1. pump \in [Direction -> {"off", "read", "write", "signal", "gone"}]
    BY DEF ProxyInit
  <2>2. /\ written = 0 /\ sent = 0 /\ taken = 0 /\ passed = 0 /\ received = 0
        /\ inputs = 0 /\ asked = 0 /\ done = 0
    BY DEF ProxyInit
  <2>3. handler = "none" /\ gcs = "off" /\ client = "none" /\ ended = FALSE
    BY DEF ProxyInit
  <2>4. /\ written \in 0..MaxLines /\ sent \in 0..written /\ taken \in 0..sent
        /\ passed \in 0..taken /\ received \in 0..passed
        /\ inputs \in 0..asked /\ asked \in 0..MaxInputs /\ done \in 0..2
    BY <2>2, ProxyAssumption
  <2>5. /\ handler \in {"none", "dialed", "pumping", "ended"}
        /\ gcs \in {"off", "open", "closed", "broken"}
        /\ client \in {"none", "waiting", "open", "eof", "archive", "reset", "left"}
        /\ ended \in BOOLEAN
    BY <2>3
  <2> QED
    BY <2>1, <2>4, <2>5 DEF ProxyTypeOK
<1>2. \A d \in Direction : pump[d] = "off"
  BY DEF ProxyInit
<1>3. "logs" \in Direction
  BY DEF Direction
<1> QED
  BY <1>1, <1>2, <1>3 DEF ProxyInit, StreamInv

LEMMA StreamSteps ==
  [Next]_vars => UNCHANGED proxyVars \/ Request \/ Upgrade \/ LogsPump \/ InputPump
                     \/ HandlerReturns \/ OutsideStep \/ CutStream
BY DEF Next, vars, Install, Stop, Operator, Ask, Serve, Stream, Outside, Answer, RunCreated, Handler

LEMMA StreamStepKeeps == StreamInv /\ [Next]_vars => StreamInv'
<1> SUFFICES ASSUME StreamInv, [Next]_vars
             PROVE  StreamInv'
  OBVIOUS
<1> USE ProxyAssumption DEF StreamInv, ProxyTypeOK, Direction, Undisturbed, AllPassed, pumping, lines,
                            Shut, PumpGo
<1>1. CASE Request
  BY <1>1 DEF Request
<1>2. CASE Upgrade
  BY <1>2 DEF Upgrade
<1>3. CASE LogsRead
  BY <1>3 DEF LogsRead
<1>4. CASE LogsWrite
  BY <1>4 DEF LogsWrite
<1>5. CASE InputRead
  BY <1>5 DEF InputRead
<1>6. CASE InputWrite
  BY <1>6 DEF InputWrite
<1>7. ASSUME NEW d \in Direction, Signal(d)
      PROVE  StreamInv'
  BY <1>7 DEF Signal
<1>8. CASE HandlerReturns
  BY <1>8 DEF HandlerReturns
<1>9. CASE ContainerWrites
  BY <1>9 DEF ContainerWrites
<1>10. CASE ContainerEnds
  BY <1>10 DEF ContainerEnds
<1>11. CASE GcsSends
  BY <1>11 DEF GcsSends
<1>12. CASE GcsBreaks
  BY <1>12 DEF GcsBreaks
<1>13. CASE ClientReads
  BY <1>13 DEF ClientReads
<1>14. CASE ClientSends
  BY <1>14 DEF ClientSends
<1>15. CASE ClientLeaves
  BY <1>15 DEF ClientLeaves
<1>16. CASE CutStream
  BY <1>16 DEF CutStream
<1>17. CASE UNCHANGED proxyVars
  BY <1>17 DEF proxyVars
<1> QED
  BY <1>1, <1>2, <1>3, <1>4, <1>5, <1>6, <1>7, <1>8, <1>9, <1>10, <1>11, <1>12, <1>13, <1>14, <1>15,
     <1>16, <1>17, StreamSteps DEF LogsPump, InputPump, OutsideStep

LEMMA StreamInvariant == Spec => []StreamInv
<1>1. Init => StreamInv
  BY StreamInitially DEF Init
<1> QED
  BY <1>1, StreamStepKeeps, PTL DEF Spec

-----------------------------------------------------------------------------
(* The state is always of its types.                                       *)
THEOREM DeploymentTypeCorrect == Spec => []TypeOK
<1>1. InstallInv /\ StreamInv /\ SummaryInv => TypeOK
  BY DEF InstallInv, StreamInv, SummaryInv, TypeOK
<1> QED
  BY <1>1, InstallInvariant, StreamInvariant, SummaryInvariant, PTL

(* Only the rollback can leave a torn binary behind.                       *)
THEOREM UpgradesTearNothing == Spec => OnlyRollbackTears
<1>1. InstallInv /\ [Next]_vars => [target' = Torn /\ target # Torn => script = "restore"]_vars
  <2> SUFFICES ASSUME InstallInv, [Next]_vars, target' = Torn, target # Torn
               PROVE  script = "restore"
    OBVIOUS
  <2>1. CASE Replace
    BY <2>1, InstallAssumption DEF Replace, InstallInv, InstallTypeOK, Binary
  <2>2. CASE Restore
    BY <2>2 DEF Restore
  <2>3. CASE UNCHANGED target
    BY <2>3
  <2> QED
    BY <2>1, <2>2, <2>3, InstallSteps
    DEF OtherStep, installVars, Begin, CopyBackup, CopyPending, StopService, StartAndCheck, Restart,
        Killed, Boot
<1> QED
  BY <1>1, InstallInvariant, PTL DEF Spec, OnlyRollbackTears

(* A rollback starts a binary that has run on this host.                   *)
THEOREM RollbacksHaveRun == Spec => []RollbackHasRun
<1>1. InstallInv => RollbackHasRun
  BY InstallAssumption DEF InstallInv, InstallTypeOK, RollbackHasRun
<1> QED
  BY <1>1, InstallInvariant, PTL

(* A client that sees the end of a stream has the whole log.               *)
THEOREM StreamsAreComplete == Spec => []StreamComplete
<1>1. StreamInv => StreamComplete
  BY DEF StreamInv, Undisturbed, AllPassed, StreamComplete
<1> QED
  BY <1>1, StreamInvariant, PTL
=============================================================================

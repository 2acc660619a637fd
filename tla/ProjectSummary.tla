--------------------------- MODULE ProjectSummary ---------------------------
(***************************************************************************)
(* GET /projects/{id}/summary counts the runs of a project.  It reads them *)
(* page by page, newest first, and counts the rows in a statement of its   *)
(* own; between two statements runs are created.  That the project goes    *)
(* with all its runs meanwhile is left out.                                *)
(***************************************************************************)
EXTENDS Naturals, SequencesExt

CONSTANTS
    Runs,      \* runs that may be created
    PageSize   \* 100 in the code

ASSUME SummaryAssumption == IsFiniteSet(Runs) /\ PageSize \in Nat \ {0}

VARIABLES
    listed,   \* the rows ORDER BY created_at DESC
    summary,  \* the step of the request
    page,     \* the page it reads
    items,    \* how many rows the last page had
    seen,     \* [run -> how often it was counted]
    total,    \* of the last count
    before,   \* history: the runs listed when the request began
    quiet     \* history: no run was created since it began

summaryVars == <<listed, summary, page, items, seen, total, before, quiet>>
request == <<summary, page, items, seen, total>>

Listed == ToSet(listed)

SummaryTypeOK ==
    /\ listed \in Seq(Runs)
    /\ summary \in {"none", "list", "count", "answered", "failed"}
    /\ page \in Nat \ {0}
    /\ items \in 0..PageSize
    /\ seen \in [Runs -> Nat]
    /\ total \in Nat
    /\ before \subseteq Runs
    /\ quiet \in BOOLEAN

SummaryInit ==
    /\ listed = <<>>
    /\ summary = "none"
    /\ page = 1
    /\ items = 0
    /\ seen = [r \in Runs |-> 0]
    /\ total = 0
    /\ before = {}
    /\ quiet = TRUE

(* The rows are of interest from here on; the project may have any.        *)
Summarise ==
    /\ summary = "none"
    /\ summary' = "list"
    /\ \E S \in SUBSET Runs : listed' \in SetToSeqs(S)
    /\ before' = ToSet(listed')
    /\ UNCHANGED <<page, items, seen, total, quiet>>

(* A run gets its time of creation before it is inserted, so one whose     *)
(* request was overtaken appears behind younger ones.                      *)
InsertRun(r) ==
    /\ summary \in {"list", "count"}
    /\ r \notin Listed
    /\ \E i \in 1..Len(listed) + 1 : listed' = InsertAt(listed, i, r)
    /\ quiet' = FALSE
    /\ UNCHANGED <<request, before>>

(* A bug kept for the mutation runs.                                       *)
OffsetSkipsOne == (page - 1) * PageSize + 1

Offset == (page - 1) * PageSize

(* LIMIT PageSize OFFSET Offset.  A statement that fails ends the request. *)
PageRows == {listed[i] : i \in {k \in DOMAIN listed : Offset < k /\ k <= Offset + PageSize}}

PageLength ==
    IF Len(listed) >= Offset + PageSize THEN PageSize
    ELSE IF Len(listed) > Offset THEN Len(listed) - Offset ELSE 0

ListPage ==
    /\ summary = "list"
    /\ \/ /\ summary' = "count"
          /\ items' = PageLength
          /\ seen' = [r \in Runs |-> IF r \in PageRows THEN seen[r] + 1 ELSE seen[r]]
       \/ summary' = "failed" /\ UNCHANGED <<items, seen>>
    /\ UNCHANGED <<listed, page, total, before, quiet>>

(* A bug kept for the mutation runs: one page less.                        *)
LastPageEarly(n) == items < PageSize \/ (page + 1) * PageSize >= n

LastPage(n) == items < PageSize \/ page * PageSize >= n

CountRuns ==
    /\ summary = "count"
    /\ \/ /\ total' = Len(listed)
          /\ IF LastPage(Len(listed))
             THEN summary' = "answered" /\ UNCHANGED page
             ELSE summary' = "list" /\ page' = page + 1
       \/ summary' = "failed" /\ UNCHANGED <<total, page>>
    /\ UNCHANGED <<listed, items, seen, before, quiet>>

CutSummary ==
    /\ summary' = IF summary \in {"list", "count"} THEN "failed" ELSE summary
    /\ UNCHANGED <<listed, page, items, seen, total, before, quiet>>

Answering == ListPage \/ CountRuns
=============================================================================

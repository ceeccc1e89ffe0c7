------------------------------ MODULE Figures ------------------------------
(***************************************************************************)
(* What users look at: dashboards, analytics, lists of complaints, and the *)
(* inbox of notifications.  Each figure is a query of its own; the queries *)
(* of a view are issued together and answered in any order, each by the    *)
(* documents as they are at that moment, while services go on writing.  A  *)
(* figure is kept as the set of documents it counts.  There is one reader: *)
(* readers change nothing.                                                 *)
(***************************************************************************)
EXTENDS Integers, FiniteSets, Sequences, SequencesExt

CONSTANTS
    Document,       \* identities of complaints, or of notifications in the inbox
    Limit,          \* the limit of the lists
    Rows,           \* bound: the rows that services write, of all there may be
    MaxWrites       \* bound: writes while a view is read

VARIABLES
    document,       \* document[x]: what the queries ask of x
    rank,           \* rank[x]: where the sort of the list puts x; two may share a rank
    reader,         \* the view that is read, the figures it has and those it waits for
    writes          \* ghost: documents written since the reading began

vars == <<document, rank, reader, writes>>

\* done: a complaint resolved, verified or closed, a notification read.  mine: whether the
\* scope of the view matches, which is a ward, an officer, a citizen or a recipient.  marked: a
\* complaint that breached its deadline, a notification of the type that is asked for.
Row == [status : {"none", "open", "done"}, mine : BOOLEAN, marked : BOOLEAN]
NoRow == [status |-> "none", mine |-> FALSE, marked |-> FALSE]

ASSUME FiguresAssumption ==
    /\ IsFiniteSet(Document)
    /\ Limit \in Nat \ {0}
    /\ Rows \subseteq {row \in Row : row.status # "none"}
    /\ MaxWrites \in Nat

There == {x \in Document : document[x].status # "none"}
Mine == {x \in There : document[x].mine}
Unread == {x \in Mine : document[x].status = "open"}

\* What a query string narrows a list to: the inbox by isRead, by type or by both.
Filter == [status : SUBSET {"open", "done"}, marked : SUBSET BOOLEAN]
Everything == [status |-> {"open", "done"}, marked |-> BOOLEAN]
Listed == {x \in Mine : /\ document[x].status \in reader.filter.status
                        /\ document[x].marked \in reader.filter.marked}

-----------------------------------------------------------------------------
(* Views and their figures *)

SlaMetrics == {"slaTotal", "slaBreached", "slaCompliant"}

\* The figures of each view.  Breakdowns by priority and category are as the one by status.
WardAnalytics == {"total", "byStatus"} \cup SlaMetrics
OfficerAnalytics == {"total", "resolved"} \cup SlaMetrics
CouncillorDashboard == {"total", "byStatus", "ward total"}
OfficerDashboard == {"total", "byStatus uncast", "breached"}
CitizenDashboard == {"total", "byStatus uncast"}
WardComparison == {"comparison"}
ComplaintList == {"rows", "count"}
Inbox == {"rows", "count", "unread"}

\* What the MLA sees is what a ward would show if its filter matched everything.
ConstituencyKPIs == WardAnalytics
MLADashboard == CouncillorDashboard

Queries(view) ==
    CASE view = "ward analytics"       -> WardAnalytics
      [] view = "KPIs"                 -> ConstituencyKPIs
      [] view = "officer analytics"    -> OfficerAnalytics
      [] view = "councillor dashboard" -> CouncillorDashboard
      [] view = "MLA dashboard"        -> MLADashboard
      [] view = "officer dashboard"    -> OfficerDashboard
      [] view = "citizen dashboard"    -> CitizenDashboard
      [] view = "ward comparison"      -> WardComparison
      [] view = "list"                 -> ComplaintList
      [] view = "inbox"                -> Inbox

\* Views with the same queries are read alike; one of them stands for both.
Views == {"ward analytics", "officer analytics", "councillor dashboard", "officer dashboard",
          "citizen dashboard", "ward comparison", "list", "inbox"}
Paged == {"list", "inbox"}

Filters(view) ==
    IF view = "inbox" THEN [status : {{"open"}, {"done"}, {"open", "done"}}, marked : {{TRUE}, BOOLEAN}]
    ELSE {Everything}

\* Mutant: the filter is not passed on.
CompliantEverywhere == {x \in There : ~document[x].marked}

\* Every complaint has a deadline, so the one that is asked for makes no difference.
Compliant == {x \in Mine : ~document[x].marked}

\* The unread of an inbox are counted whatever the list is narrowed to.  An aggregation does not
\* cast its filter: the id of a user, a string, matches no document.
Counted(q) ==
    CASE q \in {"total", "ward total", "byStatus", "slaTotal"} -> Mine
      [] q = "count"                       -> Listed
      [] q \in {"breached", "slaBreached"} -> {x \in Mine : document[x].marked}
      [] q = "slaCompliant"                -> Compliant
      [] q = "resolved"                    -> {x \in Mine : document[x].status = "done"}
      [] q = "unread"                      -> Unread
      [] q = "byStatus uncast"             -> {}

-----------------------------------------------------------------------------
(* Lists *)

\* Mutant: pages are counted from zero.
SkipFromZero(page) == page * Limit

\* buildPaginationQuery, for a page that is at least 1.
Skip(page) == (page - 1) * Limit

\* The orders of S that the sort allows: documents of one rank come in any order.
Orders(S) ==
    {o \in SetToSeqs(S) : \A i, j \in DOMAIN o : i < j => rank[o[i]] <= rank[o[j]]}

\* find with sort, skip and limit.
Pages(page) ==
    {{o[i] : i \in (Skip(page) + 1..Skip(page) + Limit) \cap DOMAIN o} : o \in Orders(Listed)}

\* ApiResponse.paginated: hasNext.
HasNext(page, total) == page * Limit < total

-----------------------------------------------------------------------------

\* The reader keeps what it was last answered.  A client of a list asks for page after page and
\* counts how often it was shown each document.
Idle == [view |-> "idle", filter |-> Everything, waits |-> {}, figure |-> <<>>,
         page |-> 1, shown |-> [x \in Document |-> 0]]

Init ==
    /\ document = [x \in Document |-> NoRow]
    /\ rank \in [Document -> 1..Cardinality(Document)]
    /\ reader = Idle
    /\ writes = 0

Reading == reader.waits # {}

\* A service creates a document or changes one; a list that is paged through is read as long
\* as there is a next page.
Write(x, row) ==
    /\ writes < MaxWrites
    /\ row # document[x]
    /\ document' = [document EXCEPT ![x] = row]
    /\ writes' = IF reader = Idle THEN 0 ELSE writes + 1
    /\ UNCHANGED <<rank, reader>>

\* updateMany writes one document after the other; a query that looks in between finds what it
\* finds between two steps of Write.
MarkAllAsRead ==
    /\ reader.view = "inbox"
    /\ writes < MaxWrites
    /\ document' = [x \in Document |-> IF x \in Unread THEN [document[x] EXCEPT !.status = "done"]
                                       ELSE document[x]]
    /\ writes' = writes + Cardinality(Unread)
    /\ UNCHANGED <<rank, reader>>

\* Promise.all over the queries of the view.
Open(view, filter) ==
    /\ reader = Idle
    /\ reader' = [Idle EXCEPT !.view = view, !.filter = filter, !.waits = Queries(view),
                              !.figure = [q \in Queries(view) |-> {}]]
    /\ writes' = 0
    /\ UNCHANGED <<document, rank>>

AnswerCount(q) ==
    /\ q \in reader.waits \ {"rows", "comparison"}
    /\ reader' = [reader EXCEPT !.waits = @ \ {q}, !.figure[q] = Counted(q)]
    /\ UNCHANGED <<document, rank, writes>>

\* One aggregation groups by ward and counts in each group: it is one look at all of them.
AnswerComparison ==
    /\ "comparison" \in reader.waits
    /\ reader' = [reader EXCEPT !.waits = {}, !.figure["comparison"] = Mine]
    /\ UNCHANGED <<document, rank, writes>>

AnswerRows ==
    /\ "rows" \in reader.waits
    /\ \E rows \in Pages(reader.page) :
          reader' = [reader EXCEPT !.waits = @ \ {"rows"}, !.figure["rows"] = rows,
                         !.shown = [x \in Document |-> IF x \in rows THEN @[x] + 1 ELSE @[x]]]
    /\ UNCHANGED <<document, rank, writes>>

NextPage ==
    /\ reader.view \in Paged
    /\ ~Reading
    /\ HasNext(reader.page, Cardinality(reader.figure["count"]))
    /\ reader' = [reader EXCEPT !.waits = Queries(reader.view), !.page = @ + 1]
    /\ UNCHANGED <<document, rank, writes>>

\* The page is left.
Close ==
    /\ reader # Idle
    /\ ~Reading
    /\ reader' = Idle
    /\ writes' = 0
    /\ UNCHANGED <<document, rank>>

Next ==
    \/ \E x \in Document, row \in Rows : Write(x, row)
    \/ MarkAllAsRead
    \/ \E view \in Views : \E filter \in Filters(view) : Open(view, filter)
    \/ \E q \in reader.waits : AnswerCount(q)
    \/ AnswerComparison
    \/ AnswerRows
    \/ NextPage
    \/ Close

Spec == Init /\ [][Next]_vars

-----------------------------------------------------------------------------
(* Properties *)

Figure(q) == reader.figure[q]
Has(q) == q \in DOMAIN reader.figure

\* Two figures that should be of the same complaints differ by one for each write at most.
Agree(S, T) == Cardinality(S \ T) + Cardinality(T \ S) <= writes

\* The figures of a view add up, but for the writes that came between its queries: in a quiet
\* moment the breakdown adds up to the total, what is compliant and what is not to all there
\* is, and nothing has a rate of more than 100 percent.  The unread of an inbox are among its
\* rows only if nothing was asked for: narrowed to what is unread the rows are among them,
\* narrowed to what was read no row is.
FiguresAddUp ==
    ~Reading =>
        /\ Has("byStatus") => Agree(Figure("total"), Figure("byStatus"))
        /\ Has("ward total") => Agree(Figure("total"), Figure("ward total"))
        /\ Has("slaTotal") =>
              /\ Agree(Figure("slaTotal"), Figure("slaBreached") \cup Figure("slaCompliant"))
              /\ Cardinality(Figure("slaBreached") \cap Figure("slaCompliant")) <= writes
              /\ Cardinality(Figure("slaCompliant") \ Figure("slaTotal")) <= writes
        /\ Has("resolved") => Cardinality(Figure("resolved") \ Figure("total")) <= writes
        /\ Has("breached") => Cardinality(Figure("breached") \ Figure("total")) <= writes
        /\ Has("unread") =>
              /\ reader.filter = Everything =>
                    Cardinality(Figure("unread") \ Figure("count")) <= writes
              /\ reader.filter.status = {"open"} =>
                    Cardinality(Figure("count") \ Figure("unread")) <= writes
              /\ reader.filter.status = {"done"} =>
                    Cardinality(Figure("unread") \cap Figure("count")) <= writes

\* Who pages through a list to its end is shown everything in it once, if nothing was
\* written meanwhile and no two have the same rank.
PagesCover ==
    /\ reader.view \in Paged
    /\ ~Reading
    /\ ~HasNext(reader.page, Cardinality(Figure("count")))
    /\ writes = 0
    /\ \A x, y \in Listed : x # y => rank[x] # rank[y]
    => \A x \in Document : reader.shown[x] = IF x \in Listed THEN 1 ELSE 0

=============================================================================

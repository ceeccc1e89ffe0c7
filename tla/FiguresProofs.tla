--------------------------- MODULE FiguresProofs ---------------------------
(***************************************************************************)
(* What users are shown, for any number of documents, users and writes:    *)
(* the figures of a view add up, pages cover a list, and the counter of a  *)
(* complaint is that of its votes.                                         *)
(***************************************************************************)
EXTENDS Figures, Upvotes, FiniteSetTheorems, TLAPS

CountQueries == {"total", "ward total", "byStatus", "slaTotal", "count", "breached", "slaBreached",
                 "slaCompliant", "resolved", "unread", "byStatus uncast"}

\* What the figures of a view have in common, view by view.
LEMMA QueriesOfViews ==
    /\ Queries("ward analytics") = {"total", "byStatus", "slaTotal", "slaBreached", "slaCompliant"}
    /\ Queries("officer analytics") = {"total", "resolved", "slaTotal", "slaBreached", "slaCompliant"}
    /\ Queries("councillor dashboard") = {"total", "byStatus", "ward total"}
    /\ Queries("officer dashboard") = {"total", "byStatus uncast", "breached"}
    /\ Queries("citizen dashboard") = {"total", "byStatus uncast"}
    /\ Queries("ward comparison") = {"comparison"}
    /\ Queries("list") = {"rows", "count"}
    /\ Queries("inbox") = {"rows", "count", "unread"}
BY DEF Queries, WardAnalytics, OfficerAnalytics, CouncillorDashboard, OfficerDashboard,
       CitizenDashboard, WardComparison, ComplaintList, Inbox, SlaMetrics

LEMMA ViewQueries ==
    ASSUME NEW v \in Views
    PROVE  LET Q == Queries(v) IN
           /\ Q \subseteq CountQueries \cup {"rows", "comparison"}
           /\ "comparison" \in Q => Q = {"comparison"}
           /\ "rows" \in Q <=> v \in Paged
           /\ "count" \in Q <=> v \in Paged
           /\ "byStatus" \in Q => "total" \in Q
           /\ "ward total" \in Q => "total" \in Q
           /\ "slaTotal" \in Q => "slaBreached" \in Q /\ "slaCompliant" \in Q
           /\ "resolved" \in Q => "total" \in Q
           /\ "breached" \in Q => "total" \in Q
           /\ "unread" \in Q => "count" \in Q
<1>0. CASE v = "officer analytics"
  BY <1>0, QueriesOfViews DEF Paged, CountQueries
<1>1. CASE v = "ward analytics"
  BY <1>1, QueriesOfViews DEF Paged, CountQueries
<1>2. CASE v = "councillor dashboard"
  BY <1>2, QueriesOfViews DEF Paged, CountQueries
<1>3. CASE v \in {"officer dashboard", "citizen dashboard"}
  BY <1>3, QueriesOfViews DEF Paged, CountQueries
<1>4. CASE v \in {"ward comparison", "list", "inbox"}
  BY <1>4, QueriesOfViews DEF Paged, CountQueries
<1> QED
  BY <1>0, <1>1, <1>2, <1>3, <1>4 DEF Views

-----------------------------------------------------------------------------
(* Types *)

FigureSets == UNION {[Queries(v) -> SUBSET Document] : v \in Views}

ReaderRecord ==
    [view : Views, filter : Filter, waits : SUBSET (CountQueries \cup {"rows", "comparison"}),
     figure : FigureSets, page : Nat \ {0}, shown : [Document -> Nat]]

FigureType ==
    /\ document \in [Document -> Row]
    /\ rank \in [Document -> Nat]
    /\ writes \in Nat
    /\ reader = Idle \/ /\ reader \in ReaderRecord
                        /\ reader.waits \subseteq Queries(reader.view)
                        /\ reader.figure \in [Queries(reader.view) -> SUBSET Document]

LEMMA CountedIsDocuments ==
    ASSUME NEW q \in CountQueries
    PROVE  Counted(q) \subseteq Document /\ Mine \subseteq Document
BY DEF CountQueries, Counted, Compliant, Listed, Unread, Mine, There

LEMMA PageIsDocuments ==
    ASSUME NEW page, NEW rows \in Pages(page)
    PROVE  rows \subseteq Listed /\ rows \subseteq Document
<1>1. PICK o \in Orders(Listed) :
         rows = {o[i] : i \in (Skip(page) + 1..Skip(page) + Limit) \cap DOMAIN o}
  BY DEF Pages
<1>2. o \in [1..Cardinality(Listed) -> Listed]
  BY DEF Orders, SetToSeqs
<1>3. \A i \in DOMAIN o : o[i] \in Listed
  BY <1>2
<1> QED
  BY <1>1, <1>3 DEF Listed, Mine, There

LEMMA IdleIs ==
    /\ Idle.view = "idle" /\ Idle.waits = {} /\ Idle.page = 1
    /\ DOMAIN Idle.figure = {} /\ Idle.shown = [x \in Document |-> 0]
    /\ Idle \notin ReaderRecord
<1>1. Idle.figure = <<>>
  BY DEF Idle
<1>2. DOMAIN << >> = {}
  OBVIOUS
<1>3. "idle" \notin Views
  BY DEF Views
<1> QED
  BY <1>1, <1>2, <1>3 DEF Idle, ReaderRecord

LEMMA FilterTypes == \A view \in Views : Filters(view) \subseteq Filter
<1>1. /\ \A S \in {{"open"}, {"done"}, {"open", "done"}} : S \in SUBSET {"open", "done"}
      /\ \A M \in {{TRUE}, BOOLEAN} : M \in SUBSET BOOLEAN
  OBVIOUS
<1>2. Everything \in Filter
  BY <1>1 DEF Everything, Filter
<1>3. [status : {{"open"}, {"done"}, {"open", "done"}}, marked : {{TRUE}, BOOLEAN}] \subseteq Filter
  BY <1>1 DEF Filter
<1> QED
  BY <1>2, <1>3 DEF Filters

LEMMA OpenType ==
    ASSUME FigureType, NEW view \in Views, NEW filter \in Filters(view), Open(view, filter)
    PROVE  /\ FigureType' /\ reader' \in ReaderRecord
           /\ reader'.view = view /\ reader'.filter = filter /\ reader'.waits = Queries(view) /\ reader'.page = 1
           /\ reader'.figure = [q \in Queries(view) |-> {}]
           /\ reader'.shown = [x \in Document |-> 0]
<1>1. reader' = [view |-> view, filter |-> filter, waits |-> Queries(view),
                 figure |-> [q \in Queries(view) |-> {}],
                 page |-> 1, shown |-> [x \in Document |-> 0]]
  BY DEF Open, Idle
<1>0. filter \in Filter
  BY FilterTypes
<1>2. [q \in Queries(view) |-> {}] \in [Queries(view) -> SUBSET Document]
  OBVIOUS
<1>3. [q \in Queries(view) |-> {}] \in FigureSets
  BY <1>2 DEF FigureSets
<1>4. [x \in Document |-> 0] \in [Document -> Nat]
  OBVIOUS
<1> DEFINE Q == Queries(view)
           f == [q \in Queries(view) |-> {}]
           s == [x \in Document |-> 0]
<1>5. Q \subseteq CountQueries \cup {"rows", "comparison"}
  BY ViewQueries
<1> HIDE DEF Q, f, s
<1>6. [view |-> view, filter |-> filter, waits |-> Q, figure |-> f, page |-> 1, shown |-> s]
         \in ReaderRecord
  BY <1>0, <1>3, <1>4, <1>5 DEF ReaderRecord, f, s
<1>7. /\ reader' \in ReaderRecord /\ reader'.view = view /\ reader'.filter = filter
      /\ reader'.waits = Q
      /\ reader'.page = 1 /\ reader'.figure = f /\ reader'.shown = s
  BY <1>1, <1>6 DEF Q, f, s
<1>8. FigureType'
  BY <1>2, <1>7 DEF Open, FigureType, Q, f
<1> QED
  BY <1>7, <1>8 DEF Q, f, s

\* What an answer makes of the reader.
LEMMA AnswerCountType ==
    ASSUME FigureType, NEW q, AnswerCount(q)
    PROVE  /\ FigureType' /\ reader \in ReaderRecord /\ reader' \in ReaderRecord
           /\ q \in Queries(reader.view) /\ q \in CountQueries
           /\ reader'.view = reader.view /\ reader'.waits = reader.waits \ {q}
           /\ reader'.page = reader.page /\ reader'.shown = reader.shown
           /\ reader'.filter = reader.filter
           /\ reader'.figure = [reader.figure EXCEPT ![q] = Counted(q)]
<1>1. reader \in ReaderRecord
  BY IdleIs DEF FigureType, AnswerCount
<1>2. q \in Queries(reader.view) /\ q \in CountQueries /\ reader.view \in Views
  BY <1>1, IdleIs, ViewQueries DEF FigureType, AnswerCount, ReaderRecord
<1>3. Counted(q) \subseteq Document
  BY <1>2, CountedIsDocuments
<1>4. reader.figure \in [Queries(reader.view) -> SUBSET Document]
  BY <1>1, IdleIs DEF FigureType
<1>5. /\ reader' = [reader EXCEPT !.waits = reader.waits \ {q},
                                  !.figure = [reader.figure EXCEPT ![q] = Counted(q)]]
      /\ UNCHANGED <<document, rank, writes>>
  BY <1>1 DEF AnswerCount, ReaderRecord
<1>6. [reader.figure EXCEPT ![q] = Counted(q)] \in [Queries(reader.view) -> SUBSET Document]
  BY <1>2, <1>3, <1>4
<1>7. [reader.figure EXCEPT ![q] = Counted(q)] \in FigureSets
  BY <1>2, <1>6 DEF FigureSets
<1>8. /\ reader'.view = reader.view /\ reader'.waits = reader.waits \ {q}
      /\ reader'.filter = reader.filter
      /\ reader'.page = reader.page /\ reader'.shown = reader.shown
      /\ reader'.figure = [reader.figure EXCEPT ![q] = Counted(q)]
  BY <1>1, <1>5 DEF ReaderRecord
<1>9. reader' \in ReaderRecord
  BY <1>1, <1>5, <1>7 DEF ReaderRecord
<1>10. FigureType'
  BY <1>1, <1>5, <1>6, <1>8, <1>9, IdleIs DEF FigureType
<1> QED
  BY <1>1, <1>2, <1>8, <1>9, <1>10

LEMMA AnswerComparisonType ==
    ASSUME FigureType, AnswerComparison
    PROVE  /\ FigureType' /\ reader \in ReaderRecord /\ reader' \in ReaderRecord
           /\ Queries(reader.view) = {"comparison"} /\ reader'.view = reader.view
           /\ reader'.filter = reader.filter
           /\ DOMAIN reader'.figure = {"comparison"}
<1>1. reader \in ReaderRecord /\ "comparison" \in reader.waits
  BY IdleIs DEF FigureType, AnswerComparison
<1>2. reader.view \in Views /\ "comparison" \in Queries(reader.view)
  BY <1>1, IdleIs DEF FigureType, ReaderRecord
<1>3. Queries(reader.view) = {"comparison"}
  BY <1>2, ViewQueries
<1> DEFINE f == [reader.figure EXCEPT !["comparison"] = Mine]
<1>4. reader.figure \in [{"comparison"} -> SUBSET Document] /\ Mine \subseteq Document
  BY <1>1, <1>3, IdleIs DEF FigureType, Mine, There
<1>5. f \in [Queries(reader.view) -> SUBSET Document]
  BY <1>3, <1>4
<1>6. f \in FigureSets /\ DOMAIN f = {"comparison"}
  BY <1>2, <1>3, <1>5 DEF FigureSets
<1>7. reader' = [reader EXCEPT !.waits = {}, !.figure = f] /\ UNCHANGED <<document, rank, writes>>
  BY <1>1 DEF AnswerComparison, ReaderRecord
<1> HIDE DEF f
<1>8. /\ reader' \in ReaderRecord /\ reader'.view = reader.view /\ reader'.filter = reader.filter
      /\ reader'.waits = {} /\ reader'.figure = f
  BY <1>1, <1>6, <1>7 DEF ReaderRecord
<1>9. FigureType'
  BY <1>5, <1>7, <1>8 DEF FigureType
<1> QED
  BY <1>1, <1>3, <1>6, <1>8, <1>9

LEMMA AnswerRowsType ==
    ASSUME FigureType, AnswerRows
    PROVE  /\ FigureType' /\ reader \in ReaderRecord /\ reader' \in ReaderRecord
           /\ "rows" \in Queries(reader.view)
           /\ reader'.view = reader.view /\ reader'.filter = reader.filter
           /\ reader'.waits = reader.waits \ {"rows"}
           /\ reader'.page = reader.page /\ DOMAIN reader'.figure = DOMAIN reader.figure
           /\ \A q \in DOMAIN reader.figure \ {"rows"} : reader'.figure[q] = reader.figure[q]
           /\ \E rows \in Pages(reader.page) : \A x \in Document :
                 reader'.shown[x] = IF x \in rows THEN reader.shown[x] + 1 ELSE reader.shown[x]
<1>1. reader \in ReaderRecord /\ "rows" \in reader.waits
  BY IdleIs DEF FigureType, AnswerRows
<1>2. reader.view \in Views /\ "rows" \in Queries(reader.view)
  BY <1>1, IdleIs DEF FigureType, ReaderRecord
<1>3. PICK rows \in Pages(reader.page) :
         reader' = [reader EXCEPT !.waits = @ \ {"rows"}, !.figure["rows"] = rows,
                         !.shown = [x \in Document |-> IF x \in rows THEN @[x] + 1 ELSE @[x]]]
  BY DEF AnswerRows
<1> DEFINE f == [reader.figure EXCEPT !["rows"] = rows]
           s == [x \in Document |-> IF x \in rows THEN reader.shown[x] + 1 ELSE reader.shown[x]]
<1>4. reader.figure \in [Queries(reader.view) -> SUBSET Document] /\ rows \subseteq Document
  BY <1>1, IdleIs, PageIsDocuments DEF FigureType
<1>5. /\ f \in [Queries(reader.view) -> SUBSET Document] /\ DOMAIN f = DOMAIN reader.figure
      /\ \A q \in DOMAIN reader.figure \ {"rows"} : f[q] = reader.figure[q]
  BY <1>2, <1>4
<1>6. f \in FigureSets
  BY <1>2, <1>5 DEF FigureSets
<1>7. s \in [Document -> Nat]
  BY <1>1 DEF ReaderRecord
<1>8. /\ reader' = [reader EXCEPT !.waits = reader.waits \ {"rows"}, !.figure = f, !.shown = s]
      /\ UNCHANGED <<document, rank, writes>>
  BY <1>1, <1>3 DEF AnswerRows, ReaderRecord
<1>9. \A x \in Document : s[x] = IF x \in rows THEN reader.shown[x] + 1 ELSE reader.shown[x]
  OBVIOUS
<1> HIDE DEF f, s
<1>10. /\ reader' \in ReaderRecord /\ reader'.view = reader.view /\ reader'.filter = reader.filter
       /\ reader'.waits = reader.waits \ {"rows"} /\ reader'.page = reader.page
       /\ reader'.figure = f /\ reader'.shown = s
  BY <1>1, <1>6, <1>7, <1>8 DEF ReaderRecord
<1>11. FigureType'
  BY <1>1, <1>5, <1>8, <1>10, IdleIs DEF FigureType
<1> QED
  BY <1>1, <1>2, <1>5, <1>9, <1>10, <1>11

LEMMA NextPageType ==
    ASSUME FigureType, NextPage
    PROVE  /\ FigureType' /\ reader \in ReaderRecord /\ reader' \in ReaderRecord
           /\ reader'.view = reader.view /\ reader'.filter = reader.filter
           /\ reader'.waits = Queries(reader.view)
           /\ reader'.page = reader.page + 1 /\ reader'.shown = reader.shown
           /\ reader'.figure = reader.figure /\ DOMAIN reader.figure = Queries(reader.view)
<1>1. reader \in ReaderRecord /\ reader.view \in Views
  BY IdleIs DEF FigureType, NextPage, Paged, ReaderRecord
<1>2. reader.figure \in [Queries(reader.view) -> SUBSET Document]
  BY <1>1, IdleIs DEF FigureType
<1>3. Queries(reader.view) \subseteq CountQueries \cup {"rows", "comparison"}
  BY <1>1, ViewQueries
<1>4. /\ reader' = [reader EXCEPT !.waits = Queries(reader.view), !.page = reader.page + 1]
      /\ UNCHANGED <<document, rank, writes>>
  BY <1>1 DEF NextPage, ReaderRecord
<1> DEFINE Q == Queries(reader.view)
           p == reader.page + 1
<1>5. p \in Nat \ {0}
  BY <1>1 DEF ReaderRecord
<1>6. reader' = [reader EXCEPT !.waits = Q, !.page = p]
  BY <1>4
<1> HIDE DEF Q, p
<1>7. /\ reader' \in ReaderRecord /\ reader'.view = reader.view /\ reader'.filter = reader.filter
      /\ reader'.waits = Q /\ reader'.page = p
      /\ reader'.shown = reader.shown /\ reader'.figure = reader.figure
  BY <1>1, <1>3, <1>5, <1>6 DEF ReaderRecord, Q
<1>8. /\ reader' \in ReaderRecord /\ reader'.view = reader.view /\ reader'.filter = reader.filter
      /\ reader'.waits = Queries(reader.view) /\ reader'.page = reader.page + 1
      /\ reader'.shown = reader.shown /\ reader'.figure = reader.figure
  BY <1>7 DEF Q, p
<1>9. FigureType'
  BY <1>2, <1>4, <1>8 DEF FigureType
<1> QED
  BY <1>1, <1>2, <1>8, <1>9

LEMMA WriteType ==
    ASSUME FigureType, NEW x \in Document, NEW row \in Rows, Write(x, row)
    PROVE  /\ FigureType' /\ reader' = reader
           /\ \A y \in Document \ {x} : document'[y] = document[y]
<1>1. document' = [document EXCEPT ![x] = row] /\ UNCHANGED <<rank, reader>> /\ writes' \in Nat
  BY DEF Write, FigureType
<1>2. row \in Row
  BY FiguresAssumption
<1> QED
  BY <1>1, <1>2 DEF FigureType

LEMMA MarkAllType ==
    ASSUME FigureType, MarkAllAsRead
    PROVE  /\ FigureType' /\ reader' = reader /\ reader # Idle
           /\ Unread \subseteq Document /\ Cardinality(Unread) \in Nat
           /\ writes' = writes + Cardinality(Unread)
           /\ \A y \in Document \ Unread : document'[y] = document[y]
<1>1. \A x \in Document : /\ document'[x] \in Row
                          /\ x \notin Unread => document'[x] = document[x]
  BY DEF MarkAllAsRead, FigureType, Row
<1>2. Unread \subseteq Document
  BY DEF Unread, Mine, There
<1>3. Cardinality(Unread) \in Nat
  BY <1>2, FiguresAssumption, FS_Subset, FS_CardinalityType
<1>4. /\ document' \in [Document -> Row] /\ writes' = writes + Cardinality(Unread)
      /\ UNCHANGED <<rank, reader>> /\ reader.view = "inbox"
  BY <1>1 DEF MarkAllAsRead, FigureType
<1>5. reader # Idle
  BY <1>4, IdleIs
<1>6. writes' \in Nat
  BY <1>3, <1>4 DEF FigureType
<1> QED
  BY <1>1, <1>2, <1>3, <1>4, <1>5, <1>6 DEF FigureType

LEMMA FigureTypeInit == Init => FigureType
<1> SUFFICES ASSUME Init PROVE FigureType
  OBVIOUS
<1>1. Cardinality(Document) \in Nat
  BY FiguresAssumption, FS_CardinalityType
<1>2. NoRow \in Row
  BY DEF NoRow, Row
<1> QED
  BY <1>1, <1>2 DEF Init, FigureType

LEMMA FigureTypeStep == FigureType /\ [Next]_vars => FigureType'
<1> SUFFICES ASSUME FigureType, [Next]_vars PROVE FigureType'
  OBVIOUS
<1>1. CASE Close
  BY <1>1 DEF Close, FigureType
<1>2. CASE UNCHANGED vars
  BY <1>2 DEF vars, FigureType
<1> QED
  BY <1>1, <1>2, WriteType, MarkAllType, OpenType, AnswerCountType, AnswerComparisonType,
     AnswerRowsType, NextPageType DEF Next

-----------------------------------------------------------------------------
(* Figures add up *)

Breached == {x \in Mine : document[x].marked}

\* The figure q is what the query counts now, but for the documents of W.
AgreesBut(q, W) ==
    /\ q \in {"total", "ward total", "byStatus", "slaTotal"} => Figure(q) \ W = Mine \ W
    /\ q = "count" => Figure(q) \ W = Listed \ W
    /\ q \in {"breached", "slaBreached"} => Figure(q) \ W = Breached \ W
    /\ q = "slaCompliant" => Figure(q) \ W = Compliant \ W
    /\ q = "resolved" => Figure(q) \ W \subseteq Mine \ W
    /\ q = "unread" => Figure(q) \ W = Unread \ W

\* The figures that are there agree but for documents written since the reading began; these
\* are not more than the writes.
Torn(W) ==
    /\ Cardinality(W) <= writes
    /\ \A q \in DOMAIN reader.figure \ reader.waits : AgreesBut(q, W)

TornInv == \E W \in SUBSET Document : Torn(W)

\* A figure agrees with what it was made of.
LEMMA AnswerAgrees ==
    ASSUME NEW q \in CountQueries, NEW W, Figure(q)' = Counted(q),
           UNCHANGED document, reader'.filter = reader.filter
    PROVE  AgreesBut(q, W)'
<1>1. UNCHANGED <<Mine, Breached, Compliant, Listed, Unread>>
  BY DEF Mine, There, Breached, Compliant, Listed, Unread
<1>2. CASE q \in {"total", "ward total", "byStatus", "slaTotal"}
  BY <1>1, <1>2 DEF Counted, AgreesBut
<1>3. CASE q \in {"breached", "slaBreached"}
  BY <1>1, <1>3 DEF Counted, AgreesBut, Breached
<1>4. CASE q = "slaCompliant"
  BY <1>1, <1>4 DEF Counted, AgreesBut
<1>5. CASE q \in {"count", "resolved", "unread"}
  BY <1>1, <1>5 DEF Counted, AgreesBut
<1>6. CASE q = "byStatus uncast"
  BY <1>1, <1>6 DEF Counted, AgreesBut
<1> QED
  BY <1>2, <1>3, <1>4, <1>5, <1>6 DEF CountQueries

\* Agreement outlasts every step that leaves the other documents alone.
LEMMA StillAgrees ==
    ASSUME NEW q, NEW W, NEW V, W \subseteq V, AgreesBut(q, W), Figure(q)' = Figure(q),
           Mine' \ V = Mine \ V, Breached' \ V = Breached \ V, Compliant' \ V = Compliant \ V,
           Listed' \ V = Listed \ V, Unread' \ V = Unread \ V
    PROVE  AgreesBut(q, V)'
<1>1. /\ q \in {"total", "ward total", "byStatus", "slaTotal"} => Figure(q) \ V = Mine \ V
      /\ q = "count" => Figure(q) \ V = Listed \ V
      /\ q \in {"breached", "slaBreached"} => Figure(q) \ V = Breached \ V
      /\ q = "slaCompliant" => Figure(q) \ V = Compliant \ V
      /\ q = "resolved" => Figure(q) \ V \subseteq Mine \ V
      /\ q = "unread" => Figure(q) \ V = Unread \ V
  BY DEF AgreesBut
<1> HIDE DEF Figure, Mine, Breached, Compliant, Listed, Unread
<1> QED
  BY <1>1 DEF AgreesBut

\* Writing the documents of V, and counting them, keeps what agrees so.
LEMMA WritingTorn ==
    ASSUME FigureType, TornInv, NEW V \in SUBSET Document,
           writes' = writes + Cardinality(V), reader' = reader,
           \A y \in Document \ V : document'[y] = document[y]
    PROVE  TornInv'
<1>1. PICK W \in SUBSET Document : Torn(W)
  BY DEF TornInv
<1> DEFINE U == W \cup V
<1>2. Cardinality(U) <= writes'
  <2>1. IsFiniteSet(W) /\ IsFiniteSet(V) /\ IsFiniteSet(U)
    BY FiguresAssumption, FS_Subset
  <2>2. Cardinality(U) = Cardinality(W) + Cardinality(V) - Cardinality(W \cap V)
    BY <2>1, FS_Union
  <2>3. /\ Cardinality(W) \in Nat /\ Cardinality(V) \in Nat /\ Cardinality(U) \in Nat
        /\ Cardinality(W \cap V) \in Nat
    BY <2>1, FS_CardinalityType, FS_Intersection
  <2> HIDE DEF U
  <2> QED
    BY <1>1, <2>2, <2>3 DEF Torn, FigureType
<1>3. /\ Mine' \ U = Mine \ U /\ Breached' \ U = Breached \ U /\ Compliant' \ U = Compliant \ U
      /\ Listed' \ U = Listed \ U /\ Unread' \ U = Unread \ U
  BY DEF Mine, There, Breached, Compliant, Listed, Unread
<1>4. W \subseteq U /\ U \in SUBSET Document
  OBVIOUS
<1> HIDE DEF U
<1>5. \A q \in DOMAIN reader'.figure \ reader'.waits : AgreesBut(q, U)'
  BY <1>1, <1>3, <1>4, StillAgrees DEF Torn, Figure
<1>6. Torn(U)'
  BY <1>2, <1>5 DEF Torn
<1> QED
  BY <1>4, <1>6 DEF TornInv

LEMMA WriteTorn ==
    ASSUME FigureType, TornInv, NEW x \in Document, NEW row \in Rows, Write(x, row)
    PROVE  TornInv'
<1>1. CASE reader = Idle
  <2>1. DOMAIN reader'.figure = {} /\ writes' = 0
    BY <1>1, IdleIs DEF Write
  <2>2. Torn({})'
    BY <2>1, FS_EmptySet DEF Torn
  <2> QED
    BY <2>2 DEF TornInv
<1>2. CASE reader # Idle
  <2>1. writes' = writes + 1 /\ Cardinality({x}) = 1
    BY <1>2, FS_Singleton DEF Write
  <2>2. reader' = reader /\ \A y \in Document \ {x} : document'[y] = document[y]
    BY WriteType
  <2> QED
    BY <2>1, <2>2, WritingTorn
<1> QED
  BY <1>1, <1>2

\* A step that writes nothing, and after which every figure is answered now or was there.
LEMMA ReadTorn ==
    ASSUME TornInv, UNCHANGED <<document, writes>>, reader'.filter = reader.filter,
           \A q \in DOMAIN reader'.figure \ reader'.waits :
              \/ q \in CountQueries /\ reader'.figure[q] = Counted(q)
              \/ q \in {"rows", "comparison"}
              \/ /\ q \in DOMAIN reader.figure \ reader.waits
                 /\ reader'.figure[q] = reader.figure[q]
    PROVE  TornInv'
<1>1. PICK W \in SUBSET Document : Torn(W)
  BY DEF TornInv
<1>2. UNCHANGED <<Mine, Breached, Compliant, Listed, Unread>>
  BY DEF Mine, There, Breached, Compliant, Listed, Unread
<1>3. ASSUME NEW q \in DOMAIN reader'.figure \ reader'.waits
      PROVE  AgreesBut(q, W)'
  <2>1. CASE q \in CountQueries /\ reader'.figure[q] = Counted(q)
    BY <2>1, AnswerAgrees DEF Figure
  <2>2. CASE q \in {"rows", "comparison"}
    BY <2>2 DEF AgreesBut
  <2>3. CASE q \in DOMAIN reader.figure \ reader.waits /\ reader'.figure[q] = reader.figure[q]
    BY <1>1, <1>2, <2>3, StillAgrees DEF Torn, Figure
  <2> QED
    BY <1>3, <2>1, <2>2, <2>3
<1>4. Torn(W)'
  BY <1>1, <1>3 DEF Torn
<1> QED
  BY <1>4 DEF TornInv

LEMMA TornStep == FigureType /\ TornInv /\ [Next]_vars => TornInv'
<1> SUFFICES ASSUME FigureType, TornInv, [Next]_vars PROVE TornInv'
  OBVIOUS
<1>1. ASSUME NEW x \in Document, NEW row \in Rows, Write(x, row) PROVE TornInv'
  BY <1>1, WriteTorn
<1>2. CASE MarkAllAsRead
  BY <1>2, MarkAllType, WritingTorn
<1>3. ASSUME NEW view \in Views, NEW filter \in Filters(view), Open(view, filter) PROVE TornInv'
  <2>1. writes' = 0 /\ DOMAIN reader'.figure \ reader'.waits = {}
    BY <1>3, OpenType DEF Open
  <2>2. Torn({})'
    BY <2>1, FS_EmptySet DEF Torn
  <2> QED
    BY <2>2 DEF TornInv
<1>4. ASSUME NEW q \in reader.waits, AnswerCount(q) PROVE TornInv'
  <2>1. reader.figure \in [Queries(reader.view) -> SUBSET Document]
    BY <1>4, AnswerCountType, IdleIs DEF FigureType
  <2>2. /\ q \in CountQueries /\ q \in Queries(reader.view)
        /\ reader'.waits = reader.waits \ {q}
        /\ reader'.figure = [reader.figure EXCEPT ![q] = Counted(q)]
    BY <1>4, AnswerCountType
  <2>3. ASSUME NEW p \in DOMAIN reader'.figure \ reader'.waits
        PROVE  \/ p \in CountQueries /\ reader'.figure[p] = Counted(p)
               \/ /\ p \in DOMAIN reader.figure \ reader.waits
                  /\ reader'.figure[p] = reader.figure[p]
    <3>1. CASE p = q
      BY <2>1, <2>2, <3>1
    <3>2. CASE p # q
      BY <2>1, <2>2, <3>2
    <3> QED
      BY <3>1, <3>2
  <2> QED
    BY <1>4, <2>3, ReadTorn DEF AnswerCount
<1>5. CASE AnswerComparison
  BY <1>5, AnswerComparisonType, ReadTorn DEF AnswerComparison
<1>6. CASE AnswerRows
  BY <1>6, AnswerRowsType, ReadTorn DEF AnswerRows
<1>7. CASE NextPage
  BY <1>7, NextPageType, ReadTorn DEF NextPage
<1>8. CASE Close
  <2>1. DOMAIN reader'.figure = {} /\ writes' = 0
    BY <1>8, IdleIs DEF Close
  <2>2. Torn({})'
    BY <2>1, FS_EmptySet DEF Torn
  <2> QED
    BY <2>2 DEF TornInv
<1>9. CASE UNCHANGED vars
  BY <1>9, ReadTorn DEF vars
<1> QED
  BY <1>1, <1>2, <1>3, <1>4, <1>5, <1>6, <1>7, <1>8, <1>9 DEF Next

\* Sets that are equal but for the documents written differ by no more than the writes.
LEMMA EqualBut ==
    ASSUME FigureType, NEW W \in SUBSET Document, Cardinality(W) <= writes,
           NEW S \in SUBSET Document, NEW T \in SUBSET Document, S \ W = T \ W
    PROVE  Agree(S, T)
<1> DEFINE A == S \ T
           B == T \ S
<1>1. A \subseteq Document /\ B \subseteq Document /\ A \cap B = {} /\ A \cup B \subseteq W
  OBVIOUS
<1> HIDE DEF A, B
<1>2. IsFiniteSet(W) /\ IsFiniteSet(A) /\ IsFiniteSet(B)
  BY <1>1, FiguresAssumption, FS_Subset
<1>3. Cardinality(A \cup B) = Cardinality(A) + Cardinality(B) - Cardinality(A \cap B)
  BY <1>2, FS_Union
<1>4. Cardinality(A \cup B) <= Cardinality(W)
  BY <1>1, <1>2, FS_Subset
<1>5. Cardinality(A \cap B) = 0
  BY <1>1, FS_EmptySet
<1>6. Cardinality(A) \in Nat /\ Cardinality(B) \in Nat /\ Cardinality(W) \in Nat
  BY <1>2, FS_CardinalityType
<1>7. Cardinality(A) + Cardinality(B) <= writes
  BY <1>3, <1>4, <1>5, <1>6 DEF FigureType
<1> QED
  BY <1>7 DEF Agree, A, B

LEMMA WithinWritten ==
    ASSUME FigureType, NEW W \in SUBSET Document, Cardinality(W) <= writes, NEW S \in SUBSET W
    PROVE  Cardinality(S) <= writes
<1>1. IsFiniteSet(W) /\ IsFiniteSet(S) /\ Cardinality(S) <= Cardinality(W)
  BY FiguresAssumption, FS_Subset
<1> QED
  BY <1>1, FS_CardinalityType DEF FigureType

LEMMA TornAddsUp == FigureType /\ TornInv => FiguresAddUp
<1> SUFFICES ASSUME FigureType, TornInv, ~Reading PROVE FiguresAddUp
  BY DEF FiguresAddUp
<1>1. CASE reader = Idle
  BY <1>1, IdleIs DEF FiguresAddUp, Has
<1>2. CASE reader # Idle
  <2>1. /\ reader.view \in Views /\ reader.waits = {}
        /\ reader.figure \in [Queries(reader.view) -> SUBSET Document]
    BY <1>2 DEF FigureType, ReaderRecord, Reading
  <2>2. PICK W \in SUBSET Document : Torn(W)
    BY DEF TornInv
  <2>3. /\ \A q : Has(q) <=> q \in Queries(reader.view)
        /\ \A q : Has(q) => Figure(q) \in SUBSET Document /\ AgreesBut(q, W)
        /\ Cardinality(W) <= writes
    BY <2>1, <2>2 DEF Torn, Has, Figure
  <2>4. /\ Has("byStatus") => Has("total")
        /\ Has("ward total") => Has("total")
        /\ Has("slaTotal") => Has("slaBreached") /\ Has("slaCompliant")
        /\ Has("resolved") => Has("total")
        /\ Has("breached") => Has("total")
        /\ Has("unread") => Has("count")
    BY <2>1, <2>3, ViewQueries
  <2>5. Breached \subseteq Mine /\ Compliant \subseteq Mine /\ Breached \cup Compliant = Mine
        /\ Breached \cap Compliant = {}
    BY DEF Breached, Compliant
  <2>6. ASSUME Has("byStatus") PROVE Agree(Figure("total"), Figure("byStatus"))
    <3>1. /\ Figure("total") \ W = Mine \ W /\ Figure("byStatus") \ W = Mine \ W
          /\ Figure("total") \in SUBSET Document /\ Figure("byStatus") \in SUBSET Document
      BY <2>3, <2>4, <2>6 DEF AgreesBut
    <3> QED
      BY <2>3, <3>1, EqualBut
  <2>7. ASSUME Has("ward total") PROVE Agree(Figure("total"), Figure("ward total"))
    <3>1. /\ Figure("total") \ W = Mine \ W /\ Figure("ward total") \ W = Mine \ W
          /\ Figure("total") \in SUBSET Document /\ Figure("ward total") \in SUBSET Document
      BY <2>3, <2>4, <2>7 DEF AgreesBut
    <3> QED
      BY <2>3, <3>1, EqualBut
  <2>8. ASSUME Has("slaTotal")
        PROVE  /\ Agree(Figure("slaTotal"), Figure("slaBreached") \cup Figure("slaCompliant"))
               /\ Cardinality(Figure("slaBreached") \cap Figure("slaCompliant")) <= writes
               /\ Cardinality(Figure("slaCompliant") \ Figure("slaTotal")) <= writes
    <3> DEFINE T == Figure("slaTotal")
               B == Figure("slaBreached")
               C == Figure("slaCompliant")
    <3>1. /\ T \in SUBSET Document /\ B \in SUBSET Document /\ C \in SUBSET Document
          /\ T \ W = Mine \ W /\ B \ W = Breached \ W /\ C \ W = Compliant \ W
      BY <2>3, <2>4, <2>8 DEF AgreesBut
    <3> HIDE DEF T, B, C
    <3>2. /\ B \cup C \in SUBSET Document /\ T \ W = (B \cup C) \ W
          /\ B \cap C \subseteq W /\ C \ T \subseteq W
      BY <2>5, <3>1
    <3>3. Agree(T, B \cup C)
      BY <2>3, <3>1, <3>2, EqualBut
    <3>4. Cardinality(B \cap C) <= writes /\ Cardinality(C \ T) <= writes
      BY <2>3, <3>2, WithinWritten
    <3> QED
      BY <3>3, <3>4 DEF T, B, C
  <2>9. ASSUME Has("resolved") PROVE Cardinality(Figure("resolved") \ Figure("total")) <= writes
    <3>1. Figure("resolved") \ Figure("total") \subseteq W
      BY <2>3, <2>4, <2>9 DEF AgreesBut
    <3> QED
      BY <2>3, <3>1, WithinWritten
  <2>10. ASSUME Has("unread")
         PROVE  /\ reader.filter = Everything =>
                      Cardinality(Figure("unread") \ Figure("count")) <= writes
                /\ reader.filter.status = {"open"} =>
                      Cardinality(Figure("count") \ Figure("unread")) <= writes
                /\ reader.filter.status = {"done"} =>
                      Cardinality(Figure("unread") \cap Figure("count")) <= writes
    <3> DEFINE U == Figure("unread")
               C == Figure("count")
    <3>1. /\ U \in SUBSET Document /\ C \in SUBSET Document
          /\ U \ W = Unread \ W /\ C \ W = Listed \ W
      BY <2>3, <2>4, <2>10 DEF AgreesBut
    <3> HIDE DEF U, C
    <3>2. \A x \in Mine : document[x] \in Row
      BY DEF FigureType, Mine, There
    <3>3. reader.filter = Everything => Unread \subseteq Listed
      BY <3>2 DEF Everything, Unread, Listed, Row
    <3>4. reader.filter.status = {"open"} => Listed \subseteq Unread
      BY DEF Unread, Listed
    <3>5. reader.filter.status = {"done"} => Unread \cap Listed = {}
      BY DEF Unread, Listed
    <3>6. /\ reader.filter = Everything => U \ C \subseteq W
          /\ reader.filter.status = {"open"} => C \ U \subseteq W
          /\ reader.filter.status = {"done"} => U \cap C \subseteq W
      BY <3>1, <3>3, <3>4, <3>5
    <3> QED
      BY <2>3, <3>6, WithinWritten DEF U, C
  <2>11. ASSUME Has("breached") PROVE Cardinality(Figure("breached") \ Figure("total")) <= writes
    <3>1. Figure("breached") \ W = Breached \ W /\ Figure("total") \ W = Mine \ W
      BY <2>3, <2>4, <2>11 DEF AgreesBut
    <3>2. Figure("breached") \ Figure("total") \subseteq W
      BY <2>5, <3>1
    <3> QED
      BY <2>3, <3>2, WithinWritten
  <2> QED
    BY <2>6, <2>7, <2>8, <2>9, <2>10, <2>11 DEF FiguresAddUp
<1> QED
  BY <1>1, <1>2

\* The figures of every view add up but for what was written between its queries, for any
\* number of documents and of writes.
THEOREM FiguresAddUpHolds == Spec => []FiguresAddUp
<1>1. Init => FigureType /\ TornInv
  <2>1. Init => Torn({})
    BY IdleIs, FS_EmptySet DEF Init, Torn
  <2> QED
    BY <2>1, FigureTypeInit DEF TornInv
<1>2. FigureType /\ TornInv /\ [Next]_vars => (FigureType /\ TornInv)'
  BY FigureTypeStep, TornStep
<1> QED
  BY <1>1, <1>2, TornAddsUp, PTL DEF Spec

-----------------------------------------------------------------------------
(* Pages *)

Distinct == \A x, y \in Listed : x # y => rank[x] # rank[y]

\* The place of a document in the list: how many do not come after it.
Place(x) == Cardinality({y \in Listed : rank[y] <= rank[x]})

\* How many places have been shown.
ShownUpTo == (reader.page - 1) * Limit + (IF "rows" \in reader.waits THEN 0 ELSE Limit)

PageInv ==
    reader # Idle /\ reader.view \in Paged /\ writes = 0 /\ Distinct =>
        /\ \A x \in Document :
              reader.shown[x] = IF x \in Listed /\ Place(x) <= ShownUpTo THEN 1 ELSE 0
        /\ "count" \notin reader.waits => Figure("count") = Listed

LEMMA ListedFinite ==
    /\ IsFiniteSet(Listed) /\ Cardinality(Listed) \in Nat /\ Listed \subseteq Document
<1>1. Listed \subseteq Document
  BY DEF Listed, Mine, There
<1> QED
  BY <1>1, FiguresAssumption, FS_Subset, FS_CardinalityType

LEMMA PlaceBounds ==
    ASSUME FigureType, NEW x \in Listed
    PROVE  Place(x) \in 1..Cardinality(Listed)
<1> DEFINE S == {y \in Listed : rank[y] <= rank[x]}
<1>1. rank[x] \in Nat
  BY ListedFinite DEF FigureType
<1>2. S \subseteq Listed /\ x \in S
  BY <1>1
<1> HIDE DEF S
<1>3. IsFiniteSet(S) /\ Cardinality(S) <= Cardinality(Listed)
  BY <1>2, ListedFinite, FS_Subset
<1>4. Cardinality(S) \in Nat /\ Cardinality(S) # 0
  BY <1>2, <1>3, FS_CardinalityType, FS_EmptySet
<1>5. Place(x) = Cardinality(S)
  BY DEF Place, S
<1> QED
  BY <1>3, <1>4, <1>5, ListedFinite

LEMMA PlaceFromOne == FigureType => \A x \in Listed : Place(x) \in Nat \ {0}
BY PlaceBounds, ListedFinite

LEMMA PlaceFromOneNext == FigureType' => (\A x \in Listed : Place(x) \in Nat \ {0})'
BY PlaceFromOne, PTL

\* Where no two have the same rank there is one order, and it shows each in its place.
LEMMA OrderPlaces ==
    ASSUME FigureType, Distinct, NEW o \in Orders(Listed)
    PROVE  /\ o \in [1..Cardinality(Listed) -> Listed]
           /\ \A i \in 1..Cardinality(Listed) : Place(o[i]) = i
           /\ \A x \in Listed : \E i \in 1..Cardinality(Listed) : o[i] = x
<1> DEFINE N == Cardinality(Listed)
<1>1. /\ o \in [1..N -> Listed] /\ \A i, j \in 1..N : i # j => o[i] # o[j]
      /\ \A i, j \in 1..N : i < j => rank[o[i]] <= rank[o[j]]
  BY DEF Orders, SetToSeqs
<1>2. N \in Nat /\ IsFiniteSet(Listed) /\ Listed \subseteq Document
  BY ListedFinite
<1> HIDE DEF N
<1>3. o \in Injection(1..N, Listed)
  BY <1>1 DEF Injection, IsInjective
<1>4. Cardinality(1..N) = N
  BY <1>2, FS_Interval
<1>5. o \in Surjection(1..N, Listed)
  BY <1>2, <1>3, <1>4, FS_Injection DEF N
<1>6. \A x \in Listed : \E i \in 1..N : o[i] = x
  BY <1>5 DEF Surjection
<1>7. ASSUME NEW i \in 1..N PROVE Place(o[i]) = i
  <2> DEFINE S == {y \in Listed : rank[y] <= rank[o[i]]}
             g == [j \in 1..i |-> o[j]]
  <2>1. \A j \in 1..N : rank[o[j]] \in Nat /\ o[j] \in Listed
    BY <1>1, <1>2 DEF FigureType
  <2>2. \A j \in 1..N : rank[o[j]] <= rank[o[i]] <=> j <= i
    <3> SUFFICES ASSUME NEW j \in 1..N PROVE rank[o[j]] <= rank[o[i]] <=> j <= i
      OBVIOUS
    <3>1. CASE j < i
      BY <1>1, <3>1
    <3>2. CASE j = i
      BY <2>1, <3>2
    <3>3. CASE j > i
      <4>1. rank[o[i]] <= rank[o[j]] /\ o[i] # o[j]
        BY <1>1, <3>3
      <4>2. rank[o[i]] # rank[o[j]]
        BY <2>1, <4>1 DEF Distinct
      <4> QED
        BY <2>1, <3>3, <4>1, <4>2
    <3> QED
      BY <1>2, <3>1, <3>2, <3>3
  <2>3. \A j \in 1..i : j \in 1..N
    BY <1>2
  <2>4. g \in [1..i -> S]
    BY <2>1, <2>2, <2>3
  <2>5. \A j, k \in 1..i : g[j] = g[k] => j = k
    BY <1>1, <2>3
  <2>6. \A y \in S : \E j \in 1..i : g[j] = y
    <3> SUFFICES ASSUME NEW y \in S PROVE \E j \in 1..i : g[j] = y
      OBVIOUS
    <3>1. PICK j \in 1..N : o[j] = y
      BY <1>6
    <3>2. j <= i
      BY <2>2, <3>1
    <3> QED
      BY <1>2, <3>1, <3>2
  <2> HIDE DEF S, g
  <2>7. g \in Bijection(1..i, S)
    BY <2>4, <2>5, <2>6 DEF Bijection, Injection, Surjection, IsInjective
  <2>8. ExistsBijection(1..i, S)
    BY <2>7 DEF ExistsBijection
  <2>9. Cardinality(S) = i
    BY <1>2, <2>8, FS_CountingElements
  <2> QED
    BY <2>9 DEF Place, S
<1> QED
  BY <1>1, <1>6, <1>7 DEF N

\* A page shows the documents whose place it covers.
LEMMA PageShows ==
    ASSUME FigureType, Distinct, NEW page \in Nat \ {0}, NEW rows \in Pages(page), NEW x
    PROVE  x \in rows <=> /\ x \in Listed
                          /\ (page - 1) * Limit < Place(x) /\ Place(x) <= (page - 1) * Limit + Limit
<1>1. PICK o \in Orders(Listed) :
         rows = {o[i] : i \in (Skip(page) + 1..Skip(page) + Limit) \cap DOMAIN o}
  BY DEF Pages
<1> DEFINE N == Cardinality(Listed)
           s == (page - 1) * Limit
<1>2. /\ o \in [1..N -> Listed] /\ \A i \in 1..N : Place(o[i]) = i
      /\ \A y \in Listed : \E i \in 1..N : o[i] = y
  BY OrderPlaces
<1>3. s \in Nat /\ N \in Nat /\ Limit \in Nat
  BY FiguresAssumption, ListedFinite
<1>4. Skip(page) = s
  BY DEF Skip
<1>5. rows = {o[i] : i \in (s + 1..s + Limit) \cap DOMAIN o}
  BY <1>1, <1>4
<1> HIDE DEF N, s
<1>6. rows = {o[i] : i \in (s + 1..s + Limit) \cap (1..N)}
  BY <1>2, <1>5
<1>7. ASSUME x \in rows PROVE x \in Listed /\ s < Place(x) /\ Place(x) <= s + Limit
  BY <1>2, <1>3, <1>6, <1>7
<1>8. ASSUME x \in Listed, s < Place(x), Place(x) <= s + Limit PROVE x \in rows
  BY <1>2, <1>3, <1>6, <1>8
<1> QED
  BY <1>7, <1>8 DEF s

\* An answer writes no document, and so leaves the places as they are.
LEMMA SamePlaces ==
    ASSUME UNCHANGED <<document, rank>>, reader'.filter = reader.filter
    PROVE  Listed' = Listed /\ (Distinct' <=> Distinct) /\ \A x : Place(x)' = Place(x)
<1>1. Listed' = Listed
  BY DEF Listed, Mine, There
<1> QED
  BY <1>1 DEF Distinct, Place

LEMMA OpenPage ==
    ASSUME FigureType, NEW view \in Views, NEW filter \in Filters(view), Open(view, filter)
    PROVE  PageInv'
<1> SUFFICES ASSUME reader'.view \in Paged, Distinct'
             PROVE  /\ \A x \in Document : reader'.shown[x] =
                          IF x \in Listed' /\ Place(x)' <= ShownUpTo' THEN 1 ELSE 0
                    /\ "count" \in reader'.waits
  BY DEF PageInv
<1>1. "rows" \in Queries(view) /\ "count" \in Queries(view)
  BY OpenType, ViewQueries DEF Paged
<1>2. ShownUpTo' = 0
  <2>1. reader'.page = 1 /\ "rows" \in reader'.waits
    BY <1>1, OpenType
  <2> QED
    BY <2>1, FiguresAssumption DEF ShownUpTo
<1>3. \A x \in Listed' : Place(x)' \in Nat \ {0}
  BY OpenType, PlaceFromOneNext
<1>5. \A x \in Listed' : ~ (Place(x)' <= ShownUpTo')
  BY <1>2, <1>3
<1>6. \A x \in Document : reader'.shown[x] = 0
  BY OpenType
<1> QED
  BY <1>1, <1>5, <1>6, OpenType

LEMMA AnswerCountPage ==
    ASSUME FigureType, PageInv, NEW q, AnswerCount(q)
    PROVE  PageInv'
<1> SUFFICES ASSUME reader'.view \in Paged, writes' = 0, Distinct'
             PROVE  /\ \A x \in Document : reader'.shown[x] =
                          IF x \in Listed' /\ Place(x)' <= ShownUpTo' THEN 1 ELSE 0
                    /\ "count" \notin reader'.waits => Figure("count")' = Listed'
  BY DEF PageInv
<1>1. /\ reader \in ReaderRecord /\ reader # Idle /\ q \in Queries(reader.view) /\ q # "rows"
      /\ reader'.view = reader.view /\ reader'.waits = reader.waits \ {q}
      /\ reader'.page = reader.page /\ reader'.shown = reader.shown
      /\ reader'.filter = reader.filter
      /\ reader'.figure = [reader.figure EXCEPT ![q] = Counted(q)]
      /\ UNCHANGED <<document, rank, writes>>
  BY AnswerCountType, IdleIs DEF AnswerCount
<1>2. Listed' = Listed /\ (Distinct' <=> Distinct) /\ \A x : Place(x)' = Place(x)
  BY <1>1, SamePlaces
<1>3. /\ \A x \in Document :
            reader.shown[x] = IF x \in Listed /\ Place(x) <= ShownUpTo THEN 1 ELSE 0
      /\ "count" \notin reader.waits => reader.figure["count"] = Listed
  BY <1>1, <1>2 DEF PageInv, Figure
<1>4. ShownUpTo' = ShownUpTo
  BY <1>1 DEF ShownUpTo
<1>5. "count" \in DOMAIN reader.figure
  BY <1>1, ViewQueries DEF FigureType, ReaderRecord
<1>6. Counted("count") = Listed
  BY DEF Counted
<1>7. "count" \notin reader'.waits => reader'.figure["count"] = Listed
  BY <1>1, <1>3, <1>5, <1>6
<1> QED
  BY <1>1, <1>2, <1>3, <1>4, <1>7 DEF Figure

LEMMA AnswerRowsPage ==
    ASSUME FigureType, PageInv, AnswerRows
    PROVE  PageInv'
<1> SUFFICES ASSUME reader'.view \in Paged, writes' = 0, Distinct'
             PROVE  /\ \A x \in Document : reader'.shown[x] =
                          IF x \in Listed' /\ Place(x)' <= ShownUpTo' THEN 1 ELSE 0
                    /\ "count" \notin reader'.waits => Figure("count")' = Listed'
  BY DEF PageInv
<1>1. /\ reader \in ReaderRecord /\ reader # Idle /\ "rows" \in reader.waits
      /\ reader'.view = reader.view /\ reader'.waits = reader.waits \ {"rows"}
      /\ reader'.page = reader.page /\ DOMAIN reader'.figure = DOMAIN reader.figure
      /\ reader'.filter = reader.filter
      /\ \A q \in DOMAIN reader.figure \ {"rows"} : reader'.figure[q] = reader.figure[q]
      /\ UNCHANGED <<document, rank, writes>>
  BY AnswerRowsType, IdleIs DEF AnswerRows
<1>2. Listed' = Listed /\ (Distinct' <=> Distinct) /\ \A x : Place(x)' = Place(x)
  BY <1>1, SamePlaces
<1>3. /\ \A x \in Document :
            reader.shown[x] = IF x \in Listed /\ Place(x) <= ShownUpTo THEN 1 ELSE 0
      /\ "count" \notin reader.waits => reader.figure["count"] = Listed
  BY <1>1, <1>2 DEF PageInv, Figure
<1>4. PICK page \in Nat \ {0} : page = reader.page
  BY <1>1 DEF ReaderRecord
<1> DEFINE s == (page - 1) * Limit
<1>5. s \in Nat /\ Limit \in Nat
  BY FiguresAssumption
<1>6. ShownUpTo = s /\ ShownUpTo' = s + Limit
  <2>1. ShownUpTo = s + 0 /\ ShownUpTo' = s + Limit
    BY <1>1, <1>4 DEF ShownUpTo
  <2> QED
    BY <1>5, <2>1
<1>7. PICK rows \in Pages(page) : \A x \in Document :
         reader'.shown[x] = IF x \in rows THEN reader.shown[x] + 1 ELSE reader.shown[x]
  BY <1>4, AnswerRowsType
<1>8. \A x : x \in rows <=> x \in Listed /\ s < Place(x) /\ Place(x) <= s + Limit
  BY <1>2, PageShows
<1>9. \A x \in Listed : Place(x) \in Nat
  BY PlaceBounds, ListedFinite
<1> HIDE DEF s
<1>10. ASSUME NEW x \in Document
       PROVE  reader'.shown[x] = IF x \in Listed /\ Place(x) <= s + Limit THEN 1 ELSE 0
  BY <1>3, <1>5, <1>6, <1>7, <1>8, <1>9
<1>11. "count" \in DOMAIN reader.figure /\ reader.view \in Views
  BY <1>1, ViewQueries DEF FigureType, ReaderRecord
<1> QED
  BY <1>1, <1>2, <1>3, <1>6, <1>10, <1>11 DEF Figure

LEMMA NextPagePage ==
    ASSUME FigureType, PageInv, NextPage
    PROVE  PageInv'
<1> SUFFICES ASSUME writes' = 0, Distinct'
             PROVE  /\ \A x \in Document : reader'.shown[x] =
                          IF x \in Listed' /\ Place(x)' <= ShownUpTo' THEN 1 ELSE 0
                    /\ "count" \in reader'.waits
  BY DEF PageInv
<1>1. /\ reader \in ReaderRecord /\ reader # Idle /\ reader.view \in Paged /\ reader.waits = {}
      /\ reader'.waits = Queries(reader.view)
      /\ reader'.page = reader.page + 1 /\ reader'.shown = reader.shown
      /\ reader'.filter = reader.filter
      /\ UNCHANGED <<document, rank, writes>>
  BY NextPageType, IdleIs DEF NextPage, Reading
<1>2. "rows" \in reader'.waits /\ "count" \in reader'.waits
  BY <1>1, ViewQueries DEF ReaderRecord
<1>3. Listed' = Listed /\ (Distinct' <=> Distinct) /\ \A x : Place(x)' = Place(x)
  BY <1>1, SamePlaces
<1>4. \A x \in Document : reader.shown[x] = IF x \in Listed /\ Place(x) <= ShownUpTo THEN 1 ELSE 0
  BY <1>1, <1>3 DEF PageInv
<1>5. ShownUpTo' = ShownUpTo
  <2>1. PICK p \in Nat : p = reader.page
    BY <1>1 DEF ReaderRecord
  <2>2. ShownUpTo = (p - 1) * Limit + Limit
    BY <1>1, <2>1 DEF ShownUpTo
  <2>3. reader'.page = p + 1 /\ "rows" \in reader'.waits
    BY <1>1, <1>2, <2>1
  <2>4. ShownUpTo' = (p + 1 - 1) * Limit
    BY <2>3, FiguresAssumption DEF ShownUpTo
  <2> QED
    BY <2>2, <2>4, FiguresAssumption
<1> QED
  BY <1>1, <1>2, <1>3, <1>4, <1>5

LEMMA PageStep == FigureType /\ PageInv /\ [Next]_vars => PageInv'
<1> SUFFICES ASSUME FigureType, PageInv, [Next]_vars PROVE PageInv'
  OBVIOUS
<1>1. ASSUME NEW x \in Document, NEW row \in Rows, Write(x, row) PROVE PageInv'
  <2>1. reader' = reader /\ writes' = IF reader = Idle THEN 0 ELSE writes + 1
    BY <1>1 DEF Write
  <2>2. reader' = Idle \/ writes' # 0
    BY <2>1 DEF FigureType
  <2>3. Idle' = Idle
    BY DEF Idle
  <2> QED
    BY <2>2, <2>3 DEF PageInv
<1>2. CASE MarkAllAsRead /\ Unread # {}
  <2>1. Cardinality(Unread) # 0
    BY <1>2, MarkAllType, FiguresAssumption, FS_Subset, FS_EmptySet
  <2>2. writes' # 0
    BY <1>2, <2>1, MarkAllType DEF FigureType
  <2> QED
    BY <2>2 DEF PageInv
<1>3. CASE AnswerComparison
  <2>1. reader'.view \notin Paged
    BY <1>3, AnswerComparisonType, ViewQueries DEF ReaderRecord
  <2> QED
    BY <2>1 DEF PageInv
<1>4. CASE Close
  BY <1>4 DEF Close, PageInv
<1>5. CASE UNCHANGED vars \/ (MarkAllAsRead /\ Unread = {})
  <2>1. UNCHANGED <<document, rank, reader, writes>>
    BY <1>5, FS_EmptySet DEF vars, MarkAllAsRead, FigureType
  <2>2. Listed' = Listed /\ (Distinct' <=> Distinct) /\ \A x : Place(x)' = Place(x)
    BY <2>1, SamePlaces
  <2>3. ShownUpTo' = ShownUpTo /\ Figure("count")' = Figure("count")
    BY <2>1 DEF ShownUpTo, Figure
  <2> QED
    BY <2>1, <2>2, <2>3 DEF PageInv
<1> QED
  BY <1>1, <1>2, <1>3, <1>4, <1>5, OpenPage, AnswerCountPage, AnswerRowsPage, NextPagePage DEF Next

\* At the last page every place has been shown.
LEMMA LastPage == FigureType /\ PageInv => PagesCover
<1> SUFFICES ASSUME FigureType, PageInv, reader.view \in Paged, ~Reading,
                    ~HasNext(reader.page, Cardinality(Figure("count"))), writes = 0, Distinct,
                    NEW x \in Document
             PROVE  reader.shown[x] = IF x \in Listed THEN 1 ELSE 0
  BY DEF PagesCover, Distinct
<1>1. reader # Idle /\ reader \in ReaderRecord
  BY IdleIs DEF Paged, FigureType
<1>2. reader.waits = {} /\ Figure("count") = Listed
  BY <1>1 DEF Reading, PageInv
<1>3. PICK page \in Nat \ {0} : page = reader.page
  BY <1>1 DEF ReaderRecord
<1>4. ShownUpTo = page * Limit
  <2>1. ShownUpTo = (page - 1) * Limit + Limit
    BY <1>2, <1>3 DEF ShownUpTo
  <2> QED
    BY <2>1, FiguresAssumption
<1>5. ~ (page * Limit < Cardinality(Listed))
  BY <1>2, <1>3 DEF HasNext
<1>6. page * Limit \in Nat /\ Cardinality(Listed) \in Nat
  BY FiguresAssumption, ListedFinite
<1>7. x \in Listed => Place(x) <= page * Limit
  <2>1. x \in Listed => Place(x) \in 1..Cardinality(Listed)
    BY PlaceBounds
  <2> QED
    BY <1>5, <1>6, <2>1
<1>8. reader.shown[x] = IF x \in Listed /\ Place(x) <= ShownUpTo THEN 1 ELSE 0
  BY <1>1 DEF PageInv
<1> QED
  BY <1>4, <1>7, <1>8

\* Who pages through a list of any length, by pages of any size, to its end is shown everything
\* in it once, if nothing was written meanwhile and no two have the same rank.
THEOREM PagesCoverHolds == Spec => []PagesCover
<1>1. Init => FigureType /\ PageInv
  BY FigureTypeInit DEF Init, PageInv
<1>2. FigureType /\ PageInv /\ [Next]_vars => (FigureType /\ PageInv)'
  BY FigureTypeStep, PageStep
<1> QED
  BY <1>1, <1>2, LastPage, PTL DEF Spec

-----------------------------------------------------------------------------
(* The counter of votes, for any number of requests of any finite number   *)
(* of users.                                                               *)

USE BoundAssumption DEF BoundAssumption

\* Whatever a request does, it does to votes of users and stops at an await.
LEMMA TypeStep == VotesTypeOK /\ [VotesNext]_voteVars => VotesTypeOK'
  <1> SUFFICES ASSUME VotesTypeOK, [VotesNext]_voteVars  PROVE VotesTypeOK'
    OBVIOUS
  <1> USE DEF VotesTypeOK, Pc, Clients, Goto, Arrive, ghostVars
  <1>1. ASSUME NEW x \in Clients, BeginUpvote(x) \/ BeginRemove(x)  PROVE VotesTypeOK'
    BY <1>1 DEF BeginUpvote, BeginRemove
  <1>2. ASSUME NEW x \in Clients, InsertVote(x) \/ DeleteVote(x)  PROVE VotesTypeOK'
    BY <1>2 DEF InsertVote, DeleteVote
  <1>3. ASSUME NEW x \in Clients, Increment(x) \/ Decrement(x)  PROVE VotesTypeOK'
    BY <1>3 DEF Increment, Decrement
  <1>4. ASSUME NEW x \in Clients, Abort(x)  PROVE VotesTypeOK'
    BY <1>4 DEF Abort
  <1>5. CASE UNCHANGED voteVars
    BY <1>5 DEF voteVars
  <1> QED
    BY <1>1, <1>2, <1>3, <1>4, <1>5 DEF VotesNext

\* Whatever arrives and fails when, votes are of users and requests stand at an await.
THEOREM UpvotesTypeOKHolds == VotesSpec => []VotesTypeOK
  <1>1. VotesInit => VotesTypeOK
    BY DEF VotesInit, VotesTypeOK, Pc, Clients
  <1> QED
    BY <1>1, TypeStep, PTL DEF VotesSpec

-----------------------------------------------------------------------------
(* What a request found when it began is still so when it writes, unless   *)
(* another request of the same user was in flight: a vote about to be      *)
(* inserted is not there, one about to be deleted is.  A removal that      *)
(* finds nothing is therefore one of a user that sent two.                 *)

Found ==
    \A x \in Clients :
        x[1] \notin twice => /\ pc[x] = "insert" => x[1] \notin votes
                             /\ pc[x] = "delete" => x[1] \in votes

Alone ==
    \A x, y \in Clients :
        x[1] = y[1] /\ x # y /\ pc[x] # "idle" /\ pc[y] # "idle" => x[1] \in twice

CountInv == VotesTypeOK /\ Found /\ Alone /\ CountAccounted

\* A request that goes on is counted at its new await, and no longer at its old one.
LEMMA Moves ==
  ASSUME VotesTypeOK, IsFiniteSet(Clients), NEW x \in Clients, NEW l \in Pc, Goto(x, l), NEW m \in Pc
  PROVE  /\ Cardinality(AtPc(m)) \in Nat
         /\ Cardinality(AtPc(m)') = IF l = pc[x] THEN Cardinality(AtPc(m))
                                    ELSE IF l = m THEN Cardinality(AtPc(m)) + 1
                                    ELSE IF pc[x] = m THEN Cardinality(AtPc(m)) - 1
                                    ELSE Cardinality(AtPc(m))
  <1>1. IsFiniteSet(AtPc(m)) /\ Cardinality(AtPc(m)) \in Nat
    <2>1. AtPc(m) \subseteq Clients
      BY DEF AtPc
    <2> QED
      BY <2>1, FS_Subset, FS_CardinalityType
  <1>2. AtPc(m)' = IF l = m THEN AtPc(m) \cup {x} ELSE AtPc(m) \ {x}
    BY DEF AtPc, VotesTypeOK, Goto
  <1>3. x \in AtPc(m) <=> pc[x] = m
    BY DEF AtPc
  <1>4. CASE l = m
    <2>1. Cardinality(AtPc(m) \cup {x}) = IF x \in AtPc(m) THEN Cardinality(AtPc(m))
                                          ELSE Cardinality(AtPc(m)) + 1
      BY <1>1, FS_AddElement
    <2> QED
      BY <1>1, <1>2, <1>3, <1>4, <2>1
  <1>5. CASE l # m
    <2>1. Cardinality(AtPc(m) \ {x}) = IF x \in AtPc(m) THEN Cardinality(AtPc(m)) - 1
                                       ELSE Cardinality(AtPc(m))
      BY <1>1, FS_RemoveElement
    <2> QED
      BY <1>1, <1>2, <1>3, <1>5, <2>1
  <1> QED
    BY <1>4, <1>5

LEMMA CountStep == CountInv /\ [VotesNext]_voteVars => CountInv'
  <1> SUFFICES ASSUME CountInv, [VotesNext]_voteVars  PROVE CountInv'
    OBVIOUS
  <1>1. VotesTypeOK' /\ VotesTypeOK
    BY TypeStep DEF CountInv
  <1>2. IsFiniteSet(Clients)
    BY FS_Product DEF Clients
  <1>3. \A x \in Clients : x[1] \in Voters
    BY DEF Clients
  <1>4. IsFiniteSet(votes) /\ Cardinality(votes) \in Nat
    BY <1>1, FS_Subset, FS_CardinalityType DEF VotesTypeOK
  <1>5. upvoteCount \in Int /\ drift \in Int /\ missed \in Nat
    BY <1>1 DEF VotesTypeOK
  <1>6. ASSUME NEW x \in Clients, NEW l \in Pc, Goto(x, l)
        PROVE  \A y \in Clients : pc'[y] = IF y = x THEN l ELSE pc[y]
    BY <1>1, <1>6 DEF Goto, VotesTypeOK
  <1> DEFINE inc == Cardinality(AtPc("increment"))
             dec == Cardinality(AtPc("decrement"))
             n == Cardinality(votes)
  <1>7. ASSUME NEW x \in Clients, NEW l \in Pc, Goto(x, l)
        PROVE  /\ inc \in Nat /\ dec \in Nat
               /\ inc' = IF l = pc[x] THEN inc ELSE IF l = "increment" THEN inc + 1
                         ELSE IF pc[x] = "increment" THEN inc - 1 ELSE inc
               /\ dec' = IF l = pc[x] THEN dec ELSE IF l = "decrement" THEN dec + 1
                         ELSE IF pc[x] = "decrement" THEN dec - 1 ELSE dec
    BY <1>1, <1>2, <1>7, Moves DEF Pc
  <1>8. upvoteCount = FirstCount + n - inc + dec + drift - missed /\ (missed > 0 => twice # {})
    BY DEF CountInv, CountAccounted
  <1>9. ASSUME upvoteCount' = FirstCount + n' - inc' + dec' + drift' - missed',
               missed' > 0 => twice' # {}
        PROVE  CountAccounted'
    BY <1>9 DEF CountAccounted
  <1> HIDE DEF inc, dec
  <1>10. ASSUME NEW x \in Clients, BeginUpvote(x) \/ BeginRemove(x)  PROVE CountInv'
    <2>1. PICK l \in {"insert", "delete"} : Goto(x, l)
      BY <1>10 DEF BeginUpvote, BeginRemove
    <2>2. /\ UNCHANGED <<votes, upvoteCount, drift, missed>> /\ pc[x] = "idle"
          /\ l = "insert" => x[1] \notin votes
          /\ l = "delete" => x[1] \in votes
      BY <1>10, <2>1, <1>6, <1>1 DEF BeginUpvote, BeginRemove, Arrive, Goto, VotesTypeOK
    <2>3. /\ twice \subseteq twice'
          /\ (\E y \in Clients : y[1] = x[1] /\ pc[y] # "idle") => x[1] \in twice'
      BY <1>10 DEF BeginUpvote, BeginRemove, Arrive
    <2>4. \A y \in Clients : pc'[y] = IF y = x THEN l ELSE pc[y]
      BY <1>6, <2>1 DEF Pc
    <2>5. Found'
      BY <2>2, <2>3, <2>4 DEF CountInv, Found, Clients
    <2>6. Alone'
      BY <2>3, <2>4 DEF CountInv, Alone, Clients
    <2>7. CountAccounted'
      BY <1>4, <1>5, <1>7, <1>8, <1>9, <2>1, <2>2, <2>3 DEF Pc
    <2> QED
      BY <1>1, <2>5, <2>6, <2>7 DEF CountInv
  \* A request that goes on disturbs what others of its user found, and no one else's.
  <1>11. ASSUME NEW x \in Clients, NEW l \in {"idle", "increment", "decrement"}, Goto(x, l),
                pc[x] # "idle", twice' = twice,
                \A v \in Voters \ {x[1]} : v \in votes' <=> v \in votes
         PROVE  Found' /\ Alone'
    <2>1. \A y \in Clients : pc'[y] = IF y = x THEN l ELSE pc[y]
      BY <1>6, <1>11 DEF Pc
    <2>2. Alone'
      BY <1>11, <2>1 DEF CountInv, Alone, Clients
    <2>3. ASSUME NEW y \in Clients, y # x
          PROVE  y[1] \notin twice => /\ pc[y] = "insert" => y[1] \notin votes'
                                      /\ pc[y] = "delete" => y[1] \in votes'
      <3>1. y[1] = x[1] => y[1] \in twice \/ pc[y] = "idle"
        BY <1>11, <2>3 DEF CountInv, Alone
      <3>2. y[1] # x[1] => (y[1] \in votes' <=> y[1] \in votes)
        BY <1>3, <1>11
      <3> QED
        BY <3>1, <3>2 DEF CountInv, Found
    <2>4. Found'
      BY <1>11, <2>1, <2>3 DEF Found, Clients
    <2> QED
      BY <2>2, <2>4
  <1>12. ASSUME NEW x \in Clients, InsertVote(x)  PROVE CountInv'
    <2>1. /\ pc[x] = "insert" /\ votes' = votes \cup {x[1]}
          /\ Goto(x, IF x[1] \in votes THEN "idle" ELSE "increment")
          /\ UNCHANGED <<upvoteCount, drift, missed, twice>>
      BY <1>12 DEF InsertVote, ghostVars
    <2>2. Found' /\ Alone'
      BY <1>11, <2>1
    <2>3. n' = IF x[1] \in votes THEN n ELSE n + 1
      BY <1>4, <2>1, FS_AddElement
    <2>4. CountAccounted'
      BY <1>4, <1>5, <1>7, <1>8, <1>9, <2>1, <2>3 DEF Pc
    <2> QED
      BY <1>1, <2>2, <2>4 DEF CountInv
  <1>13. ASSUME NEW x \in Clients, DeleteVote(x)  PROVE CountInv'
    <2>1. /\ pc[x] = "delete" /\ votes' = votes \ {x[1]} /\ Goto(x, "decrement")
          /\ missed' = IF x[1] \in votes THEN missed ELSE missed + 1
          /\ UNCHANGED <<upvoteCount, drift, twice>>
      BY <1>13 DEF DeleteVote
    <2>2. Found' /\ Alone'
      BY <1>11, <2>1
    <2>3. n' = IF x[1] \in votes THEN n - 1 ELSE n
      BY <1>4, <2>1, FS_RemoveElement
    <2>4. x[1] \in votes \/ twice # {}
      BY <2>1 DEF CountInv, Found
    <2>5. CountAccounted'
      BY <1>4, <1>5, <1>7, <1>8, <1>9, <2>1, <2>3, <2>4 DEF Pc
    <2> QED
      BY <1>1, <2>2, <2>5 DEF CountInv
  <1>14. ASSUME NEW x \in Clients, Increment(x) \/ Decrement(x) \/ Abort(x)  PROVE CountInv'
    <2>1. /\ Goto(x, "idle") /\ pc[x] # "idle" /\ "idle" \in Pc
          /\ UNCHANGED <<votes, missed, twice>>
      BY <1>14 DEF Increment, Decrement, Abort, Pc, ghostVars
    <2>2. Found' /\ Alone'
      BY <1>11, <2>1
    <2>3. upvoteCount' - drift' = IF pc[x] = "increment" THEN upvoteCount - drift + 1
                                  ELSE IF pc[x] = "decrement" THEN upvoteCount - drift - 1
                                  ELSE upvoteCount - drift
      BY <1>5, <1>14 DEF Increment, Decrement, Abort, ghostVars
    <2>4. upvoteCount' \in Int /\ drift' \in Int
      BY <1>1 DEF VotesTypeOK
    <2>5. CountAccounted'
      BY <1>4, <1>5, <1>7, <1>8, <1>9, <2>1, <2>3, <2>4
    <2> QED
      BY <1>1, <2>2, <2>5 DEF CountInv
  <1>15. CASE UNCHANGED voteVars
    BY <1>1, <1>15 DEF voteVars, ghostVars, CountInv, Found, Alone, CountAccounted, AtPc
  <1> QED
    BY <1>10, <1>12, <1>13, <1>14, <1>15 DEF VotesNext

\* Whatever count the complaint was created with, and however many requests of whatever users
\* overlap and fail, the counter is that count and the votes but for the updates under way or
\* lost and the removals that deleted nothing; and none of these is there unless some user had
\* two requests in flight.
THEOREM CountAccountedHolds == VotesSpec => []CountAccounted
  <1>1. VotesInit => CountInv
    <2> SUFFICES ASSUME VotesInit  PROVE CountInv
      OBVIOUS
    <2>1. AtPc("increment") = {} /\ AtPc("decrement") = {}
      BY DEF VotesInit, AtPc
    <2>2. CountAccounted
      BY <2>1, FS_EmptySet DEF VotesInit, CountAccounted
    <2> QED
      BY <2>2 DEF VotesInit, CountInv, VotesTypeOK, Found, Alone, Pc, Clients
  <1>2. CountInv => CountAccounted
    BY DEF CountInv
  <1> QED
    BY <1>1, <1>2, CountStep, PTL DEF VotesSpec

=============================================================================

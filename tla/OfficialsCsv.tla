---------------------------- MODULE OfficialsCsv ----------------------------
(***************************************************************************)
(* The pure half of officials.service.ts: from the text of a CSV file to   *)
(* the officials in it.  A text is a sequence of symbols: "quote",         *)
(* "comma", "space" (any run of blanks) and "newline" (with a carriage     *)
(* return before it or without), and for every other run of characters a   *)
(* symbol that stands for it.                                              *)
(***************************************************************************)
EXTENDS Integers, Sequences, SequencesExt

CONSTANTS
    Phone,      \* symbols for runs of ten digits
    None

\* A run of ten digits is none of the symbols the parser, or a heading, gives a meaning to.
ASSUME PhoneAssumption ==
    /\ Phone \cap {"quote", "comma", "space", "newline", "+", "91", "5", "Phone"} = {}
    /\ None \notin Phone

Trim(s) ==
    LET kept == {i \in DOMAIN s : s[i] # "space"}
    IN  IF kept = {} THEN <<>>
        ELSE SubSeq(s, CHOOSE i \in kept : \A j \in kept : i <= j,
                       CHOOSE i \in kept : \A j \in kept : i >= j)

-----------------------------------------------------------------------------
(* parseCsvLine *)

ScannerStart == [result |-> <<>>, current |-> <<>>, inQuotes |-> FALSE, skip |-> FALSE]

\* Mutant: a doubled quote is two quotes.
ScanNoEscape(line, s, i) ==
    CASE line[i] = "quote" -> [s EXCEPT !.inQuotes = ~@]
      [] line[i] = "comma" /\ ~s.inQuotes ->
             [s EXCEPT !.result = Append(@, Trim(s.current)), !.current = <<>>]
      [] OTHER -> [s EXCEPT !.current = Append(@, line[i])]

\* One turn of the loop; skip is the extra step that a doubled quote takes.
Scan(line, s, i) ==
    CASE s.skip -> [s EXCEPT !.skip = FALSE]
      [] ~s.skip /\ line[i] = "quote" ->
             IF s.inQuotes /\ i < Len(line) /\ line[i + 1] = "quote"
             THEN [s EXCEPT !.current = Append(@, "quote"), !.skip = TRUE]
             ELSE [s EXCEPT !.inQuotes = ~@]
      [] ~s.skip /\ line[i] = "comma" /\ ~s.inQuotes ->
             [s EXCEPT !.result = Append(@, Trim(s.current)), !.current = <<>>]
      [] OTHER -> [s EXCEPT !.current = Append(@, line[i])]

\* Scanned(line)[i]: the variables of the loop when the first i characters are behind it.
Scanned(line) ==
    LET scanned[i \in 0..Len(line)] ==
            IF i = 0 THEN ScannerStart ELSE Scan(line, scanned[i - 1], i)
    IN  scanned

ParseCsvLine(line) ==
    LET end == Scanned(line)[Len(line)]
    IN  Append(end.result, Trim(end.current))

-----------------------------------------------------------------------------
(* Normalisation *)

Roles == {"mla", "ward_councillor", "service_officer"}

\* The lower case of the words that occur in roles, and what joins them.
Lower(w) == CASE w = "MLA"     -> "mla"
              [] w = "Ward"    -> "ward"
              [] w = "Officer" -> "officer"
              [] w = "space"   -> "_"
              [] OTHER         -> w

\* null for a role that is none of those known.
NormalizeRole(raw) ==
    LET cleaned == [i \in DOMAIN Trim(raw) |-> Lower(Trim(raw)[i])]
    IN  CASE cleaned = <<"mla">> -> "mla"
          [] cleaned \in {<<"ward", "_", "councillor">>, <<"ward", "_", "councilor">>} ->
                 "ward_councillor"
          [] cleaned \in {<<"service", "_", "officer">>, <<"serviceofficer">>, <<"officer">>} ->
                 "service_officer"
          [] OTHER -> None

\* Ten digits, or twelve that start with the code of the country; anything else fails the test
\* for ten digits that follows.
NormalizePhone(raw) ==
    LET digits == {i \in DOMAIN raw : raw[i] \in Phone \cup {"91", "5"}}
        DigitsAre(p) == \/ \E i \in digits : digits = {i} /\ raw[i] = p
                        \/ \E i, j \in digits : /\ i < j /\ digits = {i, j}
                                                /\ raw[i] = "91" /\ raw[j] = p
    IN  IF \E p \in Phone : DigitsAre(p) THEN CHOOSE p \in Phone : DigitsAre(p) ELSE None

Column(columns, n) == IF n <= Len(columns) THEN columns[n] ELSE <<>>

\* The official of a line, if it has one: most lines that have none are refused.
OfficialsOf(line) ==
    LET columns == ParseCsvLine(line)
        phone == NormalizePhone(Column(columns, 1))
        role == NormalizeRole(Column(columns, 2))
    IN  IF Len(columns) < 2 \/ phone = None \/ role = None THEN {}
        ELSE {[phone |-> phone, role |-> role,
               department |-> IF role = "service_officer" THEN Column(columns, 3) ELSE <<>>]}

-----------------------------------------------------------------------------
(* parseCsv *)

\* The lines of the content are what stands between two newlines, whether quoted or not, and
\* before the first and behind the last.  A line is known by the positions around it; those
\* that hold nothing but blanks are filtered out.
Breaks(content) ==
    {0, Len(content) + 1} \cup {i \in 1..Len(content) : content[i] = "newline"}

FilledLines(content) ==
    LET breaks == Breaks(content)
    IN  {line \in breaks \X breaks :
            /\ ~ \E c \in breaks : line[1] < c /\ c < line[2]
            /\ \E i \in line[1] + 1 .. line[2] - 1 : content[i] # "space"}

LineText(content, line) == SubSeq(content, line[1] + 1, line[2] - 1)

\* The first line is skipped when it is a heading.
ParseCsv(content) ==
    LET filled == FilledLines(content)
        heading == {line \in filled :
                       /\ \A other \in filled : line[1] <= other[1]
                       /\ Contains(ParseCsvLine(LineText(content, line))[1], "Phone")}
    IN  UNION {OfficialsOf(LineText(content, line)) : line \in filled \ heading}

=============================================================================

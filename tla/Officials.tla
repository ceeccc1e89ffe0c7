----------------------------- MODULE Officials -----------------------------
(***************************************************************************)
(* The registry of officials: imported by the MLA from CSV files, read     *)
(* once by the registration of each phone.  A file is known by the rows    *)
(* its author meant; how a row is written is chosen when it is imported,   *)
(* by the usual rules of CSV, and the import reads what was written.  By   *)
(* these rules a cell in quotes may hold a line break; the import takes it *)
(* for the end of the row.                                                 *)
(***************************************************************************)
EXTENDS OfficialsCsv, FiniteSets

CONSTANTS
    Import,         \* the imports in flight
    Rows,           \* the rows that occur in files, as they are meant
    MaxRows,        \* rows of a file
    MaxImports      \* bound: how many files are imported

\* A row has the phone None when it is of none, and likewise the role.
Meant == [phone : Phone \cup {None}, role : Roles \cup {None}, department : Seq(STRING)]

\* The blanks around a text belong to how it is written, not to what is meant.
Trimmed(s) == s # <<>> => s[1] # "space" /\ s[Len(s)] # "space"

ASSUME OfficialsAssumption ==
    /\ Rows \subseteq Meant
    /\ \A row \in Rows : Trimmed(row.department)
    /\ MaxRows \in Nat \ {0}
    /\ MaxImports \in Nat
    /\ None \notin Roles

VARIABLES
    registry,       \* registry[p]: the entry of the phone p
    user,           \* user[p]: the account of p, while it registers and after
    import,         \* import[i]: the operations of bulkWrite: all and those left; and,
                    \* ghosts, those meant by whole rows and the rows torn by a line break
    imports,        \* the number of files imported
    granted,        \* ghost: granted[p]: the officials meant by the files imported so far
    torn            \* ghost: the torn rows of the files imported so far

ghosts == <<granted, torn>>
vars == <<registry, user, import, imports, ghosts>>

-----------------------------------------------------------------------------
(* The author's side *)

Style == {"plain", "quoted", "loose"}

Valid(row) == row.phone # None /\ row.role # None

\* The official a row is about: departments are kept of service officers.
OfficialMeant(row) ==
    [row EXCEPT !.department = IF row.role = "service_officer" THEN @ ELSE <<>>]

\* A row that is written in more than one line.
Torn(row) == Contains(row.department, "newline")

\* Concatenated(pieces)[i]: the first i pieces, one behind the other.
Concatenated(pieces) ==
    LET text[i \in 0..Len(pieces)] == IF i = 0 THEN <<>> ELSE text[i - 1] \o pieces[i]
    IN  text

\* s with each quote in it twice, between quotes.
Doubled(s) ==
    Concatenated([i \in 1..Len(s) |-> IF s[i] = "quote" THEN <<"quote", "quote">> ELSE <<s[i]>>])
Quoted(s) == <<"quote">> \o Doubled(s)[Len(s)] \o <<"quote">>

\* A cell with a comma, a quote or a line break is quoted, its quotes doubled; any other may be.
Cell(s, style) ==
    IF Contains(s, "comma") \/ Contains(s, "quote") \/ Contains(s, "newline") \/ style = "quoted"
    THEN Quoted(s)
    ELSE IF style = "loose" THEN <<"space">> \o s \o <<"space">> ELSE s

PhoneText(p, style) ==
    IF p = None THEN <<"5">> ELSE IF style = "loose" THEN <<"+", "91", "space", p>> ELSE <<p>>

RoleText(role, style) ==
    CASE role = None              -> <<"clerk">>
      [] role = "mla"             -> IF style = "loose" THEN <<"MLA">> ELSE <<"mla">>
      [] role = "ward_councillor" -> IF style = "loose" THEN <<"Ward", "space", "councilor">>
                                     ELSE <<"ward", "_", "councillor">>
      [] role = "service_officer" -> IF style = "loose" THEN <<"Officer">>
                                     ELSE <<"service", "_", "officer">>

\* The last column is left out when it would be empty.
Line(row, style) ==
    Cell(PhoneText(row.phone, style), style)
      \o <<"comma">> \o Cell(RoleText(row.role, style), style)
      \o (IF row.department = <<>> THEN <<>> ELSE <<"comma">> \o Cell(row.department, style))

Heading == <<"Phone", "comma", "Role", "comma", "Department">>

\* A file of rows begins with a heading or without; in its text each line is ended by a newline.
Heads == {<<>>, <<Heading>>}
Written(head, rows, style) == head \o [n \in DOMAIN rows |-> Line(rows[n], style)]
Content(lines) ==
    Concatenated([i \in 1..Len(lines) |-> lines[i] \o <<"newline">>])[Len(lines)]

Files == Heads \X (UNION {[1..n -> Rows] : n \in 1..MaxRows}) \X Style

\* What the import takes from each file.
Taken == [file \in Files |-> ParseCsv(Content(Written(file[1], file[2], file[3])))]

\* The officials that rows mean.
OfficialsMeant(rows) == {OfficialMeant(row) : row \in {x \in rows : Valid(x)}}
TornRows(rows) == {row \in Range(rows) : Torn(row)}

-----------------------------------------------------------------------------
(* Imports *)

NoImport == [operations |-> {}, left |-> {}, meant |-> {}, torn |-> {}]

Init ==
    /\ registry = [p \in Phone |-> None]
    /\ user = [p \in Phone |-> [pc |-> "none", role |-> None]]
    /\ import = [i \in Import |-> NoImport]
    /\ imports = 0
    /\ granted = [p \in Phone |-> {}]
    /\ torn = {}

\* The file is read and parsed, and removed; without a valid record it is refused.
ImportOfficials(i, file) ==
    LET operations == Taken[file]
        rows == file[2]
        meant == OfficialsMeant(Range(rows) \ TornRows(rows))
    IN  /\ import[i].left = {}
        /\ imports < MaxImports
        /\ imports' = imports + 1
        /\ import' = [import EXCEPT ![i] =
               [operations |-> operations, left |-> operations, meant |-> meant,
                torn |-> TornRows(rows)]]
        /\ granted' = [p \in Phone |-> granted[p] \cup {o \in meant : o.phone = p}]
        /\ torn' = torn \cup TornRows(rows)
        /\ UNCHANGED <<registry, user>>

\* One operation of an unordered bulkWrite: the role is set, the department if there is one,
\* and an entry is inserted for a phone without.
Upsert(i, o) ==
    /\ o \in import[i].left
    /\ registry' = [registry EXCEPT ![o.phone] =
           [role       |-> o.role,
            department |-> CASE o.department # <<>>                            -> o.department
                             [] o.department = <<>> /\ registry[o.phone] = None -> <<>>
                             [] OTHER -> registry[o.phone].department]]
    /\ import' = [import EXCEPT ![i].left = @ \ {o}]
    /\ UNCHANGED <<user, imports, ghosts>>

\* The write fails, or the process dies: the operations that are left are not tried again.
ImportFails(i) ==
    /\ import[i].left # {}
    /\ import' = [import EXCEPT ![i].left = {}]
    /\ UNCHANGED <<registry, user, imports, ghosts>>

-----------------------------------------------------------------------------
(* Registration *)

\* completeRegistration looks the phone up ...
GetOfficialByPhone(p) ==
    /\ user[p].pc = "none"
    /\ user' = [user EXCEPT ![p] = [pc   |-> "looked up",
                                    role |-> IF registry[p] = None THEN "citizen"
                                             ELSE registry[p].role]]
    /\ UNCHANGED <<registry, import, imports, ghosts>>

\* ... and gives the account the role it has found.  Later imports do not change it.
CreateUser(p) ==
    /\ user[p].pc = "looked up"
    /\ user' = [user EXCEPT ![p].pc = "created"]
    /\ UNCHANGED <<registry, import, imports, ghosts>>

Next ==
    \/ \E i \in Import :
          \/ \E file \in Files : ImportOfficials(i, file)
          \/ \E o \in import[i].left : Upsert(i, o)
          \/ ImportFails(i)
    \/ \E p \in Phone : GetOfficialByPhone(p) \/ CreateUser(p)

Spec == Init /\ [][Next]_vars

-----------------------------------------------------------------------------
(* Properties *)

\* What the author of a file meant is what the import takes from it, up to line breaks in a cell.
\* Every row without one gives its official, however it is written and whatever stands in the
\* rows around it; a file without one gives no other; and as long as every file is without one,
\* what the registry says of a phone, and with it the role of an account, was said by a row
\* about that phone.
ImportedAsMeant ==
    /\ \A i \in Import :
          /\ import[i].meant \subseteq import[i].operations
          /\ import[i].torn = {} => import[i].operations = import[i].meant
    /\ torn = {} => \A p \in Phone :
          /\ registry[p] # None =>
                /\ \E o \in granted[p] : registry[p].role = o.role
                /\ \E o \in granted[p] : registry[p].department = o.department
          /\ user[p].role \in {None, "citizen"} \cup {o.role : o \in granted[p]}

=============================================================================

-------------------------- MODULE OfficialsProofs --------------------------
(***************************************************************************)
(* What a file was meant to say is what is imported from it, for any       *)
(* phones, rows and files.  Most of it is about the scanner: the column    *)
(* that parseCsvLine takes from a cell is the text the cell was written    *)
(* for.  A statement about every character of a line is proved by its      *)
(* least counterexample: the principles of induction take an operator,     *)
(* which cannot be instantiated here, and a well-founded relation has a    *)
(* least element of every set.                                             *)
(***************************************************************************)
EXTENDS Officials, WellFoundedInduction, SequenceTheorems, TLAPS

-----------------------------------------------------------------------------
(* Induction and recursion *)

\* A set of numbers has a least one.
LEMMA LeastNatural ==
    ASSUME NEW T, T \subseteq Nat, T # {}
    PROVE  \E n \in T : \A m \in T : n <= m
<1> DEFINE R == {ss \in Nat \X Nat : ss[1] < ss[2]}
<1>1. IsWellFoundedOn(R, Nat)
  BY NatLessThanWellFounded DEF OpToRel
<1>2. \A m, n \in Nat : m < n => <<m, n>> \in R
  <2> SUFFICES ASSUME NEW m \in Nat, NEW n \in Nat, m < n
               PROVE  <<m, n>> \in R
    OBVIOUS
  <2>1. <<m, n>> \in Nat \X Nat /\ <<m, n>>[1] < <<m, n>>[2]
    OBVIOUS
  <2> QED
    BY <2>1
<1> HIDE DEF R
<1>3. PICK n \in T : \A m \in T : ~ (<<m, n>> \in R)
  BY <1>1, WFMin
<1>4. \A m \in T : ~ (m < n)
  BY <1>2, <1>3
<1> QED
  BY <1>4

\* A set that has 0, and with a number below N its successor, has 0..N.
LEMMA SetInduction ==
    ASSUME NEW N \in Nat, NEW T, 0 \in T, \A m \in 0..(N - 1) : m \in T => m + 1 \in T
    PROVE  0..N \subseteq T
<1> DEFINE Missing == {m \in 0..N : m \notin T}
<1> SUFFICES ASSUME Missing # {}
             PROVE  FALSE
  OBVIOUS
<1>1. Missing \subseteq Nat
  OBVIOUS
<1> HIDE DEF Missing
<1>2. PICK n \in Missing : \A m \in Missing : n <= m
  BY <1>1, LeastNatural
<1>3. n \in 0..N /\ n \notin T /\ n # 0
  BY DEF Missing
<1>4. n - 1 \in 0..(N - 1) /\ ~ (n <= n - 1)
  BY <1>3
<1>5. n - 1 \in T
  BY <1>2, <1>4 DEF Missing
<1> QED
  BY <1>3, <1>4, <1>5

\* The variables of parseCsvLine's loop, turn by turn: no line is too long for them to exist.
LEMMA ScannedRecursion ==
    ASSUME NEW line, Len(line) \in Nat
    PROVE  /\ Scanned(line)[0] = ScannerStart
           /\ \A i \in 1..Len(line) : Scanned(line)[i] = Scan(line, Scanned(line)[i - 1], i)
<1> DEFINE N == Len(line)
           Is(f, k) == f = [i \in 0..k |-> IF i = 0 THEN ScannerStart
                                           ELSE Scan(line, f[i - 1], i)]
           T == {k \in 0..N : \E f : Is(f, k)}
<1>1. 0 \in T
  <2> DEFINE f == [i \in 0..0 |-> ScannerStart]
  <2>1. Is(f, 0)
    OBVIOUS
  <2>2. \E e : Is(e, 0)
    <3> HIDE DEF f, Is
    <3> QED
      BY <2>1
  <2> HIDE DEF Is
  <2> QED
    BY <2>2
<1>2. ASSUME NEW m \in 0..(N - 1), m \in T
      PROVE  m + 1 \in T
  <2>1. PICK f : Is(f, m)
    BY <1>2
  <2> DEFINE g == [i \in 0..(m + 1) |-> IF i = m + 1 THEN Scan(line, f[m], m + 1) ELSE f[i]]
             h == [i \in 0..(m + 1) |-> IF i = 0 THEN ScannerStart ELSE Scan(line, g[i - 1], i)]
  <2>2. ASSUME NEW i \in 0..(m + 1)
        PROVE  g[i] = h[i]
    <3>1. CASE i = 0
      <4>1. f[0] = ScannerStart
        BY <2>1
      <4> QED
        BY <3>1, <4>1
    <3>2. CASE i \in 1..m
      <4>1. f[i] = Scan(line, f[i - 1], i)
        BY <2>1, <3>2
      <4>2. g[i - 1] = f[i - 1] /\ g[i] = f[i]
        BY <3>2
      <4> QED
        BY <3>2, <4>1, <4>2
    <3>3. CASE i = m + 1
      <4>1. g[i - 1] = f[m]
        BY <3>3
      <4> QED
        BY <3>3, <4>1
    <3> QED
      BY <3>1, <3>2, <3>3
  <2>3. g = h
    BY <2>2
  <2>4. Is(g, m + 1)
    BY <2>3
  <2>5. \E e : Is(e, m + 1)
    <3> HIDE DEF g, Is
    <3> QED
      BY <2>4
  <2> HIDE DEF Is
  <2> QED
    BY <2>5
<1>3. N \in T
  <2> HIDE DEF T, Is
  <2>1. 0..N \subseteq T
    BY <1>1, <1>2, SetInduction
  <2> QED
    BY <2>1
<1>4. PICK f : Is(f, N)
  BY <1>3
<1>5. Is(Scanned(line), N)
  BY <1>4 DEF Scanned
<1> QED
  BY <1>5

\* A text put together of pieces, piece by piece.
LEMMA ConcatenatedRecursion ==
    ASSUME NEW s, Len(s) \in Nat
    PROVE  /\ Concatenated(s)[0] = <<>>
           /\ \A i \in 1..Len(s) : Concatenated(s)[i] = Concatenated(s)[i - 1] \o s[i]
<1> DEFINE N == Len(s)
           More(d, i) == d \o s[i]
           Is(f, k) == f = [i \in 0..k |-> IF i = 0 THEN <<>> ELSE More(f[i - 1], i)]
           T == {k \in 0..N : \E f : Is(f, k)}
<1>1. ASSUME \E f : Is(f, N)
       PROVE  Is(Concatenated(s), N)
  BY <1>1 DEF Concatenated
<1> HIDE DEF More
<1>2. ASSUME Is(Concatenated(s), N)
        PROVE  /\ Concatenated(s)[0] = <<>>
               /\ \A i \in 1..Len(s) : Concatenated(s)[i] = More(Concatenated(s)[i - 1], i)
  BY <1>2
<1>3. 0 \in T
  <2> DEFINE f == [i \in 0..0 |-> <<>>]
  <2>1. Is(f, 0)
    OBVIOUS
  <2>2. \E e : Is(e, 0)
    <3> HIDE DEF f, Is
    <3> QED
      BY <2>1
  <2> HIDE DEF Is
  <2> QED
    BY <2>2
<1>4. ASSUME NEW m \in 0..(N - 1), m \in T
      PROVE  m + 1 \in T
  <2>1. PICK f : Is(f, m)
    BY <1>4
  <2> DEFINE g == [i \in 0..(m + 1) |-> IF i = m + 1 THEN More(f[m], m + 1) ELSE f[i]]
             h == [i \in 0..(m + 1) |-> IF i = 0 THEN <<>> ELSE More(g[i - 1], i)]
  <2>2. ASSUME NEW i \in 0..(m + 1)
        PROVE  g[i] = h[i]
    <3>1. CASE i = 0
      <4>1. f[0] = <<>>
        BY <2>1
      <4> QED
        BY <3>1, <4>1
    <3>2. CASE i \in 1..m
      <4>1. f[i] = More(f[i - 1], i)
        BY <2>1, <3>2
      <4>2. g[i - 1] = f[i - 1] /\ g[i] = f[i]
        BY <3>2
      <4> QED
        BY <3>2, <4>1, <4>2
    <3>3. CASE i = m + 1
      <4>1. g[i - 1] = f[m]
        BY <3>3
      <4> QED
        BY <3>3, <4>1
    <3> QED
      BY <3>1, <3>2, <3>3
  <2>3. g = h
    BY <2>2
  <2>4. Is(g, m + 1)
    BY <2>3
  <2>5. \E e : Is(e, m + 1)
    <3> HIDE DEF g, Is
    <3> QED
      BY <2>4
  <2> HIDE DEF Is
  <2> QED
    BY <2>5
<1>5. N \in T
  <2> HIDE DEF T, Is
  <2>1. 0..N \subseteq T
    BY <1>3, <1>4, SetInduction
  <2> QED
    BY <2>1
<1>6. PICK f : Is(f, N)
  BY <1>5
<1>7. Is(Concatenated(s), N)
  BY <1>6, <1>1
<1> QED
  BY <1>7, <1>2 DEF More

\* A text with its quotes doubled, symbol by symbol.
LEMMA DoubledRecursion ==
    ASSUME NEW s, Len(s) \in Nat
    PROVE  /\ Doubled(s)[0] = <<>>
           /\ \A i \in 1..Len(s) :
                 Doubled(s)[i] = Doubled(s)[i - 1]
                                   \o (IF s[i] = "quote" THEN <<"quote", "quote">> ELSE <<s[i]>>)
<1> DEFINE Twice(i) == IF s[i] = "quote" THEN <<"quote", "quote">> ELSE <<s[i]>>
           pieces == [i \in 1..Len(s) |-> Twice(i)]
<1>1. Doubled(s) = Concatenated(pieces)
  BY DEF Doubled
<1> HIDE DEF Twice
<1>2. Len(pieces) = Len(s) /\ \A i \in 1..Len(s) : pieces[i] = Twice(i)
  OBVIOUS
<1> HIDE DEF pieces
<1>3. /\ Concatenated(pieces)[0] = <<>>
      /\ \A i \in 1..Len(s) : Concatenated(pieces)[i] = Concatenated(pieces)[i - 1] \o pieces[i]
  BY <1>2, ConcatenatedRecursion
<1> QED
  BY <1>1, <1>2, <1>3 DEF Twice

-----------------------------------------------------------------------------
(* The scanner *)

\* The variables of the loop outside of quotes, inside of them, and inside of them at the
\* first of two quotes.
Outside(R, c)  == [result |-> R, current |-> c, inQuotes |-> FALSE, skip |-> FALSE]
Inside(R, c)   == [result |-> R, current |-> c, inQuotes |-> TRUE, skip |-> FALSE]
Skipping(R, c) == [result |-> R, current |-> c, inQuotes |-> TRUE, skip |-> TRUE]

\* t stands in the line from behind position n up to position e.
Between(line, n, e, t) ==
    /\ n \in Nat /\ e = n + Len(t) /\ e <= Len(line)
    /\ \A j \in 1..Len(t) : line[n + j] = t[j]

\* What follows position e is not a quote.
NoQuoteAfter(line, e) == e < Len(line) => line[e + 1] # "quote"

\* The loop has come behind position n with the columns R and, outside of quotes, the text c
\* of the next.
Reached(line, n, R, c) == Scanned(line)[n] = Outside(R, c)

\* The symbols of texts, and those of lines.  That the words below are strings is not known to
\* the provers.
Character == Phone \cup STRING
               \cup {"quote", "comma", "space", "+", "91", "5", "Phone", "Role", "Department",
                     "clerk", "MLA", "mla", "Ward", "ward", "councilor", "councillor", "_",
                     "Officer", "service", "officer", "newline"}
Symbol == Character \ {"newline"}

\* What a turn of the loop does in each of the three states.
LEMMA ScanOutside ==
    ASSUME NEW line, NEW i, NEW R, NEW c
    PROVE  /\ line[i] = "quote" => Scan(line, Outside(R, c), i) = Inside(R, c)
           /\ line[i] = "comma" => Scan(line, Outside(R, c), i) = Outside(Append(R, Trim(c)), <<>>)
           /\ line[i] \notin {"quote", "comma"} =>
                 Scan(line, Outside(R, c), i) = Outside(R, Append(c, line[i]))
BY DEF Scan, Outside, Inside

LEMMA ScanInside ==
    ASSUME NEW line, NEW i, NEW R, NEW c
    PROVE  /\ line[i] = "quote" /\ i < Len(line) /\ line[i + 1] = "quote" =>
                 Scan(line, Inside(R, c), i) = Skipping(R, Append(c, "quote"))
           /\ line[i] = "quote" /\ ~ (i < Len(line) /\ line[i + 1] = "quote") =>
                 Scan(line, Inside(R, c), i) = Outside(R, c)
           /\ line[i] # "quote" => Scan(line, Inside(R, c), i) = Inside(R, Append(c, line[i]))
BY DEF Scan, Outside, Inside, Skipping

LEMMA ScanSkipping ==
    ASSUME NEW line, NEW i, NEW R, NEW c
    PROVE  Scan(line, Skipping(R, c), i) = Inside(R, c)
BY DEF Scan, Inside, Skipping

\* Where the parts of a text that stands in the line stand.
LEMMA BetweenConcat ==
    ASSUME NEW S, NEW line \in Seq(S), NEW n, NEW e, NEW a \in Seq(S), NEW b \in Seq(S),
           Between(line, n, e, a \o b)
    PROVE  \E m : Between(line, n, m, a) /\ Between(line, m, e, b)
<1>1. /\ Len(a \o b) = Len(a) + Len(b) /\ Len(a) \in Nat /\ Len(b) \in Nat
      /\ \A j \in 1..Len(a) : (a \o b)[j] = a[j]
      /\ \A j \in 1..Len(b) : (a \o b)[Len(a) + j] = b[j]
  BY ConcatProperties, LenProperties
<1>2. n \in Nat /\ e = n + Len(a) + Len(b) /\ e <= Len(line) /\ Len(line) \in Nat
  BY <1>1, LenProperties DEF Between
<1>3. Between(line, n, n + Len(a), a)
  BY <1>1, <1>2 DEF Between
<1>4. Between(line, n + Len(a), e, b)
  <2>1. \A j \in 1..Len(b) : line[n + (Len(a) + j)] = (a \o b)[Len(a) + j]
    <3>1. \A j \in 1..Len(b) : Len(a) + j \in 1..Len(a \o b)
      BY <1>1
    <3> QED
      BY <3>1 DEF Between
  <2>2. \A j \in 1..Len(b) : n + (Len(a) + j) = n + Len(a) + j
    BY <1>1, <1>2
  <2> QED
    BY <1>1, <1>2, <2>1, <2>2 DEF Between
<1> QED
  BY <1>3, <1>4

LEMMA BetweenOne ==
    ASSUME NEW S, NEW line \in Seq(S), NEW n, NEW e, NEW x, Between(line, n, e, <<x>>)
    PROVE  /\ n \in Nat /\ e = n + 1 /\ e - 1 = n /\ e \in 1..Len(line)
           /\ line[e] = x
BY LenProperties DEF Between

LEMMA SubSeqFirst ==
    ASSUME NEW S, NEW s \in Seq(S), NEW m \in 0..(Len(s) - 1)
    PROVE  Append(SubSeq(s, 1, m), s[m + 1]) = SubSeq(s, 1, m + 1)
OBVIOUS

\* A cell without comma and quote: its symbols are taken as they are.
LEMMA PlainScanned ==
    ASSUME NEW S, NEW line \in Seq(S), NEW n, NEW e, NEW t \in Seq(S), Between(line, n, e, t),
           ~ Contains(t, "comma"), ~ Contains(t, "quote"), NEW R,
           Reached(line, n, R, <<>>)
    PROVE  Reached(line, e, R, t)
<1> DEFINE f == Scanned(line)
           N == Len(t)
           T == {m \in 0..N : f[n + m] = Outside(R, SubSeq(t, 1, m))}
<1>1. N \in Nat /\ Len(line) \in Nat /\ n \in Nat /\ e = n + N /\ n + N <= Len(line)
  BY LenProperties DEF Between
<1>2. \A i \in 1..Len(line) : f[i] = Scan(line, f[i - 1], i)
  BY ScannedRecursion, <1>1
<1> HIDE DEF f
<1>3. 0 \in T
  <2>1. SubSeq(t, 1, 0) = <<>>
    OBVIOUS
  <2>2. n + 0 = n
    BY <1>1
  <2>3. f[n + 0] = Outside(R, <<>>)
    BY <2>2 DEF f, Reached
  <2> QED
    <3>1. f[n + 0] = Outside(R, SubSeq(t, 1, 0))
      BY <2>1, <2>3
    <3>2. 0 \in 0..N
      BY <1>1
    <3> QED
      BY <3>1, <3>2
<1>4. ASSUME NEW m \in 0..(N - 1), m \in T
      PROVE  m + 1 \in T
  <2>1. f[n + m] = Outside(R, SubSeq(t, 1, m))
    BY <1>4
  <2> DEFINE i == n + (m + 1)
  <2>2. i \in 1..Len(line) /\ i - 1 = n + m /\ m + 1 \in 1..Len(t)
    BY <1>1
  <2>3. line[i] = t[m + 1]
    BY <2>2 DEF Between
  <2>4. line[i] # "comma" /\ line[i] # "quote"
    BY <2>2, <2>3 DEF Contains
  <2> HIDE DEF i
  <2>5. f[i] = Scan(line, Outside(R, SubSeq(t, 1, m)), i)
    BY <1>2, <2>1, <2>2
  <2>6. f[i] = Outside(R, Append(SubSeq(t, 1, m), line[i]))
    BY <2>4, <2>5, ScanOutside
  <2>7. f[i] = Outside(R, SubSeq(t, 1, m + 1))
    BY <2>3, <2>6, SubSeqFirst
  <2>8. f[n + (m + 1)] = Outside(R, SubSeq(t, 1, m + 1))
    BY <2>7 DEF i
  <2>9. m + 1 \in 0..N
    BY <1>1
  <2> QED
    BY <2>8, <2>9
<1>5. N \in T
  <2> HIDE DEF T
  <2>1. 0..N \subseteq T
    BY <1>1, <1>3, <1>4, SetInduction
  <2> QED
    BY <1>1, <2>1
<1>6. SubSeq(t, 1, N) = t
  OBVIOUS
<1> QED
  BY <1>1, <1>5, <1>6 DEF f, Reached

\* trim() leaves a text that has no blanks around it as it is, and takes one that was put
\* there away.
LEMMA TrimTrimmed ==
    ASSUME NEW S, NEW s \in Seq(S), Trimmed(s)
    PROVE  Trim(s) = s
<1> DEFINE kept == {i \in DOMAIN s : s[i] # "space"}
<1>1. Len(s) \in Nat /\ DOMAIN s = 1..Len(s)
  BY LenProperties
<1>2. CASE s = <<>>
  BY <1>2, <1>1 DEF Trim
<1>3. CASE s # <<>>
  <2>1. 1 \in kept /\ Len(s) \in kept
    BY <1>1, <1>3, EmptySeq DEF Trimmed
  <2>2. (CHOOSE i \in kept : \A j \in kept : i <= j) = 1
    BY <1>1, <2>1
  <2>3. (CHOOSE i \in kept : \A j \in kept : i >= j) = Len(s)
    BY <1>1, <2>1
  <2>4. Trim(s) = SubSeq(s, 1, Len(s))
    BY <2>1, <2>2, <2>3 DEF Trim
  <2> QED
    BY <2>4
<1> QED
  BY <1>2, <1>3

LEMMA TrimLoose ==
    ASSUME NEW S, NEW s \in Seq(S), Trimmed(s), "space" \in S
    PROVE  Trim(<<"space">> \o s \o <<"space">>) = s
<1> DEFINE t == <<"space">> \o s \o <<"space">>
           kept == {i \in DOMAIN t : t[i] # "space"}
<1>1. /\ Len(s) \in Nat /\ DOMAIN s = 1..Len(s)
      /\ t \in Seq(S) /\ Len(t) = Len(s) + 2 /\ DOMAIN t = 1..(Len(s) + 2)
      /\ t[1] = "space" /\ t[Len(s) + 2] = "space"
      /\ \A j \in 1..Len(s) : t[j + 1] = s[j]
  <2>1. Len(s) \in Nat /\ DOMAIN s = 1..Len(s)
    BY LenProperties
  <2> QED
    BY <2>1
<1> HIDE DEF t
<1>2. CASE s = <<>>
  <2>1. kept = {}
    BY <1>1, <1>2
  <2> QED
    BY <1>2, <2>1 DEF Trim, t
<1>3. CASE s # <<>>
  <2>1. Len(s) >= 1 /\ s[1] # "space" /\ s[Len(s)] # "space"
    BY <1>1, <1>3, EmptySeq DEF Trimmed
  <2>2. 2 \in kept /\ Len(s) + 1 \in kept
    BY <1>1, <2>1
  <2>3. \A j \in kept : j \in 2..(Len(s) + 1)
    BY <1>1
  <2>4. (CHOOSE i \in kept : \A j \in kept : i <= j) = 2
    BY <1>1, <2>2, <2>3
  <2>5. (CHOOSE i \in kept : \A j \in kept : i >= j) = Len(s) + 1
    BY <1>1, <2>2, <2>3
  <2>6. Trim(t) = SubSeq(t, 2, Len(s) + 1)
    BY <2>2, <2>4, <2>5 DEF Trim
  <2>7. SubSeq(t, 2, Len(s) + 1) = s
    <3>1. /\ SubSeq(t, 2, Len(s) + 1) \in Seq(S)
          /\ Len(SubSeq(t, 2, Len(s) + 1)) = Len(s)
          /\ \A j \in 1..Len(s) : SubSeq(t, 2, Len(s) + 1)[j] = t[j + 1]
      BY <1>1, <2>1
    <3> QED
      BY <1>1, <3>1, SeqEqual
  <2> QED
    BY <2>6, <2>7 DEF t
<1> QED
  BY <1>2, <1>3

\* A text with its quotes doubled is a text.
LEMMA DoubledIsSeq ==
    ASSUME NEW S, NEW s \in Seq(S), "quote" \in S
    PROVE  \A m \in 0..Len(s) : Doubled(s)[m] \in Seq(S)
<1> DEFINE d == Doubled(s)
           N == Len(s)
           T == {m \in 0..N : d[m] \in Seq(S)}
<1>1. N \in Nat
  BY LenProperties
<1>2. d[0] = <<>> /\ \A i \in 1..N : d[i] = d[i - 1]
                         \o (IF s[i] = "quote" THEN <<"quote", "quote">> ELSE <<s[i]>>)
  BY <1>1, DoubledRecursion
<1> HIDE DEF d
<1>3. 0 \in T
  <2>1. <<>> \in Seq(S) /\ 0 \in 0..N
    BY <1>1
  <2> QED
    BY <1>2, <2>1
<1>4. ASSUME NEW m \in 0..(N - 1), m \in T
      PROVE  m + 1 \in T
  <2> DEFINE more == IF s[m + 1] = "quote" THEN <<"quote", "quote">> ELSE <<s[m + 1]>>
  <2>1. m + 1 \in 1..N /\ (m + 1) - 1 = m /\ m + 1 \in 0..N
    BY <1>1
  <2>2. s[m + 1] \in S
    BY <2>1, ElementOfSeq
  <2>3. more \in Seq(S)
    BY <2>2
  <2>4. d[m + 1] = d[m] \o more
    BY <1>2, <2>1
  <2> HIDE DEF more
  <2>5. d[m + 1] \in Seq(S)
    BY <1>4, <2>3, <2>4, ConcatProperties
  <2> QED
    BY <2>1, <2>5
<1>5. 0..N \subseteq T
  <2> HIDE DEF T
  <2> QED
    BY <1>1, <1>3, <1>4, SetInduction
<1> QED
  BY <1>5 DEF d

\* A cell in quotes: each pair of quotes inside of it is one quote of the text, and the closing
\* quote is the one that no other quote follows.
LEMMA QuotedScanned ==
    ASSUME NEW S, "quote" \in S, NEW line \in Seq(S), NEW n, NEW e, NEW s \in Seq(S),
           Between(line, n, e, Quoted(s)), NoQuoteAfter(line, e), NEW R,
           Reached(line, n, R, <<>>)
    PROVE  Reached(line, e, R, s)
<1> DEFINE f == Scanned(line)
           d == Doubled(s)
           N == Len(s)
<1>1. N \in Nat /\ Len(line) \in Nat
  BY LenProperties
<1>2. /\ d[0] = <<>>
      /\ \A i \in 1..N : d[i] = d[i - 1]
                         \o (IF s[i] = "quote" THEN <<"quote", "quote">> ELSE <<s[i]>>)
      /\ \A m \in 0..N : d[m] \in Seq(S)
  BY <1>1, DoubledRecursion, DoubledIsSeq
<1>3. \A i \in 1..Len(line) : f[i] = Scan(line, f[i - 1], i)
  BY ScannedRecursion, <1>1
<1>4. PICK p, q : /\ Between(line, n, p, <<"quote">>) /\ Between(line, p, q, d[N])
                  /\ Between(line, q, e, <<"quote">>)
  <2> DEFINE Q == <<"quote">>
             b == d[N]
  <2>1. Q \in Seq(S)
    OBVIOUS
  <2>2. b \in Seq(S) /\ Q \o b \in Seq(S)
    BY <1>1, <1>2, <2>1, ConcatProperties
  <2>3. Quoted(s) = (Q \o b) \o Q
    BY DEF Quoted
  <2> HIDE DEF Q, b
  <2>4. PICK q : Between(line, n, q, Q \o b) /\ Between(line, q, e, Q)
    BY <2>1, <2>2, <2>3, BetweenConcat
  <2>5. PICK p : Between(line, n, p, Q) /\ Between(line, p, q, b)
    BY <2>1, <2>2, <2>4, BetweenConcat
  <2> QED
    BY <2>4, <2>5 DEF Q, b
<1>5. f[p] = Inside(R, <<>>) /\ p \in Nat
  <2>1. p \in 1..Len(line) /\ p - 1 = n /\ line[p] = "quote"
    BY <1>4, BetweenOne
  <2>2. f[p] = Scan(line, Outside(R, <<>>), p)
    BY <1>3, <2>1 DEF Reached
  <2> HIDE DEF f
  <2> QED
    BY <1>1, <2>1, <2>2, ScanOutside
<1> DEFINE T == {m \in 0..N : \A x : Between(line, p, x, d[m]) =>
                                         f[x] = Inside(R, SubSeq(s, 1, m))}
<1> HIDE DEF f, d
<1>6. 0 \in T
  <2>1. SubSeq(s, 1, 0) = <<>>
    OBVIOUS
  <2>2. ASSUME NEW x, Between(line, p, x, d[0])
        PROVE  x = p
    BY <1>2, <1>5, <2>2 DEF Between
  <2>3. 0 \in 0..N
    BY <1>1
  <2> QED
    BY <1>5, <2>1, <2>2, <2>3
<1>7. ASSUME NEW m \in 0..(N - 1), m \in T
      PROVE  m + 1 \in T
  <2>1. m + 1 \in 0..N /\ m + 1 \in 1..N /\ (m + 1) - 1 = m /\ m \in 0..N
    BY <1>1
  <2> SUFFICES ASSUME NEW x, Between(line, p, x, d[m + 1])
               PROVE  f[x] = Inside(R, SubSeq(s, 1, m + 1))
    BY <2>1
  <2>2. PICK b \in Seq(S) : b = d[m]
    BY <1>2, <2>1
  <2>3. PICK c : c = SubSeq(s, 1, m)
    OBVIOUS
  <2>4. Append(c, s[m + 1]) = SubSeq(s, 1, m + 1)
    BY <2>3, SubSeqFirst
  <2>5. CASE s[m + 1] = "quote"
    <3> DEFINE Q == <<"quote">>
    <3>1. Q \in Seq(S) /\ <<"quote", "quote">> = Q \o Q
      OBVIOUS
    <3>2. d[m + 1] = b \o (Q \o Q)
      BY <1>2, <2>1, <2>2, <2>5, <3>1
    <3> HIDE DEF Q
    <3>3. Q \o Q \in Seq(S)
      BY <3>1, ConcatProperties
    <3>4. PICK i : Between(line, p, i, b) /\ Between(line, i, x, Q \o Q)
      BY <3>2, <3>3, BetweenConcat
    <3>5. PICK j : Between(line, i, j, Q) /\ Between(line, j, x, Q)
      BY <3>1, <3>4, BetweenConcat
    <3>6. f[i] = Inside(R, c)
      BY <1>7, <2>2, <2>3, <3>4
    <3>7. /\ j \in 1..Len(line) /\ j - 1 = i /\ line[j] = "quote"
          /\ x \in 1..Len(line) /\ x - 1 = j /\ x = j + 1 /\ line[x] = "quote"
      BY <3>5, BetweenOne DEF Q
    <3>8. j < Len(line) /\ line[j + 1] = "quote"
      BY <1>1, <3>7
    <3>9. f[j] = Scan(line, Inside(R, c), j)
      BY <1>3, <3>6, <3>7
    <3>10. f[j] = Skipping(R, Append(c, "quote"))
      BY <3>7, <3>8, <3>9, ScanInside
    <3>11. f[x] = Scan(line, Skipping(R, Append(c, "quote")), x)
      BY <1>3, <3>7, <3>10
    <3>12. f[x] = Inside(R, Append(c, "quote"))
      BY <3>11, ScanSkipping
    <3> QED
      BY <2>4, <2>5, <3>12
  <2>6. CASE s[m + 1] # "quote"
    <3> DEFINE Q == <<s[m + 1]>>
    <3>1. Q \in Seq(S)
      BY <2>1, ElementOfSeq
    <3>2. d[m + 1] = b \o Q
      BY <1>2, <2>1, <2>2, <2>6
    <3> HIDE DEF Q
    <3>3. PICK i : Between(line, p, i, b) /\ Between(line, i, x, Q)
      BY <3>1, <3>2, BetweenConcat
    <3>4. f[i] = Inside(R, c)
      BY <1>7, <2>2, <2>3, <3>3
    <3>5. x \in 1..Len(line) /\ x - 1 = i /\ line[x] = s[m + 1]
      BY <3>3, BetweenOne DEF Q
    <3>6. f[x] = Scan(line, Inside(R, c), x)
      BY <1>3, <3>4, <3>5
    <3>7. f[x] = Inside(R, Append(c, line[x]))
      BY <2>6, <3>5, <3>6, ScanInside
    <3> QED
      BY <2>4, <3>5, <3>7
  <2> QED
    BY <2>5, <2>6
<1>8. f[q] = Inside(R, s)
  <2>1. N \in T
    <3> HIDE DEF T
    <3>1. 0..N \subseteq T
      BY <1>1, <1>6, <1>7, SetInduction
    <3>2. N \in 0..N
      BY <1>1
    <3> QED
      BY <3>1, <3>2
  <2>2. SubSeq(s, 1, N) = s
    OBVIOUS
  <2> QED
    BY <1>4, <2>1, <2>2
<1>9. /\ e \in 1..Len(line) /\ e - 1 = q /\ line[e] = "quote"
      /\ ~ (e < Len(line) /\ line[e + 1] = "quote")
  <2>1. e \in 1..Len(line) /\ e - 1 = q /\ line[e] = "quote"
    BY <1>4, BetweenOne
  <2> QED
    BY <1>1, <2>1 DEF NoQuoteAfter
<1>10. f[e] = Scan(line, Inside(R, s), e)
  BY <1>3, <1>8, <1>9
<1>11. f[e] = Outside(R, s)
  BY <1>9, <1>10, ScanInside
<1> QED
  BY <1>11 DEF f, Reached

-----------------------------------------------------------------------------
(* Cells and columns *)

LEMMA SymbolFacts ==
    /\ Symbol \subseteq Character
    /\ "quote" \in Symbol /\ "space" \in Symbol /\ "comma" \in Symbol
BY DEF Symbol, Character

LEMMA CellIsOver ==
    ASSUME NEW S, "quote" \in S, "space" \in S, NEW s \in Seq(S), NEW style
    PROVE  Cell(s, style) \in Seq(S)
<1>1. Doubled(s)[Len(s)] \in Seq(S)
  <2>1. Len(s) \in 0..Len(s)
    BY LenProperties
  <2> QED
    BY <2>1, DoubledIsSeq
<1>2. PICK b \in Seq(S) : b = Doubled(s)[Len(s)]
  BY <1>1
<1>3. Quoted(s) \in Seq(S)
  BY <1>2 DEF Quoted
<1>4. <<"space">> \o s \o <<"space">> \in Seq(S)
  OBVIOUS
<1> QED
  BY <1>3, <1>4 DEF Cell

LEMMA CellIsSeq ==
    ASSUME NEW s \in Seq(Symbol), NEW style
    PROVE  Cell(s, style) \in Seq(Symbol)
BY CellIsOver, SymbolFacts

\* A cell, however it is written: behind it the loop has the text it was written for, up to the
\* blanks that trim() takes away.
LEMMA CellScanned ==
    ASSUME NEW line \in Seq(Symbol), NEW n, NEW e, NEW s \in Seq(Symbol), Trimmed(s), NEW style,
           Between(line, n, e, Cell(s, style)), NoQuoteAfter(line, e), NEW R,
           Reached(line, n, R, <<>>)
    PROVE  \E c : Reached(line, e, R, c) /\ Trim(c) = s
<1>1. Trim(s) = s
  BY TrimTrimmed
<1> DEFINE Special == Contains(s, "comma") \/ Contains(s, "quote") \/ Contains(s, "newline")
<1>2. CASE Special \/ style = "quoted"
  <2>1. Cell(s, style) = Quoted(s)
    BY <1>2 DEF Cell
  <2>2. Reached(line, e, R, s)
    BY <2>1, QuotedScanned, SymbolFacts
  <2> QED
    BY <1>1, <2>2
<1>3. CASE ~ (Special \/ style = "quoted") /\ style # "loose"
  <2>1. Cell(s, style) = s
    BY <1>3 DEF Cell
  <2>2. Reached(line, e, R, s)
    BY <1>3, <2>1, PlainScanned
  <2> QED
    BY <1>1, <2>2
<1>4. CASE ~ (Special \/ style = "quoted") /\ style = "loose"
  <2> DEFINE t == <<"space">> \o s \o <<"space">>
  <2>1. Cell(s, style) = t
    BY <1>4 DEF Cell
  <2>2. t \in Seq(Symbol)
    BY SymbolFacts
  <2>3. ~ Contains(t, "comma") /\ ~ Contains(t, "quote")
    <3>1. /\ Len(s) \in Nat /\ Len(t) = Len(s) + 2
          /\ t[1] = "space" /\ t[Len(s) + 2] = "space"
          /\ \A j \in 1..Len(s) : t[j + 1] = s[j]
      BY LenProperties
    <3>2. ASSUME NEW i \in 1..Len(t)
          PROVE  t[i] # "comma" /\ t[i] # "quote"
      <4> HIDE DEF t
      <4>1. CASE i = 1 \/ i = Len(s) + 2
        BY <3>1, <4>1
      <4>2. CASE ~ (i = 1 \/ i = Len(s) + 2)
        <5>1. i - 1 \in 1..Len(s) /\ (i - 1) + 1 = i
          BY <3>1, <4>2
        <5>2. t[i] = s[i - 1]
          BY <3>1, <5>1
        <5> QED
          BY <1>4, <5>1, <5>2 DEF Contains
      <4> QED
        BY <4>1, <4>2
    <3> QED
      BY <3>2 DEF Contains
  <2>4. Trim(t) = s
    BY TrimLoose, SymbolFacts
  <2> HIDE DEF t
  <2>5. Reached(line, e, R, t)
    BY <2>1, <2>2, <2>3, PlainScanned
  <2> QED
    BY <2>4, <2>5
<1> QED
  BY <1>2, <1>3, <1>4

\* A comma outside of quotes ends the column.
LEMMA CommaScanned ==
    ASSUME NEW line \in Seq(Symbol), NEW n, NEW e, Between(line, n, e, <<"comma">>),
           NEW R, NEW c, Reached(line, n, R, c)
    PROVE  Reached(line, e, Append(R, Trim(c)), <<>>)
<1>1. n \in Nat /\ e - 1 = n /\ e \in 1..Len(line) /\ line[e] = "comma"
  BY BetweenOne
<1>2. Len(line) \in Nat
  BY LenProperties
<1>3. Scanned(line)[e] = Scan(line, Scanned(line)[e - 1], e)
  BY <1>1, <1>2, ScannedRecursion
<1>4. Scanned(line)[e] = Scan(line, Outside(R, c), e)
  BY <1>1, <1>3 DEF Reached
<1> QED
  BY <1>1, <1>4, ScanOutside DEF Reached

\* Neither a cell that a comma follows nor the last of a line is followed by a quote.
LEMMA NoQuoteAtComma ==
    ASSUME NEW line \in Seq(Symbol), NEW n, NEW e, Between(line, n, e, <<"comma">>)
    PROVE  NoQuoteAfter(line, n)
<1>1. e = n + 1 /\ line[e] = "comma"
  BY BetweenOne
<1> QED
  BY <1>1 DEF NoQuoteAfter

LEMMA NoQuoteAtEnd ==
    ASSUME NEW line \in Seq(Symbol)
    PROVE  NoQuoteAfter(line, Len(line))
BY LenProperties DEF NoQuoteAfter

\* A line is scanned from its first character to its last.
LEMMA WholeLine ==
    ASSUME NEW line \in Seq(Symbol)
    PROVE  \E n, e : /\ e = Len(line) /\ NoQuoteAfter(line, e)
                     /\ Between(line, n, e, line)
                     /\ Reached(line, n, <<>>, <<>>)
<1>1. /\ Between(line, 0, Len(line), line)
      /\ Reached(line, 0, <<>>, <<>>)
  BY LenProperties, ScannedRecursion DEF Between, Outside, ScannerStart, Reached
<1> QED
  BY <1>1, NoQuoteAtEnd

\* A cell and a comma: the column is taken, and the next starts behind the comma.
LEMMA ColumnScanned ==
    ASSUME NEW line \in Seq(Symbol), NEW n, NEW e, NEW style,
           NEW s \in Seq(Symbol), Trimmed(s), NEW rest \in Seq(Symbol),
           Between(line, n, e, Cell(s, style) \o (<<"comma">> \o rest)), NEW R,
           Reached(line, n, R, <<>>)
    PROVE  \E m : /\ Between(line, m, e, rest)
                  /\ Reached(line, m, Append(R, s), <<>>)
<1>1. PICK cell \in Seq(Symbol) : cell = Cell(s, style)
  BY CellIsSeq
<1>2. PICK comma \in Seq(Symbol) : comma = <<"comma">>
  <2>1. <<"comma">> \in Seq(Symbol)
    BY SymbolFacts
  <2> QED
    BY <2>1
<1>3. comma \o rest \in Seq(Symbol)
  BY ConcatProperties
<1>4. Between(line, n, e, cell \o (comma \o rest))
  BY <1>1, <1>2
<1>5. PICK p : Between(line, n, p, cell) /\ Between(line, p, e, comma \o rest)
  BY <1>3, <1>4, BetweenConcat
<1>6. Between(line, n, p, Cell(s, style))
  BY <1>1, <1>5
<1>7. PICK m : Between(line, p, m, comma) /\ Between(line, m, e, rest)
  BY <1>5, BetweenConcat
<1>8. NoQuoteAfter(line, p)
  BY <1>2, <1>7, NoQuoteAtComma
<1>9. PICK c : Reached(line, p, R, c) /\ Trim(c) = s
  BY <1>6, <1>8, CellScanned
<1>10. Reached(line, m, Append(R, Trim(c)), <<>>)
  BY <1>2, <1>7, <1>9, CommaScanned
<1> QED
  BY <1>7, <1>9, <1>10

\* The last cell of a line: the column is taken when the loop is done.
LEMMA LastColumnScanned ==
    ASSUME NEW line \in Seq(Symbol), NEW n, NEW e,
           e = Len(line), NoQuoteAfter(line, e), NEW s \in Seq(Symbol), Trimmed(s), NEW style,
           Between(line, n, e, Cell(s, style)), NEW R,
           Reached(line, n, R, <<>>)
    PROVE  ParseCsvLine(line) = Append(R, s)
<1>1. PICK c : Reached(line, e, R, c) /\ Trim(c) = s
  BY CellScanned
<1> QED
  BY <1>1 DEF ParseCsvLine, Outside, Reached

LEMMA AppendSecond ==
    ASSUME NEW S, NEW a \in S, NEW b \in S
    PROVE  Append(<<a>>, b) = <<a, b>>
<1>1. PICK s \in Seq(S) : s = <<a>>
  <2>1. <<a>> \in Seq(S)
    OBVIOUS
  <2> QED
    BY <2>1
<1>2. PICK t \in Seq(S) : t = <<a, b>>
  <2>1. <<a, b>> \in Seq(S)
    OBVIOUS
  <2> QED
    BY <2>1
<1>3. Len(s) = 1 /\ s[1] = a /\ Len(t) = 2 /\ t[1] = a /\ t[2] = b
  BY <1>1, <1>2
<1>4. PICK u \in Seq(S) : u = Append(s, b)
  BY AppendProperties
<1>5. /\ Len(u) = Len(s) + 1 /\ u[Len(s) + 1] = b
      /\ \A i \in 1..Len(s) : u[i] = s[i]
  BY <1>4, AppendProperties
<1>6. Len(u) = 2 /\ u[1] = a /\ u[2] = b
  BY <1>3, <1>5
<1>7. \A i \in 1..Len(u) : u[i] = t[i]
  BY <1>3, <1>6
<1>8. u = t
  BY <1>3, <1>6, <1>7, SeqEqual
<1> QED
  BY <1>1, <1>2, <1>4, <1>8

LEMMA TwoColumns ==
    ASSUME NEW style,
           NEW a \in Seq(Symbol), NEW b \in Seq(Symbol), Trimmed(a), Trimmed(b)
    PROVE  ParseCsvLine(Cell(a, style) \o (<<"comma">> \o Cell(b, style))) = <<a, b>>
<1>1. PICK line : line = Cell(a, style) \o (<<"comma">> \o Cell(b, style))
  OBVIOUS
<1>2. PICK last \in Seq(Symbol) : last = Cell(b, style)
  BY CellIsSeq
<1>3. Cell(a, style) \in Seq(Symbol) /\ <<"comma">> \o last \in Seq(Symbol)
  BY CellIsSeq, SymbolFacts
<1>4. line \in Seq(Symbol)
  BY <1>1, <1>2, <1>3, ConcatProperties
<1>5. PICK n, e : /\ e = Len(line) /\ NoQuoteAfter(line, e)
                  /\ Between(line, n, e, line)
                  /\ Reached(line, n, <<>>, <<>>)
  BY <1>4, WholeLine
<1>6. Between(line, n, e, Cell(a, style) \o (<<"comma">> \o last))
  BY <1>1, <1>2, <1>5
<1>7. PICK m : /\ Between(line, m, e, last)
               /\ Reached(line, m, Append(<<>>, a), <<>>)
  BY <1>4, <1>5, <1>6, ColumnScanned
<1>8. Between(line, m, e, Cell(b, style))
  BY <1>2, <1>7
<1>9. ParseCsvLine(line) = Append(Append(<<>>, a), b)
  BY <1>4, <1>5, <1>7, <1>8, LastColumnScanned
<1>10. Append(<<>>, a) = <<a>> /\ Append(<<a>>, b) = <<a, b>>
  BY AppendSecond
<1> QED
  BY <1>1, <1>9, <1>10

LEMMA AppendThird ==
    ASSUME NEW S, NEW a \in S, NEW b \in S, NEW d \in S
    PROVE  Append(<<a, b>>, d) = <<a, b, d>>
<1>1. PICK s \in Seq(S) : s = <<a, b>>
  <2>1. <<a, b>> \in Seq(S)
    OBVIOUS
  <2> QED
    BY <2>1
<1>2. PICK t \in Seq(S) : t = <<a, b, d>>
  <2>1. <<a, b, d>> \in Seq(S)
    OBVIOUS
  <2> QED
    BY <2>1
<1>3. /\ Len(s) = 2 /\ s[1] = a /\ s[2] = b
      /\ Len(t) = 3 /\ t[1] = a /\ t[2] = b /\ t[3] = d
  BY <1>1, <1>2
<1>4. PICK u \in Seq(S) : u = Append(s, d)
  BY AppendProperties
<1>5. /\ Len(u) = Len(s) + 1 /\ u[Len(s) + 1] = d
       /\ \A i \in 1..Len(s) : u[i] = s[i]
  BY <1>4, AppendProperties
<1>6. /\ Len(u) = 3 /\ u[1] = a /\ u[2] = b /\ u[3] = d
  BY <1>3, <1>5
<1>7. \A i \in 1..Len(u) : u[i] = t[i]
  BY <1>3, <1>6
<1>8. u = t
  BY <1>3, <1>6, <1>7, SeqEqual
<1> QED
  BY <1>1, <1>2, <1>4, <1>8

LEMMA ThreeColumns ==
    ASSUME NEW style,
           NEW a \in Seq(Symbol), NEW b \in Seq(Symbol), NEW d \in Seq(Symbol),
           Trimmed(a), Trimmed(b), Trimmed(d)
    PROVE  ParseCsvLine(Cell(a, style) \o (<<"comma">>
                           \o (Cell(b, style) \o (<<"comma">> \o Cell(d, style))))) = <<a, b, d>>
<1>1. PICK line : line = Cell(a, style) \o (<<"comma">>
                           \o (Cell(b, style) \o (<<"comma">> \o Cell(d, style))))
  OBVIOUS
<1>2. PICK last \in Seq(Symbol) : last = Cell(d, style)
  BY CellIsSeq
<1>3. <<"comma">> \o last \in Seq(Symbol)
  BY SymbolFacts
<1>4. Cell(b, style) \in Seq(Symbol) /\ Cell(a, style) \in Seq(Symbol)
  BY CellIsSeq
<1>5. PICK rest \in Seq(Symbol) : rest = Cell(b, style) \o (<<"comma">> \o last)
  BY <1>3, <1>4, ConcatProperties
<1>6. <<"comma">> \o rest \in Seq(Symbol)
  BY SymbolFacts
<1>7. line \in Seq(Symbol)
  BY <1>1, <1>2, <1>4, <1>5, <1>6, ConcatProperties
<1>8. PICK n, e : /\ e = Len(line) /\ NoQuoteAfter(line, e)
                  /\ Between(line, n, e, line)
                  /\ Reached(line, n, <<>>, <<>>)
  BY <1>7, WholeLine
<1>9. Between(line, n, e, Cell(a, style) \o (<<"comma">> \o rest))
  BY <1>1, <1>2, <1>5, <1>8
<1>10. PICK m : /\ Between(line, m, e, rest)
                /\ Reached(line, m, Append(<<>>, a), <<>>)
  BY <1>7, <1>8, <1>9, ColumnScanned
<1>11. Between(line, m, e, Cell(b, style) \o (<<"comma">> \o last))
  BY <1>5, <1>10
<1>12. PICK k : /\ Between(line, k, e, last)
                /\ Reached(line, k, Append(Append(<<>>, a), b), <<>>)
  BY <1>7, <1>10, <1>11, ColumnScanned
<1>13. Between(line, k, e, Cell(d, style))
  BY <1>2, <1>12
<1>14. ParseCsvLine(line) = Append(Append(Append(<<>>, a), b), d)
  BY <1>7, <1>8, <1>12, <1>13, LastColumnScanned
<1>15. /\ Append(<<>>, a) = <<a>> /\ Append(<<a>>, b) = <<a, b>>
       /\ Append(<<a, b>>, d) = <<a, b, d>>
  <2>1. Append(<<a, b>>, d) = <<a, b, d>>
    BY AppendThird
  <2>2. Append(<<>>, a) = <<a>>
    OBVIOUS
  <2>3. Append(<<a>>, b) = <<a, b>>
    BY AppendSecond
  <2> QED
    BY <2>1, <2>2, <2>3
<1> QED
  BY <1>1, <1>14, <1>15

-----------------------------------------------------------------------------
(* Phones and roles *)

\* A phone is read back from every form it is written in, and is not taken for the heading.
LEMMA PhoneTextMeant ==
    ASSUME NEW p \in Phone \cup {None}, NEW style
    PROVE  /\ PhoneText(p, style) \in Seq(Symbol)
           /\ Trimmed(PhoneText(p, style))
           /\ ~ Contains(PhoneText(p, style), "Phone")
           /\ NormalizePhone(PhoneText(p, style)) = p
<1> DEFINE DigitsOf(raw) == {i \in DOMAIN raw : raw[i] \in Phone \cup {"91", "5"}}
           Are(raw, x) == \/ \E i \in DigitsOf(raw) : DigitsOf(raw) = {i} /\ raw[i] = x
                          \/ \E i, j \in DigitsOf(raw) :
                                /\ i < j /\ DigitsOf(raw) = {i, j}
                                /\ raw[i] = "91" /\ raw[j] = x
<1>1. CASE p = None
  <2> DEFINE t == <<"5">>
  <2>1. PhoneText(p, style) = t
    BY <1>1 DEF PhoneText
  <2>2. t \in Seq(Symbol) /\ Trimmed(t) /\ ~ Contains(t, "Phone")
    BY DEF Symbol, Character, Trimmed, Contains
  <2>3. DigitsOf(t) = {1} /\ t[1] = "5"
    BY PhoneAssumption
  <2> HIDE DEF t
  <2>4. \A x \in Phone : ~ Are(t, x)
    BY <2>3, PhoneAssumption
  <2>5. NormalizePhone(t) = None
    BY <2>4 DEF NormalizePhone
  <2> QED
    BY <1>1, <2>1, <2>2, <2>5
<1>2. CASE p # None /\ style # "loose"
  <2> DEFINE t == <<p>>
  <2>1. p \in Phone /\ p \notin {"quote", "comma", "space", "newline", "+", "91", "5", "Phone"}
    BY <1>2, PhoneAssumption
  <2>2. PhoneText(p, style) = t
    BY <1>2 DEF PhoneText
  <2>3. t \in Seq(Symbol) /\ Trimmed(t) /\ ~ Contains(t, "Phone")
    <3>1. p \in Symbol
      BY <2>1 DEF Symbol, Character
    <3>2. t \in Seq(Symbol) /\ Len(t) = 1 /\ t[1] = p
      BY <3>1
    <3> HIDE DEF t
    <3> QED
      BY <2>1, <3>2 DEF Trimmed, Contains
  <2>4. DigitsOf(t) = {1} /\ t[1] = p
    BY <2>1
  <2> HIDE DEF t
  <2>5. \A x : Are(t, x) <=> x = p
    BY <2>4
  <2>6. NormalizePhone(t) = p
    BY <2>1, <2>5 DEF NormalizePhone
  <2> QED
    BY <2>2, <2>3, <2>6
<1>3. CASE p # None /\ style = "loose"
  <2> DEFINE t == <<"+", "91", "space", p>>
  <2>1. p \in Phone /\ p \notin {"quote", "comma", "space", "newline", "+", "91", "5", "Phone"}
    BY <1>3, PhoneAssumption
  <2>2. PhoneText(p, style) = t
    BY <1>3 DEF PhoneText
  <2>3. t \in Seq(Symbol) /\ Trimmed(t) /\ ~ Contains(t, "Phone")
    <3>1. p \in Symbol /\ "+" \in Symbol /\ "91" \in Symbol /\ "space" \in Symbol
      BY <2>1 DEF Symbol, Character
    <3>2. /\ t \in Seq(Symbol) /\ Len(t) = 4
          /\ t[1] = "+" /\ t[2] = "91" /\ t[3] = "space" /\ t[4] = p
      BY <3>1
    <3> HIDE DEF t
    <3>3. \A i \in 1..Len(t) : i \in {1, 2, 3, 4}
      BY <3>2
    <3> QED
      BY <2>1, <3>2, <3>3 DEF Trimmed, Contains
  <2>4. DigitsOf(t) = {2, 4} /\ t[2] = "91" /\ t[4] = p
    BY <2>1, PhoneAssumption
  <2> HIDE DEF t
  <2>5. \A x : Are(t, x) <=> x = p
    BY <2>4
  <2>6. NormalizePhone(t) = p
    BY <2>1, <2>5 DEF NormalizePhone
  <2> QED
    BY <2>2, <2>3, <2>6
<1> QED
  BY <1>1, <1>2, <1>3

\* What normalizeRole answers for a role of one word and for one of three.
LEMMA RoleOfWords ==
    ASSUME NEW u \in Symbol, NEW v \in Symbol, NEW w \in Symbol, u # "space", w # "space"
    PROVE  /\ <<w>> \in Seq(Symbol) /\ Trimmed(<<w>>)
           /\ Lower(w) = "clerk" => NormalizeRole(<<w>>) = None
           /\ Lower(w) = "mla" => NormalizeRole(<<w>>) = "mla"
           /\ Lower(w) = "officer" => NormalizeRole(<<w>>) = "service_officer"
           /\ <<u, v, w>> \in Seq(Symbol) /\ Trimmed(<<u, v, w>>)
           /\ Lower(u) = "ward" /\ Lower(v) = "_" /\ Lower(w) \in {"councillor", "councilor"}
                 => NormalizeRole(<<u, v, w>>) = "ward_councillor"
           /\ Lower(u) = "service" /\ Lower(v) = "_" /\ Lower(w) = "officer"
                 => NormalizeRole(<<u, v, w>>) = "service_officer"
<1> DEFINE Cleaned(t) == [i \in DOMAIN t |-> Lower(t[i])]
<1> DEFINE Mla == {<<"mla">>}
           Ward == {<<"ward", "_", "councillor">>, <<"ward", "_", "councilor">>}
           Officer == {<<"service", "_", "officer">>, <<"serviceofficer">>, <<"officer">>}
<1>1. ASSUME NEW t \in Seq(Symbol), Trimmed(t), NEW c, c = Cleaned(t)
      PROVE  NormalizeRole(t) = CASE c = <<"mla">> -> "mla"
                                  [] c \in Ward -> "ward_councillor"
                                  [] c \in Officer -> "service_officer"
                                  [] OTHER -> None
  <2>1. Trim(t) = t
    BY <1>1, TrimTrimmed
  <2> QED
    BY <1>1, <2>1 DEF NormalizeRole
<1>2. \A c \in Mla : c[1] = "mla"
  OBVIOUS
<1>3. \A c \in Ward : c[1] = "ward"
  <2>1. <<"ward", "_", "councillor">>[1] = "ward"
    OBVIOUS
  <2>2. <<"ward", "_", "councilor">>[1] = "ward"
    OBVIOUS
  <2> QED
    BY <2>1, <2>2
<1>4. \A c \in Officer : c[1] \in {"service", "serviceofficer", "officer"}
  <2>1. <<"service", "_", "officer">>[1] = "service"
    OBVIOUS
  <2>2. <<"serviceofficer">>[1] = "serviceofficer" /\ <<"officer">>[1] = "officer"
    OBVIOUS
  <2> QED
    BY <2>1, <2>2
<1>5. \A c : /\ c = <<"mla">> => c \notin Ward \cup Officer
             /\ c \in Ward => c \notin Officer
             /\ c[1] = "clerk" => c # <<"mla">> /\ c \notin Ward \cup Officer
  <2> HIDE DEF Mla, Ward, Officer
  <2>1. <<"mla">> \in Mla
    BY DEF Mla
  <2> QED
    BY <1>2, <1>3, <1>4, <2>1
<1> HIDE DEF Mla, Ward, Officer
<1>6. ASSUME NEW t \in Seq(Symbol), Trimmed(t), NEW c, c = Cleaned(t)
      PROVE  /\ c = <<"mla">> => NormalizeRole(t) = "mla"
             /\ c \in Ward => NormalizeRole(t) = "ward_councillor"
             /\ c \in Officer => NormalizeRole(t) = "service_officer"
             /\ c[1] = "clerk" => NormalizeRole(t) = None
  <2> HIDE DEF Cleaned
  <2> QED
    BY <1>1, <1>5, <1>6
<1>7. /\ <<w>> \in Seq(Symbol) /\ Trimmed(<<w>>) /\ Cleaned(<<w>>) = <<Lower(w)>>
  BY DEF Trimmed
<1>8. /\ <<u, v, w>> \in Seq(Symbol) /\ Trimmed(<<u, v, w>>)
      /\ Cleaned(<<u, v, w>>) = <<Lower(u), Lower(v), Lower(w)>>
  BY DEF Trimmed
<1> HIDE DEF Cleaned
<1>9. PICK t : t = <<w>>
  OBVIOUS
<1>10. PICK c : c = Cleaned(t)
  OBVIOUS
<1>11. c = <<Lower(w)>> /\ t \in Seq(Symbol) /\ Trimmed(t)
  BY <1>7, <1>9, <1>10
<1>12. /\ Lower(w) = "clerk" => c[1] = "clerk"
       /\ Lower(w) = "mla" => c = <<"mla">>
       /\ Lower(w) = "officer" => c \in Officer
  BY <1>11 DEF Officer
<1>13. /\ Lower(w) = "clerk" => NormalizeRole(t) = None
       /\ Lower(w) = "mla" => NormalizeRole(t) = "mla"
       /\ Lower(w) = "officer" => NormalizeRole(t) = "service_officer"
  BY <1>6, <1>10, <1>11, <1>12
<1>14. PICK s : s = <<u, v, w>>
  OBVIOUS
<1>15. PICK d : d = Cleaned(s)
  OBVIOUS
<1>16. d = <<Lower(u), Lower(v), Lower(w)>> /\ s \in Seq(Symbol) /\ Trimmed(s)
  BY <1>8, <1>14, <1>15
<1>17. /\ Lower(u) = "ward" /\ Lower(v) = "_" /\ Lower(w) \in {"councillor", "councilor"}
             => d \in Ward
       /\ Lower(u) = "service" /\ Lower(v) = "_" /\ Lower(w) = "officer" => d \in Officer
  BY <1>16 DEF Ward, Officer
<1>18. /\ d \in Ward => NormalizeRole(s) = "ward_councillor"
       /\ d \in Officer => NormalizeRole(s) = "service_officer"
  BY <1>6, <1>15, <1>16
<1> QED
  BY <1>7, <1>8, <1>9, <1>13, <1>14, <1>17, <1>18

\* A role is read back from every form it is written in.
LEMMA RoleTextMeant ==
    ASSUME NEW role \in Roles \cup {None}, NEW style
    PROVE  /\ RoleText(role, style) \in Seq(Symbol)
           /\ Trimmed(RoleText(role, style))
           /\ NormalizeRole(RoleText(role, style)) = role
<1>1. None \notin Roles
  BY OfficialsAssumption
<1>2. CASE role = None
  <2>1. PICK w \in Symbol : w = "clerk"
    BY DEF Symbol, Character
  <2>2. RoleText(role, style) = <<w>> /\ w # "space" /\ Lower(w) = "clerk"
    BY <1>1, <1>2, <2>1 DEF RoleText, Lower, Roles
  <2>3. /\ <<w>> \in Seq(Symbol) /\ Trimmed(<<w>>)
        /\ Lower(w) = "clerk" => NormalizeRole(<<w>>) = None
    BY <2>2, RoleOfWords
  <2> QED
    BY <1>2, <2>2, <2>3
<1>3. CASE role = "mla"
  <2>1. PICK w \in Symbol : w = IF style = "loose" THEN "MLA" ELSE "mla"
    <3>1. "MLA" \in Symbol /\ "mla" \in Symbol
      BY DEF Symbol, Character
    <3> QED
      BY <3>1
  <2>2. RoleText(role, style) = <<w>> /\ w # "space" /\ Lower(w) = "mla"
    BY <1>1, <1>3, <2>1 DEF RoleText, Lower, Roles
  <2>3. /\ <<w>> \in Seq(Symbol) /\ Trimmed(<<w>>)
        /\ Lower(w) = "mla" => NormalizeRole(<<w>>) = "mla"
    BY <2>2, RoleOfWords
  <2> QED
    BY <1>3, <2>2, <2>3
<1>4. CASE role = "ward_councillor"
  <2>1. PICK u \in Symbol, v \in Symbol, w \in Symbol :
             /\ RoleText(role, style) = <<u, v, w>> /\ u # "space" /\ w # "space"
             /\ Lower(u) = "ward" /\ Lower(v) = "_" /\ Lower(w) \in {"councillor", "councilor"}
    BY <1>1, <1>4 DEF RoleText, Symbol, Character, Lower, Roles
  <2> QED
    BY <1>4, <2>1, RoleOfWords
<1>5. CASE role = "service_officer" /\ style = "loose"
  <2>1. PICK w \in Symbol : w = "Officer"
    BY DEF Symbol, Character
  <2>2. RoleText(role, style) = <<w>> /\ w # "space" /\ Lower(w) = "officer"
    BY <1>1, <1>5, <2>1 DEF RoleText, Lower, Roles
  <2>3. /\ <<w>> \in Seq(Symbol) /\ Trimmed(<<w>>)
        /\ Lower(w) = "officer" => NormalizeRole(<<w>>) = "service_officer"
    BY <2>2, RoleOfWords
  <2> QED
    BY <1>5, <2>2, <2>3
<1>6. CASE role = "service_officer" /\ style # "loose"
  <2>1. PICK u \in Symbol, v \in Symbol, w \in Symbol :
             u = "service" /\ v = "_" /\ w = "officer"
    BY DEF Symbol, Character
  <2>2. /\ RoleText(role, style) = <<u, v, w>> /\ u # "space" /\ w # "space"
        /\ Lower(u) = "service" /\ Lower(v) = "_" /\ Lower(w) = "officer"
    BY <1>1, <1>6, <2>1 DEF RoleText, Lower, Roles
  <2>3. /\ <<u, v, w>> \in Seq(Symbol) /\ Trimmed(<<u, v, w>>)
        /\ NormalizeRole(<<u, v, w>>) = "service_officer"
    BY <2>2, RoleOfWords
  <2> QED
    BY <1>6, <2>2, <2>3
<1>7. role = None \/ role = "mla" \/ role = "ward_councillor" \/ role = "service_officer"
  BY DEF Roles
<1> QED
  BY <1>2, <1>3, <1>4, <1>5, <1>6, <1>7

-----------------------------------------------------------------------------
(* Lines and files *)

\* That the texts s, t and u can be put together in either order.
Associate(s, t, u) == (s \o t) \o u = s \o (t \o u)

LEMMA ConcatSymbols ==
    ASSUME NEW s \in Seq(Symbol), NEW t \in Seq(Symbol), NEW u \in Seq(Symbol)
    PROVE  Associate(s, t, u)
BY ConcatAssociative DEF Associate

\* The columns of a whole row's line are the texts of the row, and the department is left out
\* when empty.
LEMMA LineColumns ==
    ASSUME NEW row \in Rows, ~ Torn(row), NEW style
    PROVE  LET a == PhoneText(row.phone, style)
               b == RoleText(row.role, style)
           IN  ParseCsvLine(Line(row, style)) = IF row.department = <<>> THEN <<a, b>>
                                                ELSE <<a, b, row.department>>
<1>1. PICK phone, role, d : /\ phone = row.phone /\ role = row.role /\ d = row.department
                            /\ phone \in Phone \cup {None} /\ role \in Roles \cup {None}
                            /\ d \in Seq(STRING) /\ Trimmed(d)
  BY OfficialsAssumption DEF Meant
<1>2. d \in Seq(Symbol)
  <2>1. STRING \subseteq Character
    BY DEF Character
  <2>2. \A i \in 1..Len(d) : d[i] \in Character /\ d[i] # "newline"
    BY <1>1, <2>1, ElementOfSeq DEF Torn, Contains
  <2>3. \A i \in 1..Len(d) : d[i] \in Symbol
    BY <2>2 DEF Symbol
  <2> QED
    BY <1>1, <2>3, IsASeq
<1>3. PICK a \in Seq(Symbol) : a = PhoneText(phone, style) /\ Trimmed(a)
  BY <1>1, PhoneTextMeant
<1>4. PICK b \in Seq(Symbol) : b = RoleText(role, style) /\ Trimmed(b)
  BY <1>1, RoleTextMeant
<1>5. PICK A \in Seq(Symbol) : A = Cell(a, style)
  BY CellIsSeq
<1>6. PICK B \in Seq(Symbol) : B = Cell(b, style)
  BY CellIsSeq
<1>7. PICK comma \in Seq(Symbol) : comma = <<"comma">>
  <2>1. <<"comma">> \in Seq(Symbol)
    BY SymbolFacts
  <2> QED
    BY <2>1
<1>8. comma \o B \in Seq(Symbol)
  BY ConcatProperties
<1>9. CASE d = <<>>
  <2>1. Line(row, style) = A \o comma \o B \o <<>>
    BY <1>1, <1>3, <1>4, <1>5, <1>6, <1>7, <1>9 DEF Line
  <2>2. A \o comma \o B \in Seq(Symbol)
    BY ConcatProperties
  <2>3. Line(row, style) = A \o comma \o B
    BY <2>1, <2>2, ConcatEmptySeq
  <2>4. Line(row, style) = A \o (comma \o B)
    BY <2>3, ConcatSymbols DEF Associate
  <2>5. PICK line : line = Line(row, style)
    OBVIOUS
  <2>6. line = Cell(a, style) \o (<<"comma">> \o Cell(b, style))
    BY <1>5, <1>6, <1>7, <2>4, <2>5
  <2>7. ParseCsvLine(Cell(a, style) \o (<<"comma">> \o Cell(b, style))) = <<a, b>>
    BY <1>3, <1>4, TwoColumns
  <2> QED
    BY <1>1, <1>3, <1>4, <1>9, <2>5, <2>6, <2>7
<1>10. CASE d # <<>>
  <2>1. PICK D \in Seq(Symbol) : D = Cell(d, style)
    BY <1>2, CellIsSeq
  <2>2. Line(row, style) = A \o comma \o B \o (comma \o D)
    BY <1>1, <1>3, <1>4, <1>5, <1>6, <1>7, <1>10, <2>1 DEF Line
  <2>3. PICK last \in Seq(Symbol) : last = comma \o D
    BY ConcatProperties
  <2>4. ((A \o comma) \o B) \o last = A \o (comma \o (B \o last))
    <3>1. PICK middle \in Seq(Symbol) : middle = comma \o B
      BY <1>8
    <3>2. Associate(A, comma, B) /\ Associate(A, middle, last) /\ Associate(comma, B, last)
      BY ConcatSymbols
    <3>3. (A \o comma) \o B = A \o middle
      BY <3>1, <3>2 DEF Associate
    <3>4. (A \o middle) \o last = A \o (middle \o last)
      BY <3>2 DEF Associate
    <3>5. middle \o last = comma \o (B \o last)
      BY <3>1, <3>2 DEF Associate
    <3> QED
      BY <3>3, <3>4, <3>5
  <2>5. PICK line : line = Line(row, style)
    OBVIOUS
  <2>6. line = A \o (comma \o (B \o (comma \o D)))
    BY <2>2, <2>3, <2>4, <2>5
  <2>7. line = Cell(a, style) \o (<<"comma">>
                  \o (Cell(b, style) \o (<<"comma">> \o Cell(d, style))))
    BY <1>5, <1>6, <1>7, <2>1, <2>6
  <2>8. ParseCsvLine(Cell(a, style) \o (<<"comma">>
               \o (Cell(b, style) \o (<<"comma">> \o Cell(d, style))))) = <<a, b, d>>
    BY <1>1, <1>2, <1>3, <1>4, ThreeColumns
  <2> QED
    BY <1>1, <1>3, <1>4, <1>10, <2>5, <2>7, <2>8
<1> QED
  BY <1>9, <1>10

\* A whole row's line gives the official the row means, and none if the row has no phone or no
\* role, and is not taken for a heading.
LEMMA OfficialOfLine ==
    ASSUME NEW row \in Rows, ~ Torn(row), NEW style
    PROVE  /\ OfficialsOf(Line(row, style)) = IF Valid(row) THEN {OfficialMeant(row)} ELSE {}
           /\ ~ Contains(ParseCsvLine(Line(row, style))[1], "Phone")
<1>1. PICK phone, role, d : /\ row = [phone |-> phone, role |-> role, department |-> d]
                            /\ phone \in Phone \cup {None} /\ role \in Roles \cup {None}
  BY OfficialsAssumption DEF Meant
<1>2. row.phone = phone /\ row.role = role /\ row.department = d
  BY <1>1
<1>3. PICK a : a = PhoneText(phone, style) /\ ~ Contains(a, "Phone") /\ NormalizePhone(a) = phone
  BY <1>1, PhoneTextMeant
<1>4. PICK b : b = RoleText(role, style) /\ NormalizeRole(b) = role
  BY <1>1, RoleTextMeant
<1>5. PICK columns : columns = ParseCsvLine(Line(row, style))
  OBVIOUS
<1>6. columns = IF d = <<>> THEN <<a, b>> ELSE <<a, b, d>>
  BY <1>2, <1>3, <1>4, <1>5, LineColumns
<1>7. /\ Len(columns) >= 2 /\ columns[1] = a
      /\ Column(columns, 1) = a /\ Column(columns, 2) = b /\ Column(columns, 3) = d
  BY <1>6 DEF Column
<1>8. OfficialsOf(Line(row, style)) =
         IF phone = None \/ role = None THEN {}
         ELSE {[phone |-> phone, role |-> role,
                department |-> IF role = "service_officer" THEN d ELSE <<>>]}
  <2>1. ~ (Len(columns) < 2)
    BY <1>7
  <2> QED
    BY <1>3, <1>4, <1>5, <1>7, <2>1 DEF OfficialsOf
<1>9. OfficialMeant(row) = [phone |-> phone, role |-> role,
                            department |-> IF role = "service_officer" THEN d ELSE <<>>]
  BY <1>1 DEF OfficialMeant
<1>10. Valid(row) <=> ~ (phone = None \/ role = None)
  BY <1>2 DEF Valid
<1>11. ~ Contains(columns[1], "Phone")
  BY <1>3, <1>7
<1> QED
  BY <1>5, <1>8, <1>9, <1>10, <1>11

\* A heading is the line of no official.
LEMMA HeadingIsNoOfficial == OfficialsOf(Heading) = {}
<1>1. PICK a \in Seq(Symbol), b \in Seq(Symbol), d \in Seq(Symbol) :
           a = <<"Phone">> /\ b = <<"Role">> /\ d = <<"Department">>
  <2>1. "Phone" \in Symbol /\ "Role" \in Symbol /\ "Department" \in Symbol
    BY DEF Symbol, Character
  <2>2. /\ <<"Phone">> \in Seq(Symbol) /\ <<"Role">> \in Seq(Symbol)
        /\ <<"Department">> \in Seq(Symbol)
    BY <2>1
  <2> QED
    BY <2>2
<1>2. /\ Len(a) = 1 /\ a[1] = "Phone" /\ Len(b) = 1 /\ b[1] = "Role"
      /\ Len(d) = 1 /\ d[1] = "Department"
  BY <1>1
<1>3. Trimmed(a) /\ Trimmed(b) /\ Trimmed(d)
  BY <1>2 DEF Trimmed
<1>4. Cell(a, "plain") = a /\ Cell(b, "plain") = b /\ Cell(d, "plain") = d
  BY <1>2 DEF Cell, Contains
<1>5. Heading = a \o (<<"comma">> \o (b \o (<<"comma">> \o d)))
  BY <1>1 DEF Heading
<1>6. PICK columns : columns = ParseCsvLine(Heading)
  OBVIOUS
<1>7. columns = <<a, b, d>>
  <2>1. ParseCsvLine(Cell(a, "plain") \o (<<"comma">>
               \o (Cell(b, "plain") \o (<<"comma">> \o Cell(d, "plain"))))) = <<a, b, d>>
    BY <1>3, ThreeColumns
  <2> QED
    BY <1>4, <1>5, <1>6, <2>1
<1>8. Column(columns, 1) = a
  BY <1>7 DEF Column
<1>9. NormalizePhone(a) = None
  <2>1. {i \in DOMAIN a : a[i] \in Phone \cup {"91", "5"}} = {}
    <3>1. DOMAIN a = {1}
      BY <1>2, LenProperties
    <3> QED
      BY <1>2, <3>1, PhoneAssumption
  <2> QED
    BY <2>1 DEF NormalizePhone
<1> QED
  BY <1>6, <1>8, <1>9 DEF OfficialsOf

\* The lines of a content before their newlines are put behind them.
Ended(lines) == [i \in 1..Len(lines) |-> lines[i] \o <<"newline">>]

\* Where the newline behind the first i lines stands.
End(lines, i) == Len(Concatenated(Ended(lines))[i])

\* Line i stands in the text between the newline of the line before and its own.
Stands(text, lines, i) ==
    /\ End(lines, i - 1) \in Nat /\ Len(lines[i]) \in Nat
    /\ End(lines, i) = End(lines, i - 1) + Len(lines[i]) + 1
    /\ End(lines, i) <= Len(text)
    /\ text[End(lines, i)] = "newline"
    /\ \A j \in 1..Len(lines[i]) : text[End(lines, i - 1) + j] = lines[i][j]

\* A text of which all is lines.
AllLines(text, lines, m) ==
    /\ text \in Seq(Character)
    /\ Len(text) = End(lines, m)
    /\ \A i \in 1..m : Stands(text, lines, i)
    /\ \A x \in 1..Len(text) : \E i \in 1..m : End(lines, i - 1) < x /\ x <= End(lines, i)

\* A text of which the symbols are those of two others, one behind the other.
Joined(u, s, t) ==
    /\ u \in Seq(Character) /\ s \in Seq(Character) /\ t \in Seq(Character)
    /\ Len(u) = Len(s) + Len(t)
    /\ \A x \in 1..Len(s) : u[x] = s[x]
    /\ \A x \in 1..Len(t) : u[Len(s) + x] = t[x]

LEMMA ConcatJoins ==
    ASSUME NEW s \in Seq(Character), NEW t \in Seq(Character)
    PROVE  Joined(s \o t, s, t)
<1>1. /\ s \o t \in Seq(Character) /\ Len(s \o t) = Len(s) + Len(t)
      /\ Len(s) \in Nat /\ Len(t) \in Nat
      /\ \A x \in 1..Len(s) : (s \o t)[x] = s[x]
      /\ \A x \in 1..Len(t) : (s \o t)[Len(s) + x] = t[x]
  BY ConcatProperties, LenProperties
<1> QED
  BY <1>1 DEF Joined

\* The line with its newline.
EndedBy(more, line) ==
    /\ Len(more) = Len(line) + 1
    /\ more[Len(line) + 1] = "newline"
    /\ \A j \in 1..Len(line) : more[j] = line[j]

LEMMA LineEnded ==
    ASSUME NEW line \in Seq(Character)
    PROVE  /\ line \o <<"newline">> \in Seq(Character)
           /\ EndedBy(line \o <<"newline">>, line)
<1>1. PICK n \in Seq(Character) : n = <<"newline">> /\ Len(n) = 1 /\ n[1] = "newline"
  <2>1. "newline" \in Character
    BY DEF Character
  <2>2. <<"newline">> \in Seq(Character)
    BY <2>1
  <2> QED
    BY <2>2
<1>2. PICK more : more = line \o n
  OBVIOUS
<1>3. Joined(more, line, n)
  BY <1>2, ConcatJoins
<1>4. more \in Seq(Character) /\ EndedBy(more, line)
  BY <1>1, <1>3 DEF Joined, EndedBy
<1> QED
  BY <1>1, <1>2, <1>4

\* What is appended to a text leaves the lines in it where they are.
LEMMA LinesStay ==
    ASSUME NEW lines, NEW m \in Nat, NEW text, AllLines(text, lines, m),
           NEW line \in Seq(Character), line = lines[m + 1],
           NEW longer, NEW more, EndedBy(more, line), Joined(longer, text, more),
           Len(longer) = End(lines, m + 1)
    PROVE  AllLines(longer, lines, m + 1)
<1>1. /\ Len(more) = Len(line) + 1 /\ more[Len(line) + 1] = "newline"
      /\ \A j \in 1..Len(line) : more[j] = line[j]
  BY DEF EndedBy
<1>2. text \in Seq(Character) /\ Len(text) \in Nat /\ Len(line) \in Nat /\ Len(text) = End(lines, m)
  BY LenProperties DEF AllLines
<1>3. /\ longer \in Seq(Character) /\ Len(longer) = Len(text) + Len(more)
      /\ \A x \in 1..Len(text) : longer[x] = text[x]
      /\ \A x \in 1..Len(more) : longer[Len(text) + x] = more[x]
  BY DEF Joined
<1>4. ASSUME NEW i \in 1..m
      PROVE  Stands(longer, lines, i)
  <2>1. Stands(text, lines, i)
    BY DEF AllLines
  <2>2. PICK b, e, t : b = End(lines, i - 1) /\ e = End(lines, i) /\ t = lines[i]
    OBVIOUS
  <2>3. /\ b \in Nat /\ Len(t) \in Nat /\ e = b + Len(t) + 1 /\ e <= Len(text)
        /\ text[e] = "newline" /\ \A j \in 1..Len(t) : text[b + j] = t[j]
    BY <2>1, <2>2 DEF Stands
  <2>4. e \in 1..Len(text) /\ \A j \in 1..Len(t) : b + j \in 1..Len(text)
    BY <1>2, <2>3
  <2>5. longer[e] = "newline" /\ \A j \in 1..Len(t) : longer[b + j] = t[j]
    BY <1>3, <2>3, <2>4
  <2>6. e <= Len(longer)
    BY <1>1, <1>2, <1>3, <2>3
  <2> QED
    BY <2>2, <2>3, <2>5, <2>6 DEF Stands
<1>5. Stands(longer, lines, m + 1)
  <2>1. (m + 1) - 1 = m
    OBVIOUS
  <2>2. \A j \in 1..Len(line) : longer[Len(text) + j] = line[j]
    BY <1>1, <1>2, <1>3
  <2>3. /\ End(lines, m + 1) = Len(text) + Len(line) + 1
        /\ longer[Len(text) + Len(line) + 1] = "newline"
    <3>1. Len(text) + (Len(line) + 1) = Len(text) + Len(line) + 1
      BY <1>2
    <3>2. longer[Len(text) + (Len(line) + 1)] = "newline"
      <4>1. Len(line) + 1 \in 1..Len(more)
        BY <1>1, <1>2
      <4> QED
        BY <1>1, <1>3, <4>1
    <3> QED
      BY <1>1, <1>2, <1>3, <3>1, <3>2
  <2> QED
    BY <1>2, <1>3, <2>1, <2>2, <2>3 DEF Stands
<1>6. ASSUME NEW x \in 1..Len(longer)
      PROVE  \E i \in 1..(m + 1) : End(lines, i - 1) < x /\ x <= End(lines, i)
  <2>1. CASE x <= Len(text)
    <3>1. x \in 1..Len(text)
      BY <1>2, <2>1
    <3>2. PICK i \in 1..m : End(lines, i - 1) < x /\ x <= End(lines, i)
      BY <3>1 DEF AllLines
    <3> QED
      BY <3>2
  <2>2. CASE ~ (x <= Len(text))
    <3>1. (m + 1) - 1 = m /\ m + 1 \in 1..(m + 1)
      OBVIOUS
    <3>2. End(lines, m) < x /\ x <= End(lines, m + 1)
      BY <1>2, <2>2
    <3> QED
      BY <3>1, <3>2
  <2> QED
    BY <2>1, <2>2
<1>7. \A i \in 1..(m + 1) : i \in 1..m \/ i = m + 1
  OBVIOUS
<1> QED
  BY <1>3, <1>4, <1>5, <1>6, <1>7 DEF AllLines

\* The content is the lines one behind the other.
LEMMA ContentIsLines ==
    ASSUME NEW lines \in Seq(Seq(Character))
    PROVE  AllLines(Content(lines), lines, Len(lines)) /\ End(lines, 0) = 0
<1> DEFINE N == Len(lines)
           text == Concatenated(Ended(lines))
           T == {m \in 0..N : AllLines(text[m], lines, m)}
<1>1. N \in Nat /\ \A i \in 1..N : lines[i] \in Seq(Character)
  BY LenProperties, ElementOfSeq
<1>2. Len(Ended(lines)) = N /\ \A i \in 1..N : Ended(lines)[i] = lines[i] \o <<"newline">>
  BY <1>1 DEF Ended
<1>3. text[0] = <<>> /\ \A i \in 1..N : text[i] = text[i - 1] \o Ended(lines)[i]
  BY <1>1, <1>2, ConcatenatedRecursion
<1>4. \A i \in 0..N : End(lines, i) = Len(text[i])
  BY DEF End
<1>5. Content(lines) = text[N]
  BY DEF Content, Ended
<1> HIDE DEF text
<1>6. End(lines, 0) = 0
  BY <1>1, <1>3, <1>4
<1>7. 0 \in T
  <2>1. 0 \in 0..N /\ text[0] \in Seq(Character) /\ Len(text[0]) = 0
    BY <1>1, <1>3
  <2> QED
    BY <1>6, <2>1 DEF AllLines
<1>8. ASSUME NEW m \in 0..(N - 1), m \in T
      PROVE  m + 1 \in T
  <2>1. m \in Nat /\ m + 1 \in 0..N /\ m + 1 \in 1..N /\ (m + 1) - 1 = m
    BY <1>1
  <2>2. PICK before, after, line : before = text[m] /\ after = text[m + 1] /\ line = lines[m + 1]
    OBVIOUS
  <2>3. AllLines(before, lines, m)
    BY <1>8, <2>2
  <2>4. PICK more : /\ more = line \o <<"newline">> /\ after = before \o more
                    /\ line \in Seq(Character)
    BY <1>1, <1>2, <1>3, <2>1, <2>2
  <2>5. Len(after) = End(lines, m + 1)
    BY <1>4, <2>1, <2>2
  <2>6. more \in Seq(Character) /\ EndedBy(more, line)
    BY <2>4, LineEnded
  <2>7. Joined(after, before, more)
    <3>1. before \in Seq(Character)
      BY <2>3 DEF AllLines
    <3> QED
      BY <2>4, <2>6, <3>1, ConcatJoins
  <2>8. AllLines(after, lines, m + 1)
    BY <2>1, <2>2, <2>3, <2>4, <2>5, <2>6, <2>7, LinesStay
  <2> QED
    BY <2>1, <2>2, <2>8
<1>9. N \in T
  <2> HIDE DEF T
  <2>1. 0..N \subseteq T
    BY <1>1, <1>7, <1>8, SetInduction
  <2> QED
    BY <1>1, <2>1
<1> QED
  BY <1>5, <1>6, <1>9

\* Between the newlines of a line without one there is none, and what there is is the line.
LEMMA WholeLineStands ==
    ASSUME NEW text, NEW lines, NEW N \in Nat, AllLines(text, lines, N),
           NEW i \in 1..N, lines[i] \in Seq(Symbol)
    PROVE  /\ \A c \in Nat : End(lines, i - 1) < c /\ c < End(lines, i) => text[c] # "newline"
           /\ SubSeq(text, End(lines, i - 1) + 1, End(lines, i) - 1) = lines[i]
<1>1. PICK b, e, t : /\ b = End(lines, i - 1) /\ e = End(lines, i) /\ t = lines[i]
                     /\ t \in Seq(Symbol)
  OBVIOUS
<1>2. /\ b \in Nat /\ e = b + Len(t) + 1 /\ e <= Len(text)
      /\ \A j \in 1..Len(t) : text[b + j] = t[j]
      /\ Len(t) \in Nat /\ text \in Seq(Character) /\ Len(text) \in Nat
  BY <1>1, LenProperties DEF AllLines, Stands
<1>3. ASSUME NEW c \in Nat, b < c, c < e
      PROVE  text[c] # "newline"
  <2>1. c - b \in 1..Len(t) /\ b + (c - b) = c
    BY <1>2, <1>3
  <2>2. text[c] = t[c - b]
    BY <1>2, <2>1
  <2>3. t[c - b] \in Symbol
    BY <1>1, <2>1, ElementOfSeq
  <2> QED
    BY <2>2, <2>3 DEF Symbol
<1>4. PICK u : u = SubSeq(text, b + 1, e - 1)
  OBVIOUS
<1>5. /\ u \in Seq(Character) /\ Len(u) = Len(t)
      /\ \A j \in 1..Len(t) : u[j] = text[b + 1 + j - 1]
  BY <1>2, <1>4, SubSeqProperties
<1>6. \A j \in 1..Len(u) : u[j] = t[j]
  <2>1. \A j \in 1..Len(t) : b + 1 + j - 1 = b + j
    BY <1>2
  <2> QED
    BY <1>2, <1>5, <2>1
<1>7. t \in Seq(Character)
  <2>1. \A j \in 1..Len(t) : t[j] \in Character
    BY <1>1, ElementOfSeq, SymbolFacts
  <2> QED
    BY <1>1, <2>1, IsASeq
<1>8. u = t
  BY <1>5, <1>6, <1>7, SeqEqual
<1> QED
  BY <1>1, <1>3, <1>4, <1>8

\* Every line begins behind a break: the first at the start of the text, the others behind the
\* newline of the line before; and its own newline is one.
LEMMA LineBreaks ==
    ASSUME NEW text, NEW lines, NEW N \in Nat, AllLines(text, lines, N), End(lines, 0) = 0,
           NEW i \in 1..N
    PROVE  End(lines, i - 1) \in Breaks(text) /\ End(lines, i) \in Breaks(text)
<1>1. Len(text) \in Nat
  BY LenProperties DEF AllLines
<1>2. ASSUME NEW h \in 1..N
      PROVE  End(lines, h) \in Breaks(text)
  <2>1. Stands(text, lines, h)
    BY DEF AllLines
  <2>2. PICK b, e, s : b = End(lines, h - 1) /\ e = End(lines, h) /\ s = Len(lines[h])
    OBVIOUS
  <2>3. b \in Nat /\ s \in Nat /\ e = b + s + 1 /\ e <= Len(text) /\ text[e] = "newline"
    BY <2>1, <2>2 DEF Stands
  <2>4. e \in 1..Len(text)
    BY <1>1, <2>3
  <2> QED
    BY <2>2, <2>3, <2>4 DEF Breaks
<1>3. End(lines, i - 1) \in Breaks(text)
  <2>1. CASE i = 1
    <3>1. i - 1 = 0
      BY <2>1
    <3> QED
      BY <3>1 DEF Breaks
  <2>2. CASE i # 1
    <3>1. i - 1 \in 1..N
      BY <2>2
    <3> QED
      BY <1>2, <3>1
  <2> QED
    BY <2>1, <2>2
<1> QED
  BY <1>2, <1>3

\* A line without a newline, and with something in it, is one of those that parseCsv takes, ...
LEMMA LineFound ==
    ASSUME NEW text, NEW lines, NEW N \in Nat, AllLines(text, lines, N), End(lines, 0) = 0,
           NEW i \in 1..N, lines[i] \in Seq(Symbol), NEW k \in 1..Len(lines[i]),
           lines[i][k] # "space"
    PROVE  \E line \in FilledLines(text) : LineText(text, line) = lines[i]
<1>1. PICK b, e, t : b = End(lines, i - 1) /\ e = End(lines, i) /\ t = lines[i]
  OBVIOUS
<1>2. /\ b \in Nat /\ e = b + Len(t) + 1 /\ e <= Len(text)
      /\ \A j \in 1..Len(t) : text[b + j] = t[j]
      /\ Len(t) \in Nat /\ Len(text) \in Nat
  BY <1>1, LenProperties DEF AllLines, Stands
<1>3. b \in Breaks(text) /\ e \in Breaks(text)
  BY <1>1, LineBreaks
<1>4. ASSUME NEW c \in Breaks(text), b < c, c < e
      PROVE  FALSE
  <2>1. c \in Nat /\ text[c] = "newline"
    BY <1>2, <1>4 DEF Breaks
  <2> QED
    BY <1>1, <1>4, <2>1, WholeLineStands
<1>5. b + k \in b + 1 .. e - 1 /\ text[b + k] # "space"
  <2>1. k \in 1..Len(t) /\ t[k] # "space"
    BY <1>1
  <2> QED
    BY <1>2, <2>1
<1>6. PICK line : line = <<b, e>> /\ line[1] = b /\ line[2] = e
  <2>1. <<b, e>>[1] = b /\ <<b, e>>[2] = e
    OBVIOUS
  <2> QED
    BY <2>1
<1>7. line \in FilledLines(text)
  BY <1>3, <1>4, <1>5, <1>6 DEF FilledLines
<1>8. LineText(text, line) = t
  BY <1>1, <1>6, WholeLineStands DEF LineText
<1> QED
  BY <1>1, <1>7, <1>8

\* ... and when all are without, parseCsv takes no other.
LEMMA FilledIsLine ==
    ASSUME NEW text, NEW lines, NEW N \in Nat, AllLines(text, lines, N), End(lines, 0) = 0,
           \A i \in 1..N : lines[i] \in Seq(Symbol), NEW line \in FilledLines(text)
    PROVE  \E i \in 1..N : LineText(text, line) = lines[i]
<1>1. PICK a, z : /\ a = line[1] /\ z = line[2] /\ a \in Breaks(text) /\ z \in Breaks(text)
                  /\ ~ \E c \in Breaks(text) : a < c /\ c < z
                  /\ \E y \in a + 1 .. z - 1 : text[y] # "space"
  BY DEF FilledLines
<1>2. Len(text) \in Nat
  BY LenProperties DEF AllLines
<1>3. /\ a \in 0..Len(text) + 1 /\ z \in 0..Len(text) + 1
      /\ a \in 1..Len(text) => text[a] = "newline"
      /\ z \in 1..Len(text) => text[z] = "newline"
  BY <1>1, <1>2 DEF Breaks
<1>4. a + 1 < z /\ a + 1 \in 1..Len(text)
  BY <1>1, <1>2, <1>3
<1>5. PICK i \in 1..N : End(lines, i - 1) < a + 1 /\ a + 1 <= End(lines, i)
  BY <1>4 DEF AllLines
<1>6. PICK b, e : /\ b = End(lines, i - 1) /\ e = End(lines, i)
                  /\ b \in Nat /\ e \in Nat /\ e <= Len(text)
                  /\ \A c \in Nat : b < c /\ c < e => text[c] # "newline"
                  /\ SubSeq(text, b + 1, e - 1) = lines[i]
                  /\ b < a + 1 /\ a + 1 <= e
  <2>1. Stands(text, lines, i)
    BY DEF AllLines
  <2>2. /\ End(lines, i - 1) \in Nat /\ End(lines, i) \in Nat /\ End(lines, i) <= Len(text)
    BY <2>1 DEF Stands
  <2> QED
    BY <1>5, <2>2, WholeLineStands
<1>7. b \in Breaks(text) /\ e \in Breaks(text)
  BY <1>6, LineBreaks
<1>8. a = b
  <2>1. CASE b < a
    BY <1>3, <1>4, <1>6, <2>1
  <2> QED
    BY <1>3, <1>6, <2>1
<1>9. z = e
  <2>1. ~ (e < z)
    <3>1. a < e
      BY <1>3, <1>6
    <3> QED
      BY <1>1, <1>7, <3>1
  <2>2. CASE z < e
    <3>1. z \in 1..Len(text) /\ b < z
      BY <1>2, <1>3, <1>4, <1>6, <2>2
    <3>2. text[z] = "newline" /\ z \in Nat
      BY <1>3, <3>1
    <3> QED
      BY <1>6, <2>2, <3>1, <3>2
  <2> QED
    BY <1>3, <1>6, <2>1, <2>2
<1> QED
  BY <1>1, <1>6, <1>8, <1>9 DEF LineText

\* Of what symbols the line of a row is: that it is torn is the department's doing.
LEMMA LineIsOver ==
    ASSUME NEW S, Symbol \subseteq S, NEW row, NEW style, row.department \in Seq(S),
           row.phone \in Phone \cup {None}, row.role \in Roles \cup {None}
    PROVE  Line(row, style) \in Seq(S)
<1>1. "quote" \in S /\ "space" \in S /\ "comma" \in S
  BY SymbolFacts
<1>2. PICK a \in Seq(S), b \in Seq(S) :
           a = PhoneText(row.phone, style) /\ b = RoleText(row.role, style)
  <2>1. PICK a \in Seq(Symbol), b \in Seq(Symbol) :
             a = PhoneText(row.phone, style) /\ b = RoleText(row.role, style)
    BY PhoneTextMeant, RoleTextMeant
  <2>2. /\ \A i \in 1..Len(a) : a[i] \in S
        /\ \A i \in 1..Len(b) : b[i] \in S
    BY ElementOfSeq
  <2>3. a \in Seq(S) /\ b \in Seq(S)
    BY <2>2, IsASeq
  <2> QED
    BY <2>1, <2>3
<1>3. PICK A \in Seq(S), B \in Seq(S), D \in Seq(S) :
           A = Cell(a, style) /\ B = Cell(b, style) /\ D = Cell(row.department, style)
  BY <1>1, CellIsOver
<1>4. PICK c \in Seq(S) : c = <<"comma">>
  <2>1. <<"comma">> \in Seq(S)
    BY <1>1
  <2> QED
    BY <2>1
<1>5. PICK last \in Seq(S) : last = IF row.department = <<>> THEN <<>> ELSE c \o D
  <2>1. c \o D \in Seq(S) /\ <<>> \in Seq(S)
    BY ConcatProperties
  <2> QED
    BY <2>1
<1>6. Line(row, style) = A \o c \o B \o last
  BY <1>2, <1>3, <1>4, <1>5 DEF Line
<1>7. PICK x \in Seq(S) : x = A \o c
  BY ConcatProperties
<1>8. PICK y \in Seq(S) : y = x \o B
  BY ConcatProperties
<1>9. y \o last \in Seq(S)
  BY ConcatProperties
<1> QED
  BY <1>6, <1>7, <1>8, <1>9

\* It is not blank: there is a comma in it.
LEMMA LineIsFilled ==
    ASSUME NEW row, NEW style, row.department \in Seq(Character),
           row.phone \in Phone \cup {None}, row.role \in Roles \cup {None}
    PROVE  \E k \in 1..Len(Line(row, style)) : Line(row, style)[k] # "space"
<1>1. PICK A \in Seq(Character), B \in Seq(Character), D \in Seq(Character) :
           /\ A = Cell(PhoneText(row.phone, style), style)
           /\ B = Cell(RoleText(row.role, style), style)
           /\ D = Cell(row.department, style)
  <2>1. PICK a \in Seq(Symbol), b \in Seq(Symbol) :
             a = PhoneText(row.phone, style) /\ b = RoleText(row.role, style)
    BY PhoneTextMeant, RoleTextMeant
  <2>2. /\ \A i \in 1..Len(a) : a[i] \in Character
        /\ \A i \in 1..Len(b) : b[i] \in Character
    BY ElementOfSeq, SymbolFacts
  <2>3. a \in Seq(Character) /\ b \in Seq(Character)
    BY <2>2, IsASeq
  <2>4. "quote" \in Character /\ "space" \in Character
    BY SymbolFacts
  <2> QED
    BY <2>1, <2>3, <2>4, CellIsOver
<1>2. PICK c \in Seq(Character) : c = <<"comma">> /\ Len(c) = 1 /\ c[1] = "comma"
  <2>1. <<"comma">> \in Seq(Character)
    BY SymbolFacts
  <2>2. Len(<<"comma">>) = 1 /\ <<"comma">>[1] = "comma"
    OBVIOUS
  <2> QED
    BY <2>1, <2>2
<1>3. PICK last \in Seq(Character) : last = IF row.department = <<>> THEN <<>> ELSE c \o D
  <2>1. c \o D \in Seq(Character) /\ <<>> \in Seq(Character)
    BY ConcatProperties
  <2> QED
    BY <2>1
<1>4. Line(row, style) = A \o c \o B \o last
  BY <1>1, <1>2, <1>3 DEF Line
<1>5. PICK x : x = A \o c /\ Joined(x, A, c)
  BY ConcatJoins
<1>6. PICK y : y = x \o B /\ Joined(y, x, B)
  <2>1. x \in Seq(Character)
    BY <1>5 DEF Joined
  <2> QED
    BY <2>1, ConcatJoins
<1>7. PICK z : z = y \o last /\ Joined(z, y, last)
  <2>1. y \in Seq(Character)
    BY <1>6 DEF Joined
  <2> QED
    BY <2>1, ConcatJoins
<1>8. z = Line(row, style)
  BY <1>4, <1>5, <1>6, <1>7
<1>9. Len(A) \in Nat /\ Len(B) \in Nat /\ Len(last) \in Nat
  BY LenProperties
<1>10. Len(x) = Len(A) + 1 /\ x[Len(A) + 1] = "comma"
  BY <1>2, <1>5, <1>9 DEF Joined
<1>11. Len(A) + 1 \in 1..Len(x) /\ Len(A) + 1 \in 1..Len(y) /\ Len(A) + 1 \in 1..Len(z)
  BY <1>6, <1>7, <1>9, <1>10 DEF Joined
<1>12. z[Len(A) + 1] = "comma"
  <2>1. y[Len(A) + 1] = "comma"
    BY <1>6, <1>10, <1>11 DEF Joined
  <2> QED
    BY <1>7, <1>11, <2>1 DEF Joined
<1>13. \E k \in 1..Len(z) : z[k] # "space"
  BY <1>11, <1>12
<1> QED
  BY <1>8, <1>13

\* The rows of the files.
LEMMA RowFacts ==
    ASSUME NEW row \in Rows
    PROVE  /\ row.phone \in Phone \cup {None} /\ row.role \in Roles \cup {None}
           /\ row.department \in Seq(Character)
           /\ ~ Torn(row) => row.department \in Seq(Symbol)
<1>1. PICK d : /\ d = row.department /\ d \in Seq(STRING)
               /\ row.phone \in Phone \cup {None} /\ row.role \in Roles \cup {None}
  BY OfficialsAssumption DEF Meant
<1>2. d \in Seq(Character)
  <2>1. \A i \in 1..Len(d) : d[i] \in Character
    BY <1>1, ElementOfSeq DEF Character
  <2> QED
    BY <1>1, <2>1, IsASeq
<1>3. ASSUME ~ Torn(row)
      PROVE  d \in Seq(Symbol)
  <2>1. \A i \in 1..Len(d) : d[i] \in Character /\ d[i] # "newline"
    BY <1>1, <1>2, <1>3, ElementOfSeq DEF Torn, Contains
  <2>2. \A i \in 1..Len(d) : d[i] \in Symbol
    BY <2>1 DEF Symbol
  <2> QED
    BY <1>2, <2>2, IsASeq
<1> QED
  BY <1>1, <1>2, <1>3

\* The text of a file, line by line: the heading, if there is one, then one line for each row.
LEMMA WrittenLines ==
    ASSUME NEW head \in Heads, NEW rows \in Seq(Rows), NEW style
    PROVE  \E k \in {0, 1} :
              LET lines == Written(head, rows, style)
              IN  /\ lines \in Seq(Seq(Character)) /\ Len(lines) = Len(rows) + k
                  /\ \A n \in 1..Len(rows) : lines[n + k] = Line(rows[n], style)
                  /\ k = 1 => lines[1] = Heading
<1> DEFINE L(n) == Line(rows[n], style)
           body == [n \in DOMAIN rows |-> L(n)]
           N == Len(rows)
           Y == Seq(Character)
<1>1. N \in Nat /\ DOMAIN rows = 1..N /\ \A n \in 1..N : rows[n] \in Rows
  BY LenProperties, ElementOfSeq
<1>2. \A n \in 1..N : L(n) \in Y
  BY <1>1, RowFacts, LineIsOver, SymbolFacts
<1>3. Heading \in Y
  <2>1. /\ "Phone" \in Character /\ "comma" \in Character /\ "Role" \in Character
        /\ "Department" \in Character
    BY DEF Character
  <2> QED
    BY <2>1 DEF Heading
<1>4. body \in Seq(Y) /\ Len(body) = N /\ \A n \in 1..N : body[n] = L(n)
  <2> HIDE DEF L, Y
  <2> QED
    BY <1>1, <1>2
<1>5. Written(head, rows, style) = head \o body
  BY DEF Written
<1> HIDE DEF L, body, Y
<1>6. \E lines, k : /\ lines = Written(head, rows, style) /\ k \in {0, 1}
                    /\ lines \in Seq(Y) /\ Len(lines) = N + k
                    /\ \A n \in 1..N : lines[n + k] = L(n)
                    /\ k = 1 => lines[1] = Heading
  <2>1. CASE head = <<>>
    <3>1. Written(head, rows, style) = <<>> \o body
      BY <1>5, <2>1
    <3>2. Written(head, rows, style) = body
      BY <1>4, <3>1, ConcatEmptySeq
    <3>3. PICK k : k = 0
      OBVIOUS
    <3>4. N + k = N /\ \A n \in 1..N : n + k = n
      BY <1>1, <3>3
    <3>5. Len(body) = N + k /\ \A n \in 1..N : body[n + k] = L(n)
      BY <1>4, <3>4
    <3>6. /\ body = Written(head, rows, style) /\ k \in {0, 1}
          /\ body \in Seq(Y) /\ Len(body) = N + k /\ \A n \in 1..N : body[n + k] = L(n)
          /\ k = 1 => body[1] = Heading
      BY <1>4, <3>2, <3>3, <3>5
    <3> QED
      BY <3>6
  <2>2. CASE head = <<Heading>>
    <3>1. PICK first \in Seq(Y) : first = <<Heading>> /\ Len(first) = 1 /\ first[1] = Heading
      <4>1. PICK h \in Y : h = Heading
        BY <1>3
      <4>2. <<h>> \in Seq(Y)
        OBVIOUS
      <4> QED
        BY <4>1, <4>2
    <3>2. Written(head, rows, style) = first \o body
      BY <1>5, <2>2, <3>1
    <3>3. PICK lines \in Seq(Y) : lines = first \o body
      BY <1>4, ConcatProperties
    <3>4. /\ Len(lines) = 1 + N
          /\ \A i \in 1..(1 + N) : lines[i] = IF i <= 1 THEN first[i] ELSE body[i - 1]
      BY <1>4, <3>1, <3>3, ConcatProperties
    <3>5. Len(lines) = N + 1 /\ lines[1] = Heading
      BY <1>1, <3>1, <3>4
    <3>6. ASSUME NEW n \in 1..N
          PROVE  lines[n + 1] = L(n)
      <4>1. n + 1 \in 1..(1 + N) /\ ~ (n + 1 <= 1) /\ (n + 1) - 1 = n
        BY <1>1
      <4> QED
        BY <1>4, <3>4, <4>1
    <3> QED
      BY <3>2, <3>3, <3>5, <3>6
  <2> QED
    BY <2>1, <2>2 DEF Heads
<1> QED
  BY <1>6 DEF L, Y

\* What parseCsv makes of the text of a file, for any rows with any departments, the texts quoted
\* or not, the phones and roles in any of their forms, with a heading or without: it finds every
\* official that a valid row without a line break means, whatever the other rows are; and when no
\* row has a line break it finds no other.
THEOREM ParsedAsMeant ==
    ASSUME NEW head \in Heads, NEW rows \in Seq(Rows), NEW style
    PROVE  LET taken == ParseCsv(Content(Written(head, rows, style)))
           IN  /\ OfficialsMeant(Range(rows) \ TornRows(rows)) \subseteq taken
               /\ TornRows(rows) = {} => taken = OfficialsMeant(Range(rows))
<1>1. PICK lines, k : /\ lines = Written(head, rows, style) /\ k \in {0, 1}
                      /\ lines \in Seq(Seq(Character)) /\ Len(lines) = Len(rows) + k
                      /\ \A n \in 1..Len(rows) : lines[n + k] = Line(rows[n], style)
                      /\ k = 1 => lines[1] = Heading
  BY WrittenLines
<1>2. PICK text, N, R : text = Content(lines) /\ N = Len(lines) /\ R = Len(rows)
  OBVIOUS
<1>3. /\ R \in Nat /\ N \in Nat /\ N = R + k /\ \A n \in 1..R : rows[n] \in Rows
      /\ Range(rows) = {rows[n] : n \in 1..R}
  BY <1>1, <1>2, LenProperties, ElementOfSeq DEF Range
<1>4. AllLines(text, lines, N) /\ End(lines, 0) = 0
  BY <1>1, <1>2, ContentIsLines
<1>5. \A o : o \in ParseCsv(text) =>
                \E line \in FilledLines(text) : o \in OfficialsOf(LineText(text, line))
  BY DEF ParseCsv
<1>6. \A o : \A line \in FilledLines(text) :
         /\ o \in OfficialsOf(LineText(text, line))
         /\ ~ Contains(ParseCsvLine(LineText(text, line))[1], "Phone")
         => o \in ParseCsv(text)
  BY DEF ParseCsv
<1>7. \A row \in Range(rows) : row \in TornRows(rows) <=> Torn(row)
  BY DEF TornRows
<1>8. ASSUME NEW n \in 1..R
      PROVE  /\ n + k \in 1..N /\ lines[n + k] = Line(rows[n], style)
             /\ \E j \in 1..Len(lines[n + k]) : lines[n + k][j] # "space"
             /\ ~ Torn(rows[n]) => lines[n + k] \in Seq(Symbol)
  <2>1. n + k \in 1..N
    BY <1>1, <1>3
  <2>2. PICK row \in Rows : row = rows[n]
    BY <1>3
  <2>3. lines[n + k] = Line(row, style)
    BY <1>1, <1>2, <2>2
  <2>4. \E j \in 1..Len(Line(row, style)) : Line(row, style)[j] # "space"
    BY RowFacts, LineIsFilled
  <2>5. ~ Torn(row) => Line(row, style) \in Seq(Symbol)
    BY RowFacts, LineIsOver
  <2> QED
    BY <2>1, <2>2, <2>3, <2>4, <2>5
<1>9. ASSUME NEW o \in OfficialsMeant(Range(rows) \ TornRows(rows))
      PROVE  o \in ParseCsv(text)
  <2>1. PICK n \in 1..R : ~ Torn(rows[n]) /\ Valid(rows[n]) /\ o = OfficialMeant(rows[n])
    BY <1>3, <1>7 DEF OfficialsMeant
  <2>2. PICK row, i : /\ row = rows[n] /\ row \in Rows /\ i = n + k /\ i \in 1..N
                      /\ lines[i] = Line(row, style) /\ lines[i] \in Seq(Symbol)
    BY <1>3, <1>8, <2>1
  <2>3. PICK j \in 1..Len(lines[i]) : lines[i][j] # "space"
    BY <1>8, <2>2
  <2>4. PICK line \in FilledLines(text) : LineText(text, line) = Line(row, style)
    BY <1>3, <1>4, <2>2, <2>3, LineFound
  <2>5. /\ o \in OfficialsOf(Line(row, style))
        /\ ~ Contains(ParseCsvLine(Line(row, style))[1], "Phone")
    BY <2>1, <2>2, OfficialOfLine
  <2> QED
    BY <1>6, <2>4, <2>5
<1>10. ASSUME TornRows(rows) = {}, NEW o \in ParseCsv(text)
       PROVE  o \in OfficialsMeant(Range(rows))
  <2>1. \A n \in 1..R : ~ Torn(rows[n])
    BY <1>3, <1>7, <1>10
  <2>2. ASSUME NEW i \in 1..N
        PROVE  lines[i] = Heading \/ \E n \in 1..R : i = n + k
    <3>1. CASE i > k
      <4>1. i - k \in 1..R /\ i = (i - k) + k
        BY <1>1, <1>3, <3>1
      <4> QED
        BY <4>1
    <3>2. CASE ~ (i > k)
      <4>1. k = 1 /\ i = 1
        BY <1>1, <3>2
      <4> QED
        BY <1>1, <4>1
    <3> QED
      BY <3>1, <3>2
  <2>3. \A i \in 1..N : lines[i] \in Seq(Symbol)
    <3>1. Heading \in Seq(Symbol)
      <4>1. /\ "Phone" \in Symbol /\ "comma" \in Symbol /\ "Role" \in Symbol
            /\ "Department" \in Symbol
        BY DEF Symbol, Character
      <4> QED
        BY <4>1 DEF Heading
    <3> QED
      BY <1>8, <2>1, <2>2, <3>1
  <2>4. PICK line \in FilledLines(text) : o \in OfficialsOf(LineText(text, line))
    BY <1>5, <1>10
  <2>5. PICK i \in 1..N : LineText(text, line) = lines[i]
    BY <1>3, <1>4, <2>3, FilledIsLine
  <2>6. lines[i] # Heading
    BY <2>4, <2>5, HeadingIsNoOfficial
  <2>7. PICK n \in 1..R : i = n + k
    BY <2>2, <2>6
  <2>8. PICK row \in Rows : row = rows[n] /\ row \in Range(rows)
    BY <1>3
  <2>9. o \in OfficialsOf(Line(row, style)) /\ ~ Torn(row)
    BY <1>8, <2>1, <2>4, <2>5, <2>7, <2>8
  <2>10. o = OfficialMeant(row) /\ Valid(row)
    BY <2>9, OfficialOfLine
  <2> QED
    BY <2>8, <2>10 DEF OfficialsMeant
<1>11. TornRows(rows) = {} => ParseCsv(text) = OfficialsMeant(Range(rows))
  <2> SUFFICES ASSUME TornRows(rows) = {}
               PROVE  ParseCsv(text) = OfficialsMeant(Range(rows))
    OBVIOUS
  <2>1. Range(rows) \ TornRows(rows) = Range(rows)
    OBVIOUS
  <2> QED
    BY <1>9, <1>10, <2>1
<1> QED
  BY <1>1, <1>2, <1>9, <1>11

-----------------------------------------------------------------------------
(* The registry *)

\* The variables are tables of records.
TypeOK ==
    /\ registry = [p \in Phone |-> registry[p]]
    /\ user = [p \in Phone |-> user[p]]
    /\ import = [i \in Import |-> import[i]]
    /\ \A p \in Phone : user[p] = [pc |-> user[p].pc, role |-> user[p].role]
    /\ \A i \in Import : import[i] = [operations |-> import[i].operations,
                                      left |-> import[i].left, meant |-> import[i].meant,
                                      torn |-> import[i].torn]

\* What is still to be written was meant by a file, as long as no row was torn.
LeftWasMeant ==
    torn = {} =>
       \A i \in Import : \A o \in import[i].left : o.phone \in Phone /\ o \in granted[o.phone]

\* The invariant that every step keeps.
IInv == TypeOK /\ LeftWasMeant /\ ImportedAsMeant

LEMMA InitIInv == Init => IInv
<1> SUFFICES ASSUME Init
             PROVE  IInv
  OBVIOUS
<1>1. TypeOK
  BY DEF Init, TypeOK, NoImport
<1>2. LeftWasMeant
  BY DEF Init, LeftWasMeant, NoImport
<1>3. ImportedAsMeant
  BY DEF Init, ImportedAsMeant, NoImport
<1> QED
  BY <1>1, <1>2, <1>3 DEF IInv

\* importOfficialsFromCsv: the operations of bulkWrite are the officials meant.
LEMMA ImportOfficialsIInv ==
    ASSUME IInv, NEW i \in Import, NEW file \in Files, ImportOfficials(i, file)
    PROVE  IInv'
<1>1. PICK head, rows, style : /\ head = file[1] /\ rows = file[2] /\ style = file[3]
                               /\ head \in Heads /\ rows \in Seq(Rows)
                               /\ \A r \in Range(rows) : r \in Rows
  <2>1. PICK head, rows, style : /\ head = file[1] /\ rows = file[2] /\ style = file[3]
                                 /\ head \in Heads
                                 /\ rows \in UNION {[1..n -> Rows] : n \in 1..MaxRows}
    <3> DEFINE U == UNION {[1..n -> Rows] : n \in 1..MaxRows}
    <3>1. file \in Heads \X U \X Style
      BY DEF Files
    <3> HIDE DEF U
    <3>2. file[1] \in Heads /\ file[2] \in U
      BY <3>1
    <3> QED
      BY <3>2 DEF U
  <2>2. PICK n \in 1..MaxRows : rows \in [1..n -> Rows]
    BY <2>1
  <2>3. rows \in Seq(Rows) /\ \A r \in Range(rows) : r \in Rows
    BY <2>2, OfficialsAssumption DEF Range
  <2> QED
    BY <2>1, <2>3
<1>2. PICK found, meant, broken :
           /\ found = ParseCsv(Content(Written(head, rows, style)))
           /\ meant = OfficialsMeant(Range(rows) \ TornRows(rows))
           /\ broken = TornRows(rows)
  OBVIOUS
<1>3. meant \subseteq found /\ (broken = {} => found = meant)
  <2>1. broken = {} => Range(rows) \ TornRows(rows) = Range(rows)
    BY <1>2
  <2> QED
    BY <1>1, <1>2, <2>1, ParsedAsMeant
<1>4. \A o \in meant : o.phone \in Phone
  <2> SUFFICES ASSUME NEW o \in meant
               PROVE  o.phone \in Phone
    OBVIOUS
  <2>1. PICK row \in Rows : o = OfficialMeant(row) /\ Valid(row)
    BY <1>1, <1>2 DEF OfficialsMeant
  <2>2. PICK phone, role, d : row = [phone |-> phone, role |-> role, department |-> d]
                              /\ phone \in Phone \cup {None}
    BY OfficialsAssumption DEF Meant
  <2> QED
    BY <2>1, <2>2 DEF OfficialMeant, Valid
<1>5. /\ import' = [import EXCEPT ![i] = [operations |-> found, left |-> found,
                                          meant |-> meant, torn |-> broken]]
      /\ granted' = [p \in Phone |-> granted[p] \cup {o \in meant : o.phone = p}]
      /\ torn' = torn \cup broken
      /\ registry' = registry /\ user' = user
  <2>1. Taken[file] = found
    BY <1>1, <1>2 DEF Taken
  <2> QED
    BY <1>1, <1>2, <2>1 DEF ImportOfficials
<1>6. /\ import'[i] = [operations |-> found, left |-> found, meant |-> meant, torn |-> broken]
      /\ \A j \in Import : j # i => import'[j] = import[j]
  BY <1>5 DEF IInv, TypeOK
<1>7. torn' = {} => torn = {} /\ found = meant
  BY <1>3, <1>5
<1>8. \A p \in Phone : granted[p] \subseteq granted'[p]
  BY <1>5
<1>9. TypeOK'
  <2>1. \A j \in Import : import'[j] = [operations |-> import'[j].operations,
                                        left |-> import'[j].left, meant |-> import'[j].meant,
                                        torn |-> import'[j].torn]
    <3> SUFFICES ASSUME NEW j \in Import
                 PROVE  import'[j] = [operations |-> import'[j].operations,
                                      left |-> import'[j].left, meant |-> import'[j].meant,
                                      torn |-> import'[j].torn]
      OBVIOUS
    <3>1. CASE j = i
      BY <1>6, <3>1
    <3>2. CASE j # i
      BY <1>6, <3>2 DEF IInv, TypeOK
    <3> QED
      BY <3>1, <3>2
  <2>2. import' = [j \in Import |-> import'[j]]
    BY <1>5 DEF IInv, TypeOK
  <2> QED
    BY <1>5, <2>1, <2>2 DEF IInv, TypeOK
<1>10. LeftWasMeant'
  <2> SUFFICES ASSUME torn' = {}, NEW j \in Import, NEW o \in import'[j].left
               PROVE  o.phone \in Phone /\ o \in granted'[o.phone]
    BY DEF LeftWasMeant
  <2>1. CASE j = i
    <3>1. o \in meant
      BY <1>6, <1>7, <2>1
    <3> QED
      BY <1>4, <1>5, <3>1
  <2>2. CASE j # i
    <3>1. o \in import[j].left
      BY <1>6, <2>2
    <3>2. o.phone \in Phone /\ o \in granted[o.phone]
      BY <1>7, <3>1 DEF IInv, LeftWasMeant
    <3> QED
      BY <1>8, <3>2
  <2> QED
    BY <2>1, <2>2
<1>11. ImportedAsMeant'
  <2>1. ASSUME NEW j \in Import
        PROVE  /\ import'[j].meant \subseteq import'[j].operations
               /\ import'[j].torn = {} => import'[j].operations = import'[j].meant
    <3>1. CASE j = i
      BY <1>3, <1>6, <3>1
    <3>2. CASE j # i
      BY <1>6, <3>2 DEF IInv, ImportedAsMeant
    <3> QED
      BY <3>1, <3>2
  <2>2. ASSUME torn' = {}, NEW p \in Phone, registry'[p] # None
        PROVE  /\ \E o \in granted'[p] : registry'[p].role = o.role
               /\ \E o \in granted'[p] : registry'[p].department = o.department
    BY <1>5, <1>7, <1>8, <2>2 DEF IInv, ImportedAsMeant
  <2>3. ASSUME torn' = {}, NEW p \in Phone
        PROVE  user'[p].role \in {None, "citizen"} \cup {o.role : o \in granted'[p]}
    BY <1>5, <1>7, <1>8, <2>3 DEF IInv, ImportedAsMeant
  <2> QED
    BY <2>1, <2>2, <2>3 DEF ImportedAsMeant
<1> QED
  BY <1>9, <1>10, <1>11 DEF IInv

\* One operation of bulkWrite: the role is that of the official, and the department is
\* his, or none, or the one an official of the same phone brought before.
LEMMA UpsertIInv ==
    ASSUME IInv, NEW i \in Import, NEW o \in import[i].left, Upsert(i, o)
    PROVE  IInv'
<1>1. torn = {} => o.phone \in Phone /\ o \in granted[o.phone]
  BY DEF IInv, LeftWasMeant
<1>2. PICK q, d : /\ q = o.phone
                  /\ d = CASE o.department # <<>> -> o.department
                           [] o.department = <<>> /\ registry[q] = None -> <<>>
                           [] OTHER -> registry[q].department
  OBVIOUS
<1>3. /\ registry' = [registry EXCEPT ![q] = [role |-> o.role, department |-> d]]
      /\ import' = [import EXCEPT ![i].left = @ \ {o}]
      /\ user' = user /\ granted' = granted /\ torn' = torn
  BY <1>2 DEF Upsert, ghosts
<1>4. torn = {} => \E x \in granted[q] : d = x.department
  <2> SUFFICES ASSUME torn = {}
               PROVE  \E x \in granted[q] : d = x.department
    OBVIOUS
  <2>1. CASE o.department # <<>>
    BY <1>1, <1>2, <2>1
  <2>2. CASE o.department = <<>> /\ registry[q] = None
    BY <1>1, <1>2, <2>2
  <2>3. CASE o.department = <<>> /\ registry[q] # None
    <3>1. d = registry[q].department
      BY <1>2, <2>3
    <3> QED
      BY <1>1, <1>2, <2>3, <3>1 DEF IInv, ImportedAsMeant
  <2> QED
    BY <2>1, <2>2, <2>3
<1>5. TypeOK'
  BY <1>3 DEF IInv, TypeOK
<1>6. \A j \in Import : /\ import'[j].left \subseteq import[j].left
                        /\ import'[j].operations = import[j].operations
                        /\ import'[j].meant = import[j].meant
                        /\ import'[j].torn = import[j].torn
  BY <1>3 DEF IInv, TypeOK
<1>7. LeftWasMeant'
  BY <1>3, <1>6 DEF IInv, LeftWasMeant
<1>8. ImportedAsMeant'
  <2>1. \A j \in Import : /\ import'[j].meant \subseteq import'[j].operations
                          /\ import'[j].torn = {} => import'[j].operations = import'[j].meant
    BY <1>6 DEF IInv, ImportedAsMeant
  <2>2. ASSUME torn = {}, NEW p \in Phone, registry'[p] # None
        PROVE  /\ \E x \in granted'[p] : registry'[p].role = x.role
               /\ \E x \in granted'[p] : registry'[p].department = x.department
    <3>1. CASE p = q
      <4>1. registry'[p].role = o.role /\ registry'[p].department = d
        BY <1>3, <3>1 DEF IInv, TypeOK
      <4> QED
        BY <1>1, <1>2, <1>3, <1>4, <2>2, <3>1, <4>1
    <3>2. CASE p # q
      <4>1. registry'[p] = registry[p]
        BY <1>3, <3>2 DEF IInv, TypeOK
      <4> QED
        BY <1>3, <2>2, <4>1 DEF IInv, ImportedAsMeant
    <3> QED
      BY <3>1, <3>2
  <2>3. torn = {} => \A p \in Phone :
           user'[p].role \in {None, "citizen"} \cup {x.role : x \in granted'[p]}
    BY <1>3 DEF IInv, ImportedAsMeant
  <2> QED
    BY <1>3, <2>1, <2>2, <2>3 DEF ImportedAsMeant
<1> QED
  BY <1>5, <1>7, <1>8 DEF IInv

\* The operations that are left are given up.
LEMMA ImportFailsIInv ==
    ASSUME IInv, NEW i \in Import, ImportFails(i)
    PROVE  IInv'
<1>1. /\ import' = [import EXCEPT ![i].left = {}]
      /\ registry' = registry /\ user' = user /\ granted' = granted /\ torn' = torn
  BY DEF ImportFails, ghosts
<1>2. TypeOK'
  BY <1>1 DEF IInv, TypeOK
<1>3. \A j \in Import : /\ import'[j].left \subseteq import[j].left
                        /\ import'[j].operations = import[j].operations
                        /\ import'[j].meant = import[j].meant
                        /\ import'[j].torn = import[j].torn
  BY <1>1 DEF IInv, TypeOK
<1>4. LeftWasMeant'
  BY <1>1, <1>3 DEF IInv, LeftWasMeant
<1>5. ImportedAsMeant'
  BY <1>1, <1>3 DEF IInv, ImportedAsMeant
<1> QED
  BY <1>2, <1>4, <1>5 DEF IInv

\* completeRegistration: the account has the role the registry said when it was asked.
LEMMA RegistrationIInv ==
    ASSUME IInv, NEW p \in Phone, GetOfficialByPhone(p) \/ CreateUser(p)
    PROVE  IInv'
<1>1. registry' = registry /\ import' = import /\ granted' = granted /\ torn' = torn
  BY DEF GetOfficialByPhone, CreateUser, ghosts
<1>2. PICK pc, role : /\ user' = [user EXCEPT ![p] = [pc |-> pc, role |-> role]]
                      /\ torn = {} =>
                            role \in {None, "citizen"} \cup {o.role : o \in granted[p]}
  <2>1. CASE GetOfficialByPhone(p)
    <3>1. PICK found : /\ user' = [user EXCEPT ![p] = [pc |-> "looked up", role |-> found]]
                       /\ found = IF registry[p] = None THEN "citizen" ELSE registry[p].role
      BY <2>1 DEF GetOfficialByPhone
    <3>2. torn = {} => found \in {None, "citizen"} \cup {o.role : o \in granted[p]}
      BY <3>1 DEF IInv, ImportedAsMeant
    <3> QED
      BY <3>1, <3>2
  <2>2. CASE CreateUser(p)
    <3>1. PICK old, kept : user[p] = [pc |-> old, role |-> kept] /\ kept = user[p].role
      BY DEF IInv, TypeOK
    <3>2. user' = [user EXCEPT ![p] = [pc |-> "created", role |-> kept]]
      <4>1. [user[p] EXCEPT !.pc = "created"] = [pc |-> "created", role |-> kept]
        BY <3>1
      <4>2. user' = [user EXCEPT ![p] = [user[p] EXCEPT !.pc = "created"]]
        BY <2>2 DEF CreateUser
      <4> QED
        BY <4>1, <4>2
    <3>3. torn = {} => kept \in {None, "citizen"} \cup {o.role : o \in granted[p]}
      BY <3>1 DEF IInv, ImportedAsMeant
    <3> QED
      BY <3>2, <3>3
  <2> QED
    BY <2>1, <2>2
<1>3. /\ user'[p] = [pc |-> pc, role |-> role]
      /\ \A q \in Phone : q # p => user'[q] = user[q]
  BY <1>2 DEF IInv, TypeOK
<1>4. TypeOK'
  <2>1. user' = [q \in Phone |-> user'[q]]
    BY <1>2 DEF IInv, TypeOK
  <2>2. \A q \in Phone : user'[q] = [pc |-> user'[q].pc, role |-> user'[q].role]
    BY <1>3 DEF IInv, TypeOK
  <2> QED
    BY <1>1, <2>1, <2>2 DEF IInv, TypeOK
<1>5. LeftWasMeant'
  BY <1>1 DEF IInv, LeftWasMeant
<1>6. ImportedAsMeant'
  <2>1. torn = {} => \A q \in Phone :
           user'[q].role \in {None, "citizen"} \cup {o.role : o \in granted[q]}
    BY <1>2, <1>3 DEF IInv, ImportedAsMeant
  <2> QED
    BY <1>1, <2>1 DEF IInv, ImportedAsMeant
<1> QED
  BY <1>4, <1>5, <1>6 DEF IInv

\* importOfficialsFromCsv takes from a file what each row without a line break means, and nothing
\* else if no row has one; and as long as no file has one, what the registry says of a phone, and
\* the role completeRegistration gives its account, was said by a row about that phone: whatever
\* imports run at the same time, fail half way or are followed by others.
THEOREM ImportedAsMeantHolds == Spec => []ImportedAsMeant
<1>1. IInv /\ [Next]_vars => IInv'
  <2> SUFFICES ASSUME IInv, [Next]_vars
               PROVE  IInv'
    OBVIOUS
  <2>1. ASSUME NEW i \in Import, NEW file \in Files, ImportOfficials(i, file)
        PROVE  IInv'
    BY <2>1, ImportOfficialsIInv
  <2>2. ASSUME NEW i \in Import, NEW o \in import[i].left, Upsert(i, o)
        PROVE  IInv'
    BY <2>2, UpsertIInv
  <2>3. ASSUME NEW i \in Import, ImportFails(i)
        PROVE  IInv'
    BY <2>3, ImportFailsIInv
  <2>4. ASSUME NEW p \in Phone, GetOfficialByPhone(p) \/ CreateUser(p)
        PROVE  IInv'
    BY <2>4, RegistrationIInv
  <2>5. CASE UNCHANGED vars
    BY <2>5 DEF vars, ghosts, IInv, TypeOK, LeftWasMeant, ImportedAsMeant
  <2> QED
    BY <2>1, <2>2, <2>3, <2>4, <2>5 DEF Next
<1>2. IInv => ImportedAsMeant
  BY DEF IInv
<1> QED
  BY InitIInv, <1>1, <1>2, PTL DEF Spec

=============================================================================

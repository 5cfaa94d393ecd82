---------------------------- MODULE SerialProofs ----------------------------
(***************************************************************************)
(* Theorems about what comes in over the serial line: lines for Cli and    *)
(* packets for GdbPacket.                                                  *)
(*                                                                         *)
(* Of Cli, for every alphabet, every text and every size of the line and   *)
(* the screen, and wherever a wait for the serial line or in fb_swap is    *)
(* aborted: the variables keep their types, and what is run is what is     *)
(* seen, on the terminal and on the screen, in every line that no message  *)
(* of an abort or of the demo has disturbed since its prompt.              *)
(*                                                                         *)
(* Of GdbPacket, for every buffer and every payload: the variables keep    *)
(* their types, however the line and the aborts treat a packet; and while  *)
(* they do it no harm, the stub runs each request once and nothing else.   *)
(* What one byte damaged or one wait aborted can do is for TLC.            *)
(*                                                                         *)
(* The checksum of a packet and the output of a command are both folds     *)
(* over a text.  The lemmas on folds, on the screen's types and on the bar *)
(* are those of DrawProofs: Draw and Cli have variables of one name and    *)
(* cannot be extended together.                                            *)
(***************************************************************************)
EXTENDS Cli, GdbPacket, FiniteSetTheorems, SequenceTheorems, WellFoundedInduction, TLAPS

(***************************************************************************)
(* What a character does to the screen                                     *)
(***************************************************************************)
Grids == [RowNos -> [ColNos -> Glyphs \cup {NUL}]]

\* What a scroll leaves is a grid with the cursor in its last row.
LEMMA ScrollType ==
  ASSUME NEW g \in Grids, NEW c \in ColNos
  PROVE  scr_scroll(g, c) \in Screens
<1>1. SCR_ROWS - 1 \in RowNos
  BY GridAssumption DEF RowNos
<1>2. BlankRow \in [ColNos -> Glyphs \cup {NUL}]
  BY GlyphAssumption DEF BlankRow
<1>3. \A i \in RowNos : i < SCR_ROWS - 1 => i + 1 \in RowNos
  BY GridAssumption DEF RowNos
<1> DEFINE h == [i \in RowNos |-> IF i < SCR_ROWS - 1 THEN g[i + 1]
                                                      ELSE BlankRow]
<1>4. h \in Grids
  BY <1>2, <1>3 DEF Grids
<1>5. scr_scroll(g, c) = At(h, SCR_ROWS - 1, c)
  BY DEF scr_scroll
<1> QED
  BY <1>1, <1>4, <1>5 DEF Screens, At, Grids

\* The next row is in the grid, or made by a scroll.
LEMMA NextRowType ==
  ASSUME NEW g \in Grids, NEW r \in RowNos
  PROVE  NextRow(g, r) \in Screens
<1>1. 0 \in ColNos
  BY GridAssumption DEF ColNos
<1>2. CASE r + 1 >= SCR_ROWS
  BY <1>1, <1>2, ScrollType DEF NextRow
<1>3. CASE ~(r + 1 >= SCR_ROWS)
  <2>1. r + 1 \in RowNos
    BY <1>3, GridAssumption DEF RowNos
  <2> QED
    BY <1>1, <1>3, <2>1 DEF NextRow, Screens, At, Grids
<1> QED
  BY <1>2, <1>3

\* A glyph, wrapped or not, leaves the cursor in the grid.
LEMMA PutGlyphType ==
  ASSUME NEW s \in Screens, NEW c \in Glyphs
  PROVE  PutGlyph(s, c) \in Screens
<1> DEFINE h == [s.grid EXCEPT ![s.row][s.col] = c]
<1>1. s.grid \in Grids /\ s.row \in RowNos /\ s.col \in ColNos
  BY DEF Screens, Grids
<1>2. h \in Grids
  BY <1>1 DEF Grids
<1>3. CASE s.col + 1 >= SCR_COLS
  BY <1>1, <1>2, <1>3, NextRowType DEF PutGlyph
<1>4. CASE ~(s.col + 1 >= SCR_COLS)
  <2>1. s.col + 1 \in ColNos
    BY <1>1, <1>4, GridAssumption DEF ColNos
  <2> QED
    BY <1>1, <1>2, <1>4, <2>1 DEF PutGlyph, Screens, At, Grids
<1> QED
  BY <1>3, <1>4

\* One character, whatever it is, leaves the cursor in the grid.
LEMMA WriteType ==
  ASSUME NEW s \in Screens, NEW c
  PROVE  scr_be_write(s, c) \in Screens
<1>1. s.grid \in Grids /\ s.row \in RowNos
  BY DEF Screens, Grids
<1> QED
  BY <1>1, NextRowType, PutGlyphType DEF scr_be_write

(***************************************************************************)
(* Folds over a text, which begin with its last character                  *)
(***************************************************************************)
\* A set of numbers has a least one.
LEMMA Least ==
  ASSUME NEW T \in SUBSET Nat, T # {}
  PROVE  \E n \in T : \A m \in T : n <= m
<1> DEFINE R == OpToRel(<, Nat)
<1>1. IsWellFoundedOn(R, Nat)
  BY NatLessThanWellFounded
<1>2. \A m, n \in Nat : <<m, n>> \in R <=> m < n
  BY DEF OpToRel
<1> HIDE DEF R
<1>3. \E n \in T : \A m \in T : ~(<<m, n>> \in R)
  BY <1>1, WFMin
<1>4. PICK n \in T : \A m \in T : ~(<<m, n>> \in R)
  BY <1>3
<1>5. ASSUME NEW m \in T PROVE n <= m
  <2>1. m \in Nat /\ n \in Nat /\ ~(m < n)
    BY <1>2, <1>4
  <2> QED BY <2>1
<1> QED BY <1>5

\* A set of positions has a last one.
LEMMA LastPlace ==
  ASSUME NEW n \in Nat, NEW s \in SUBSET (1..n), s # {}
  PROVE  Max(s) \in s /\ \A y \in s : y <= Max(s)
<1> DEFINE T == {n - x : x \in s}
<1>0. \A x \in s : x \in Nat /\ x <= n /\ n - x \in Nat
  <2> TAKE x \in s
  <2>1. x \in 1..n
    OBVIOUS
  <2> QED BY <2>1
<1>1. T \in SUBSET Nat /\ T # {}
  BY <1>0
<1>2. PICK l \in T : \A y \in T : l <= y
  <2> HIDE DEF T
  <2> QED BY <1>1, Least
<1>3. PICK x \in s : l = n - x
  BY <1>2
<1>4. \A y \in s : x >= y
  <2> TAKE y \in s
  <2>1. l <= n - y
    BY <1>2
  <2> QED BY <1>0, <1>3, <2>1
<1>5. Max(s) \in s /\ \A y \in s : Max(s) >= y
  BY <1>4, Zenon DEF Max
<1>6. \A y \in s : y \in Nat /\ Max(s) \in Nat
  BY <1>0, <1>5
<1> QED BY <1>5, <1>6

\* Without its last position a set is smaller.
LEMMA Shorter ==
  ASSUME NEW n \in Nat, NEW s \in SUBSET (1..n), s # {}
  PROVE  /\ s \ {Max(s)} \in SUBSET (1..n)
         /\ Cardinality(s) \in Nat /\ Cardinality(s \ {Max(s)}) \in Nat
         /\ Cardinality(s \ {Max(s)}) < Cardinality(s)
<1>0. IsFiniteSet(1..n)
  BY FS_Interval
<1>1. IsFiniteSet(s)
  BY <1>0, FS_Subset
<1>2. Cardinality(s) \in Nat /\ Cardinality(s \ {Max(s)}) = Cardinality(s) - 1
      /\ Cardinality(s \ {Max(s)}) \in Nat
  <2>1. PICK x \in s : x = Max(s)
    BY LastPlace
  <2>2. IsFiniteSet(s \ {x}) /\ Cardinality(s \ {x}) = Cardinality(s) - 1
    BY <1>1, FS_RemoveElement
  <2> QED BY <1>1, <2>1, <2>2, FS_CardinalityType
<1>3. s \ {Max(s)} \in SUBSET (1..n)
  OBVIOUS
<1> QED BY <1>2, <1>3

\* What holds of the empty set of positions, and of a set if it holds without
\* the last position, holds of all.
LEMMA Unfold ==
  ASSUME NEW n \in Nat, NEW G \in SUBSET (SUBSET (1..n)), {} \in G,
         \A s \in SUBSET (1..n) : s # {} /\ s \ {Max(s)} \in G => s \in G
  PROVE  G = SUBSET (1..n)
<1> DEFINE Bad == (SUBSET (1..n)) \ G
           N == {Cardinality(s) : s \in Bad}
<1>1. \A s \in SUBSET (1..n) : Cardinality(s) \in Nat
  <2> TAKE s \in SUBSET (1..n)
  <2>1. IsFiniteSet(1..n)
    BY FS_Interval
  <2>2. IsFiniteSet(s)
    BY <2>1, FS_Subset
  <2> QED BY <2>2, FS_CardinalityType
<1>2. SUFFICES ASSUME Bad # {} PROVE FALSE
  OBVIOUS
<1>3. PICK s \in Bad : \A r \in Bad : Cardinality(s) <= Cardinality(r)
  <2>1. N \in SUBSET Nat /\ N # {}
    BY <1>1, <1>2
  <2> HIDE DEF Bad
  <2>2. PICK k \in N : \A m \in N : k <= m
    <3> HIDE DEF N
    <3> QED BY <2>1, Least
  <2> QED BY <2>2
<1>4. s \in SUBSET (1..n) /\ s # {} /\ s \ {Max(s)} \notin G
  OBVIOUS
<1>5. s \ {Max(s)} \in Bad
  BY <1>4
<1> HIDE DEF Bad
<1> QED BY <1>3, <1>4, <1>5, Shorter

\* The partial results of a fold by F from b over w
IsFold(it, F, b, w, n) ==
  it = [s \in SUBSET (1..n) |-> IF s = {} THEN b ELSE F[it[s \ {Max(s)}]][w[Max(s)]]]

\* A fold of a function has partial results.
LEMMA FoldExists ==
  ASSUME NEW n \in Nat, NEW S, NEW C, NEW F \in [S -> [C -> S]], NEW b \in S,
         NEW w \in [1..n -> C]
  PROVE  \E it \in [SUBSET (1..n) -> S] : IsFold(it, F, b, w, n)
<1> DEFINE Folds_(it, r) ==
             \A q \in SUBSET r : it[q] = IF q = {} THEN b ELSE F[it[q \ {Max(q)}]][w[Max(q)]]
           G == {r \in SUBSET (1..n) : \E it \in [SUBSET r -> S] : Folds_(it, r)}
<1>1. {} \in G
  <2>1. Folds_([q \in SUBSET {} |-> b], {}) /\ [q \in SUBSET {} |-> b] \in [SUBSET {} -> S]
    OBVIOUS
  <2> QED BY <2>1
<1>2. ASSUME NEW r \in SUBSET (1..n), r # {}, r \ {Max(r)} \in G PROVE r \in G
  <2> DEFINE x == Max(r)
             p == r \ {x}
  <2>1. PICK it \in [SUBSET p -> S] : Folds_(it, p)
    BY <1>2
  <2>2. x \in r /\ x \in 1..n /\ w[x] \in C
    BY <1>2, LastPlace
  <2> DEFINE g == [q \in SUBSET r |-> IF x \in q THEN F[it[q \ {x}]][w[x]] ELSE it[q]]
  <2>3. \A q \in SUBSET r : q \ {x} \in SUBSET p /\ (x \notin q => q \in SUBSET p)
    OBVIOUS
  <2>4. g \in [SUBSET r -> S]
    <3> HIDE DEF p, x
    <3>1. ASSUME NEW q \in SUBSET r PROVE (IF x \in q THEN F[it[q \ {x}]][w[x]] ELSE it[q]) \in S
      <4>1. it[q \ {x}] \in S /\ (x \notin q => it[q] \in S)
        BY <2>3
      <4>2. F[it[q \ {x}]][w[x]] \in S
        BY <2>2, <4>1
      <4> QED BY <4>1, <4>2
    <3> QED BY <3>1
  <2>5. ASSUME NEW q \in SUBSET r, x \in q PROVE Max(q) = x
    <3>1. q \in SUBSET (1..n) /\ q # {}
      BY <2>5
    <3>2. Max(q) \in q /\ x <= Max(q)
      BY <2>5, <3>1, LastPlace
    <3>3. Max(q) <= x
      BY <1>2, <3>2, LastPlace
    <3>4. Max(q) \in Nat /\ x \in Nat
      <4>1. Max(q) \in 1..n
        BY <3>1, <3>2
      <4> QED BY <2>2, <4>1
    <3> QED BY <3>2, <3>3, <3>4
  <2> HIDE DEF x, p
  <2>6. ASSUME NEW q \in SUBSET r
        PROVE  g[q] = IF q = {} THEN b ELSE F[g[q \ {Max(q)}]][w[Max(q)]]
    <3>1. CASE x \in q
      <4>1. x \notin q \ {x} /\ q \ {x} \in SUBSET r
        OBVIOUS
      <4>2. g[q \ {x}] = it[q \ {x}] /\ g[q] = F[it[q \ {x}]][w[x]]
        BY <3>1, <4>1
      <4> HIDE DEF g
      <4> QED BY <2>5, <3>1, <4>2
    <3>2. CASE x \notin q
      <4>1. q \in SUBSET p /\ g[q] = it[q]
        BY <2>3, <3>2
      <4>2. x \notin q \ {Max(q)} /\ q \ {Max(q)} \in SUBSET r
        BY <3>2
      <4>3. g[q \ {Max(q)}] = it[q \ {Max(q)}]
        BY <4>2
      <4>4. it[q] = IF q = {} THEN b ELSE F[it[q \ {Max(q)}]][w[Max(q)]]
        BY <2>1, <4>1
      <4> HIDE DEF g
      <4> QED BY <4>1, <4>3, <4>4
    <3> QED BY <3>1, <3>2
  <2> HIDE DEF g
  <2>7. \E jt \in [SUBSET r -> S] : Folds_(jt, r)
    BY <2>4, <2>6
  <2> QED BY <2>7
<1> HIDE DEF G
<1>3. G = SUBSET (1..n)
  <2>1. G \in SUBSET (SUBSET (1..n))
    BY DEF G
  <2> QED BY <1>1, <1>2, <2>1, Unfold
<1>4. PICK it \in [SUBSET (1..n) -> S] : Folds_(it, 1..n)
  <2>1. 1..n \in G
    BY <1>3
  <2> QED BY <2>1 DEF G
<1> DEFINE B(s) == IF s = {} THEN b ELSE F[it[s \ {Max(s)}]][w[Max(s)]]
<1>5. \A s \in SUBSET (1..n) : it[s] = B(s)
  BY <1>4
<1> HIDE DEF B
<1>6. it = [s \in SUBSET (1..n) |-> B(s)]
  BY <1>5
<1> QED BY <1>6 DEF IsFold, B

\* The first positions
LEMMA Firsts ==
  ASSUME NEW k \in Nat, k # 0
  PROVE  Max(1..k) = k /\ (1..k) \ {k} = 1..(k - 1) /\ 1..k # {}
<1>1. k \in 1..k
  OBVIOUS
<1>2. Max(1..k) \in 1..k /\ k <= Max(1..k)
  <2>1. 1..k \in SUBSET (1..k) /\ 1..k # {}
    BY <1>1
  <2> QED BY <1>1, <2>1, LastPlace
<1>3. Max(1..k) = k
  BY <1>2
<1>4. (1..k) \ {k} = 1..(k - 1)
  OBVIOUS
<1> QED BY <1>1, <1>3, <1>4

(***************************************************************************)
(* The progress bar's walk keeps its type.                                 *)
(***************************************************************************)
\* Fields of a record of the bar's shape are updated on their own.
LEMMA FieldType ==
  ASSUME NEW P, NEW B, NEW N, NEW T, NEW Q,
         NEW b \in [phase : P, progress_done : B, cur_pct : N, cur_txt : T],
         NEW q \in Q, NEW d \in B, NEW n \in N, NEW t \in T
  PROVE  /\ b.phase \in P /\ b.cur_pct \in N
         /\ [b EXCEPT !.phase = q] \in [phase : Q, progress_done : B, cur_pct : N, cur_txt : T]
         /\ [b EXCEPT !.phase = q, !.progress_done = d]
              \in [phase : Q, progress_done : B, cur_pct : N, cur_txt : T]
         /\ [b EXCEPT !.cur_pct = n] \in [phase : P, progress_done : B, cur_pct : N, cur_txt : T]
         /\ [b EXCEPT !.cur_txt = t] \in [phase : P, progress_done : B, cur_pct : N, cur_txt : T]
         /\ [b EXCEPT !.cur_pct = n].phase = b.phase
         /\ [b EXCEPT !.phase = q].phase = q
<1> QED OBVIOUS

\* Bars whose phase is any number
Walks == [phase : Nat, progress_done : BOOLEAN, cur_pct : 0..Full, cur_txt : {"", "done"}]

\* What the functions of the bar store keeps its type.
LEMMA BarFields ==
  ASSUME NEW b \in Walks, NEW p \in Nat, NEW q \in 0..Full, NEW n \in 0..Full,
         NEW t \in {"", "done"}
  PROVE  /\ b.phase \in Nat
         /\ [b EXCEPT !.phase = p] \in Walks /\ [b EXCEPT !.phase = p].phase = p
         /\ [b EXCEPT !.phase = q] \in Bars
         /\ [b EXCEPT !.phase = q, !.progress_done = TRUE] \in Bars
         /\ [b EXCEPT !.cur_pct = n] \in Walks /\ [b EXCEPT !.cur_pct = n].phase = b.phase
         /\ [b EXCEPT !.cur_txt = t] \in Walks
<1>1. TRUE \in BOOLEAN
  OBVIOUS
<1> QED BY <1>1, FieldType, Zenon DEF Bars, Walks

\* A walk whose phase is a percentage is a bar.
LEMMA WalkIsBar ==
  ASSUME NEW b \in Walks
  PROVE  b.phase \in 0..Full <=> b \in Bars
<1>1. ASSUME NEW P, NEW B, NEW N, NEW T, NEW Q,
             NEW c \in [phase : P, progress_done : B, cur_pct : N, cur_txt : T]
      PROVE  c.phase \in Q <=> c \in [phase : Q, progress_done : B, cur_pct : N, cur_txt : T]
  OBVIOUS
<1> QED BY <1>1, Zenon DEF Walks, Bars

\* A bar is one of them.
LEMMA BarIsWalk == Bars \subseteq Walks
<1>1. ASSUME NEW P, NEW B, NEW N, NEW T, NEW Q, P \subseteq Q
      PROVE  [phase : P, progress_done : B, cur_pct : N, cur_txt : T]
               \subseteq [phase : Q, progress_done : B, cur_pct : N, cur_txt : T]
  BY <1>1
<1>2. 0..Full \subseteq Nat
  BY FullAssumption
<1> QED BY <1>1, <1>2, Zenon DEF Walks, Bars

\* demo_progress, whatever the phase, leaves a bar.
LEMMA BarType ==
  ASSUME NEW b \in Bars
  PROVE  NextBar(b) \in Bars
<1> DEFINE c == progress_set(b, b.phase)
           next == [c EXCEPT !.phase = @ + 1]
<1>1. Full \in Nat \ {0} /\ 0 \in 0..Full /\ 1 \in 0..Full /\ Full \in 0..Full
      /\ "" \in {"", "done"} /\ "done" \in {"", "done"}
  BY FullAssumption
<1>2. b \in Walks /\ b.phase \in 0..Full
  BY BarIsWalk, WalkIsBar
<1>3. ASSUME NEW p \in 0..Full
      PROVE  progress_set(b, p) \in Walks /\ progress_set(b, p).phase = b.phase
  <2>1. ~(p > Full)
    BY <1>1
  <2>2. progress_set(b, p) = [b EXCEPT !.cur_pct = p]
    BY <2>1, Zenon DEF progress_set
  <2>3. 0 \in Nat
    OBVIOUS
  <2>4. [b EXCEPT !.cur_pct = p] \in Walks /\ [b EXCEPT !.cur_pct = p].phase = b.phase
    BY <1>1, <1>2, <2>3, BarFields, Zenon
  <2> QED BY <2>2, <2>4, Zenon
<1>4. progress_set(b, Full) \in Bars
  BY <1>1, <1>2, <1>3, WalkIsBar
<1>5. c \in Walks /\ c.phase = b.phase
  BY <1>2, <1>3
<1> HIDE DEF c
<1>6. [progress_init(b) EXCEPT !.phase = 1] \in Bars
  <2>1. 0 \in Nat
    OBVIOUS
  <2>2. [b EXCEPT !.cur_pct = 0] \in Walks
    BY <1>1, <1>2, <2>1, BarFields, Zenon
  <2>3. progress_init(b) = [[b EXCEPT !.cur_pct = 0] EXCEPT !.cur_txt = ""]
    BY DEF progress_init
  <2>4. progress_init(b) \in Walks
    BY <1>1, <2>1, <2>2, <2>3, BarFields, Zenon
  <2> QED BY <1>1, <2>1, <2>4, BarFields, Zenon
<1>7. next \in Walks /\ next.phase = b.phase + 1
  <2>1. next = [c EXCEPT !.phase = b.phase + 1]
    BY <1>5, Zenon
  <2>2. b.phase + 1 \in Nat
    BY <1>1, <1>2
  <2> HIDE DEF next
  <2> QED BY <1>1, <1>5, <2>1, <2>2, BarFields, Zenon
<1> HIDE DEF next
<1>8. [progress_text(next, "done") EXCEPT !.phase = 0, !.progress_done = TRUE] \in Bars
  <2>1. 0 \in Nat
    OBVIOUS
  <2>2. progress_text(next, "done") \in Walks
    BY <1>1, <1>7, <2>1, BarFields, Zenon DEF progress_text
  <2> QED BY <1>1, <2>1, <2>2, BarFields, Zenon
<1>9. ~(next.phase > Full) => next \in Bars
  BY <1>1, <1>2, <1>7, WalkIsBar
<1>10. demo_progress(b) =
         IF b.phase = 0 THEN [progress_init(b) EXCEPT !.phase = 1]
         ELSE IF next.phase > Full
              THEN [progress_text(next, "done") EXCEPT !.phase = 0, !.progress_done = TRUE]
              ELSE next
  BY Zenon DEF demo_progress, next, c
<1>11. demo_progress(b) \in Bars
  BY <1>6, <1>8, <1>9, <1>10, Zenon
<1> QED BY <1>4, <1>11, Zenon DEF NextBar

(***************************************************************************)
(* The terminal                                                            *)
(***************************************************************************)
Lines(V) == {t \in [line : Seq(V), cur : Nat] : t.cur <= Len(t.line)}

\* The line reads s, with the cursor behind it and nothing to be seen after.
TermShows(t, s) ==
  /\ t.cur = Len(s) /\ Len(s) <= Len(t.line)
  /\ \A i \in 1..Len(s) : t.line[i] = s[i]
  /\ \A i \in (Len(s) + 1)..Len(t.line) : t.line[i] = Space

\* A line and its cursor
LEMMA LineParts ==
  ASSUME NEW V, NEW t \in Lines(V)
  PROVE  t.line \in Seq(V) /\ t.cur \in Nat /\ t.cur <= Len(t.line) /\ Len(t.line) \in Nat
<1> QED BY DEF Lines

\* A line is made of its text and a cursor within it.
LEMMA LineMade ==
  ASSUME NEW V, NEW l \in Seq(V), NEW n \in Nat, n <= Len(l)
  PROVE  /\ [line |-> l, cur |-> n] \in Lines(V)
         /\ [line |-> l, cur |-> n].line = l /\ [line |-> l, cur |-> n].cur = n
<1> QED BY DEF Lines

\* A glyph over what is under the cursor
Over(l, n, c) == SubSeq(l, 1, n) \o <<c>> \o SubSeq(l, n + 2, Len(l))

Changed(l, n, c, r) ==
  /\ r[n + 1] = c
  /\ \A i \in 1..n : r[i] = l[i]
  /\ \A i \in (n + 2)..Len(r) : i \in 1..Len(l) /\ r[i] = l[i]

\* It changes one place of the line, or adds one.
LEMMA OverIs ==
  ASSUME NEW V, NEW l \in Seq(V), NEW n \in Nat, n <= Len(l), NEW c \in V
  PROVE  /\ Over(l, n, c) \in Seq(V) /\ n + 1 <= Len(Over(l, n, c))
         /\ Changed(l, n, c, Over(l, n, c))
<1> DEFINE a == SubSeq(l, 1, n)
           b == SubSeq(l, n + 2, Len(l))
           d == a \o <<c>>
           r == d \o b
<1>0. Over(l, n, c) = r /\ Len(l) \in Nat
  BY DEF Over
<1>1. a \in Seq(V) /\ Len(a) = n /\ \A i \in 1..n : a[i] = l[i]
  OBVIOUS
<1>2. d \in Seq(V) /\ Len(d) = n + 1 /\ d[n + 1] = c /\ \A i \in 1..n : d[i] = l[i]
  <2> HIDE DEF a
  <2> QED BY <1>1
<1>3. CASE n + 2 > Len(l)
  <2>1. b = <<>>
    BY <1>3
  <2> HIDE DEF b, d
  <2>2. r = d
    BY <1>2, <2>1
  <2> HIDE DEF r
  <2>3. (n + 2)..Len(r) = {}
    BY <1>2, <2>2
  <2> QED BY <1>0, <1>2, <2>2, <2>3 DEF Changed
<1>4. CASE ~(n + 2 > Len(l))
  <2> DEFINE k == Len(l) - n - 1
  <2>1. b \in Seq(V) /\ Len(b) = k /\ k \in Nat /\ \A i \in 1..k : b[i] = l[n + 1 + i]
    BY <1>4
  <2> HIDE DEF b, d
  <2>2. r \in Seq(V) /\ Len(r) = n + 1 + Len(b) /\ \A i \in 1..(n + 1) : r[i] = d[i]
    <3>1. /\ r \in Seq(V) /\ Len(r) = Len(d) + Len(b)
          /\ \A i \in 1..(Len(d) + Len(b)) : r[i] = IF i <= Len(d) THEN d[i] ELSE b[i - Len(d)]
      BY <1>2, <2>1, ConcatProperties, Zenon
    <3> HIDE DEF r
    <3>2. 1..(n + 1) \subseteq 1..(Len(d) + Len(b)) /\ \A i \in 1..(n + 1) : i <= Len(d)
      BY <1>2, <2>1
    <3> QED BY <1>2, <3>1, <3>2
  <2>3. ASSUME NEW i \in (n + 2)..Len(l) PROVE r[i] = l[i]
    <3>1. i \in (Len(d) + 1)..(Len(d) + Len(b)) /\ i \in Nat
      BY <1>2, <2>1
    <3>2. r[i] = b[i - Len(d)]
      BY <1>2, <2>1, <3>1
    <3>3. i - Len(d) \in 1..k /\ n + 1 + (i - Len(d)) = i
      BY <1>2, <3>1, <2>1
    <3> QED BY <2>1, <3>2, <3>3
  <2> HIDE DEF r
  <2>4. Len(r) = Len(l)
    BY <2>1, <2>2
  <2>5. n + 1 \in 1..(n + 1) /\ 1..n \subseteq 1..(n + 1)
    OBVIOUS
  <2>6. r[n + 1] = c /\ \A i \in 1..n : r[i] = l[i]
    BY <1>2, <2>2, <2>5
  <2>7. (n + 2)..Len(l) \subseteq 1..Len(l) /\ n + 1 <= Len(l)
    BY <1>0, <1>4
  <2> QED BY <1>0, <2>2, <2>3, <2>4, <2>6, <2>7 DEF Changed
<1> QED BY <1>3, <1>4

\* What each kind of character does
LEMMA ShowIs ==
  ASSUME NEW t, NEW c
  PROVE  /\ c = NL => Show(t, c) = EmptyLine
         /\ c # NL /\ c \in Unseen => Show(t, c) = t
         /\ c # NL /\ c \notin Unseen /\ c = BS
              => Show(t, c) = [t EXCEPT !.cur = IF t.cur = 0 THEN 0 ELSE t.cur - 1]
         /\ c # NL /\ c \notin Unseen /\ c # BS
              => Show(t, c) = [line |-> Over(t.line, t.cur, c), cur |-> t.cur + 1]
<1> QED BY Zenon DEF Show, Over

\* A backspace moves the cursor only.
LEMMA BackIs ==
  ASSUME NEW V, NEW t \in Lines(V), NEW n \in Nat, n <= t.cur
  PROVE  /\ [t EXCEPT !.cur = n] \in Lines(V)
         /\ [t EXCEPT !.cur = n].line = t.line /\ [t EXCEPT !.cur = n].cur = n
<1> QED BY DEF Lines

\* The cursor stays within the line, or right behind it.
LEMMA ShowType ==
  ASSUME NEW V, NEW t \in Lines(V), NEW c \in V
  PROVE  Show(t, c) \in Lines(V)
<1>1. t.line \in Seq(V) /\ t.cur \in Nat /\ t.cur <= Len(t.line)
  BY LineParts
<1>2. CASE c = NL
  <2>1. <<>> \in Seq(V) /\ 0 \in Nat /\ 0 <= Len(<<>>)
    OBVIOUS
  <2>2. EmptyLine \in Lines(V)
    BY <2>1, LineMade DEF EmptyLine
  <2> QED BY <1>2, <2>2, ShowIs
<1>3. CASE c # NL /\ c \in Unseen
  BY <1>3, ShowIs
<1>4. CASE c # NL /\ c \notin Unseen /\ c = BS
  <2> DEFINE n == IF t.cur = 0 THEN 0 ELSE t.cur - 1
  <2>1. n \in Nat /\ n <= t.cur
    BY <1>1
  <2>2. Show(t, c) = [t EXCEPT !.cur = n]
    BY <1>4, ShowIs
  <2> HIDE DEF n
  <2> QED BY <2>1, <2>2, BackIs
<1>5. CASE c # NL /\ c \notin Unseen /\ c # BS
  <2> DEFINE r == Over(t.line, t.cur, c)
  <2>1. r \in Seq(V) /\ t.cur + 1 <= Len(r)
    BY <1>1, OverIs, Zenon
  <2>2. t.cur + 1 \in Nat
    BY <1>1
  <2>3. Show(t, c) = [line |-> r, cur |-> t.cur + 1]
    BY <1>5, ShowIs, Zenon
  <2> HIDE DEF r
  <2> QED BY <2>1, <2>2, <2>3, LineMade
<1> QED BY <1>2, <1>3, <1>4, <1>5

\* A glyph that is typed is the next one of what the line reads.
LEMMA TermTypes ==
  ASSUME NEW V, NEW t \in Lines(V), NEW s \in Seq(V), TermShows(t, s),
         NEW c \in V, c \in Glyphs
  PROVE  TermShows(Show(t, c), Append(s, c))
<1>0. PICK r : r = Over(t.line, t.cur, c)
  OBVIOUS
<1>1. t.line \in Seq(V) /\ t.cur \in Nat /\ t.cur <= Len(t.line)
  BY LineParts
<1>2. /\ r \in Seq(V) /\ t.cur + 1 <= Len(r) /\ r[t.cur + 1] = c
      /\ \A i \in 1..t.cur : r[i] = t.line[i]
      /\ \A i \in (t.cur + 2)..Len(r) : i \in 1..Len(t.line) /\ r[i] = t.line[i]
  <2>1. r \in Seq(V) /\ t.cur + 1 <= Len(r) /\ Changed(t.line, t.cur, c, r)
    BY <1>0, <1>1, OverIs
  <2> QED BY <2>1 DEF Changed
<1>3. c # NL /\ c \notin Unseen /\ c # BS
  BY GlyphAssumption, UnseenAssumption, BSAssumption
<1>4. Show(t, c) = [line |-> r, cur |-> t.cur + 1]
  BY <1>0, <1>3, ShowIs, Zenon
<1>5. Show(t, c).line = r /\ Show(t, c).cur = t.cur + 1
  BY <1>4
<1>6. /\ t.cur = Len(s) /\ Len(s) \in Nat
      /\ \A i \in 1..Len(s) : t.line[i] = s[i]
      /\ \A i \in (Len(s) + 1)..Len(t.line) : t.line[i] = Space
  BY DEF TermShows
<1>7. /\ Len(Append(s, c)) = Len(s) + 1 /\ Append(s, c)[Len(s) + 1] = c
      /\ \A i \in 1..Len(s) : Append(s, c)[i] = s[i]
  OBVIOUS
<1>8. \A i \in 1..Len(Append(s, c)) : r[i] = Append(s, c)[i]
  BY <1>2, <1>6, <1>7
<1>9. \A i \in (Len(Append(s, c)) + 1)..Len(r) : r[i] = Space
  BY <1>1, <1>2, <1>6, <1>7
<1> QED BY <1>2, <1>5, <1>6, <1>7, <1>8, <1>9 DEF TermShows

\* "\b \b" takes the last character away.
LEMMA TermErases ==
  ASSUME NEW V, NEW t \in Lines(V), NEW s \in Seq(V), s # <<>>, TermShows(t, s),
         BS \in V, Space \in V
  PROVE  TermShows(Show(Show(Show(t, BS), Space), BS), Front(s))
<1>1. Front(s) \in Seq(V) /\ Len(Front(s)) = Len(s) - 1 /\ Len(s) \in Nat /\ Len(s) > 0
      /\ \A i \in 1..(Len(s) - 1) : Front(s)[i] = s[i]
  <2>1. Len(s) \in Nat /\ Len(s) > 0 /\ Len(s) - 1 \in Nat
    OBVIOUS
  <2>2. Front(s) = SubSeq(s, 1, Len(s) - 1)
    BY DEF Front
  <2>3. PICK m \in Nat : m = Len(s) - 1 /\ m + 1 = Len(s)
    BY <2>1
  <2>4. SubSeq(s, 1, m) \in Seq(V) /\ Len(SubSeq(s, 1, m)) = m
        /\ \A i \in 1..m : SubSeq(s, 1, m)[i] = s[i]
    BY <2>1, <2>3
  <2> QED BY <2>1, <2>2, <2>3, <2>4
<1>2. BS # NL /\ BS \notin Unseen /\ Space \in Glyphs
  BY GlyphAssumption, UnseenAssumption, BSAssumption
<1>3. PICK t1 \in Lines(V) : t1 = Show(t, BS)
  BY ShowType
<1>4. PICK t2 \in Lines(V) : t2 = Show(t1, Space)
  BY ShowType
<1>5. PICK t3 \in Lines(V) : t3 = Show(t2, BS)
  BY ShowType
<1>6. ASSUME NEW u \in Lines(V), u.cur > 0
      PROVE  Show(u, BS).line = u.line /\ Show(u, BS).cur = u.cur - 1
  <2>1. Show(u, BS) = [u EXCEPT !.cur = IF u.cur = 0 THEN 0 ELSE u.cur - 1]
    BY <1>2, ShowIs
  <2> QED BY <1>6, <2>1 DEF Lines
<1>7. t1.line = t.line /\ t1.cur = Len(s) - 1
  BY <1>1, <1>3, <1>6 DEF TermShows
<1>0. PICK r : r = Over(t1.line, t1.cur, Space)
  OBVIOUS
<1>8. t1.line \in Seq(V) /\ t1.cur \in Nat /\ t1.cur <= Len(t1.line)
  BY LineParts
<1>9. /\ r \in Seq(V) /\ t1.cur + 1 <= Len(r) /\ r[t1.cur + 1] = Space
      /\ \A i \in 1..t1.cur : r[i] = t1.line[i]
      /\ \A i \in (t1.cur + 2)..Len(r) : i \in 1..Len(t1.line) /\ r[i] = t1.line[i]
  <2>1. r \in Seq(V) /\ t1.cur + 1 <= Len(r) /\ Changed(t1.line, t1.cur, Space, r)
    BY <1>0, <1>8, OverIs
  <2> QED BY <2>1 DEF Changed
<1>10. Show(t1, Space) = [line |-> r, cur |-> t1.cur + 1]
  <2>1. Space # NL /\ Space \notin Unseen /\ Space # BS
    BY GlyphAssumption, UnseenAssumption, BSAssumption
  <2> QED BY <1>0, <2>1, ShowIs, Zenon
<1>11. t2.line = r /\ t2.cur = Len(s)
  BY <1>1, <1>4, <1>7, <1>10
<1>12. t3.line = r /\ t3.cur = Len(s) - 1
  BY <1>1, <1>5, <1>6, <1>11
<1>13. /\ \A i \in 1..Len(s) : t.line[i] = s[i]
       /\ \A i \in (Len(s) + 1)..Len(t.line) : t.line[i] = Space
  BY DEF TermShows
<1>14. \A i \in 1..(Len(s) - 1) : r[i] = Front(s)[i]
  BY <1>1, <1>7, <1>9, <1>13
<1>15. \A i \in Len(s)..Len(r) : r[i] = Space
  BY <1>1, <1>7, <1>8, <1>9, <1>13
<1>16. Len(s) <= Len(r) /\ Len(r) \in Nat /\ Len(s) - 1 <= Len(r) /\ (Len(s) - 1) + 1 = Len(s)
  BY <1>1, <1>7, <1>9
<1>17. TermShows(t3, Front(s))
  BY <1>1, <1>12, <1>14, <1>15, <1>16 DEF TermShows
<1> QED BY <1>3, <1>4, <1>5, <1>17

\* An empty line reads nothing.
LEMMA TermStarts == TermShows(EmptyLine, <<>>)
<1> QED BY DEF TermShows, EmptyLine

\* Only what the line reads, and blanks, are on it.
LEMMA TermHolds ==
  ASSUME NEW V, NEW W, NEW t \in Lines(V), NEW s \in Seq(W), TermShows(t, s), Space \in W
  PROVE  t \in Lines(W)
<1>1. t.line \in Seq(V) /\ t.cur \in Nat /\ t.cur <= Len(t.line) /\ Len(t.line) \in Nat
  BY LineParts
<1>2. \A i \in 1..Len(t.line) : t.line[i] \in W
  <2> TAKE i \in 1..Len(t.line)
  <2>1. CASE i <= Len(s)
    BY <1>1, <2>1 DEF TermShows
  <2>2. CASE ~(i <= Len(s))
    <3>1. i \in (Len(s) + 1)..Len(t.line)
      BY <1>1, <2>2
    <3> QED BY <3>1 DEF TermShows
  <2> QED BY <2>1, <2>2
<1>3. t.line \in Seq(W)
  <2>1. t.line = [i \in 1..Len(t.line) |-> t.line[i]]
    BY <1>1
  <2> QED BY <1>1, <1>2, <2>1
<1>4. t = [line |-> t.line, cur |-> t.cur]
  BY DEF Lines
<1> QED BY <1>1, <1>3, <1>4, LineMade

(***************************************************************************)
(* The screen                                                              *)
(***************************************************************************)

\* The cursor's row reads s up to the cursor, if s fits in a row.
ScreenShows(sc, s) ==
  Len(s) < SCR_COLS =>
    /\ sc.col = Len(s)
    /\ \A j \in 1..Len(s) : sc.grid[sc.row][j - 1] = s[j]

\* A new line reads nothing.
LEMMA ScreenStarts ==
  ASSUME NEW sc \in Screens
  PROVE  ScreenShows(scr_be_write(sc, NL), <<>>)
<1>1. scr_be_write(sc, NL) = NextRow(sc.grid, sc.row)
  BY DEF scr_be_write
<1>2. NextRow(sc.grid, sc.row).col = 0
  BY DEF NextRow, scr_scroll, At
<1> QED BY <1>1, <1>2 DEF ScreenShows

\* A glyph that is typed is the next one of what the row reads.
LEMMA ScreenTypes ==
  ASSUME NEW V, NEW sc \in Screens, NEW s \in Seq(V), ScreenShows(sc, s),
         NEW c \in V, c \in Glyphs
  PROVE  ScreenShows(scr_be_write(sc, c), Append(s, c))
<1>1. /\ Len(s) \in Nat /\ Len(Append(s, c)) = Len(s) + 1 /\ Append(s, c)[Len(s) + 1] = c
      /\ \A i \in 1..Len(s) : Append(s, c)[i] = s[i]
  OBVIOUS
<1>2. SUFFICES ASSUME Len(s) + 1 < SCR_COLS
               PROVE  /\ scr_be_write(sc, c).col = Len(s) + 1
                      /\ \A j \in 1..(Len(s) + 1) :
                           scr_be_write(sc, c).grid[scr_be_write(sc, c).row][j - 1]
                             = Append(s, c)[j]
  BY <1>1 DEF ScreenShows
<1>3. sc.col = Len(s) /\ \A j \in 1..Len(s) : sc.grid[sc.row][j - 1] = s[j]
  BY <1>1, <1>2, GridAssumption DEF ScreenShows
<1>4. /\ sc.grid \in [RowNos -> [ColNos -> Glyphs \cup {NUL}]]
      /\ sc.row \in RowNos /\ sc.col \in ColNos
  BY DEF Screens
<1> DEFINE g == [sc.grid EXCEPT ![sc.row][sc.col] = c]
<1>5. scr_be_write(sc, c) = At(g, sc.row, sc.col + 1)
  <2>1. c # NL
    BY GlyphAssumption
  <2>2. ~(sc.col + 1 >= SCR_COLS)
    BY <1>1, <1>2, <1>3, GridAssumption
  <2> QED BY <2>1, <2>2 DEF scr_be_write, PutGlyph
<1>6. g[sc.row][sc.col] = c
      /\ \A j \in ColNos : j # sc.col => g[sc.row][j] = sc.grid[sc.row][j]
  BY <1>4
<1> HIDE DEF g
<1>7. scr_be_write(sc, c).grid = g /\ scr_be_write(sc, c).row = sc.row
      /\ scr_be_write(sc, c).col = sc.col + 1
  BY <1>5 DEF At
<1>8. ASSUME NEW j \in 1..(Len(s) + 1) PROVE g[sc.row][j - 1] = Append(s, c)[j]
  <2>1. CASE j = Len(s) + 1
    BY <1>1, <1>3, <1>6, <2>1
  <2>2. CASE j # Len(s) + 1
    <3>1. j \in 1..Len(s) /\ j - 1 \in ColNos /\ j - 1 # sc.col
      BY <1>1, <1>2, <1>3, <2>2, GridAssumption DEF ColNos
    <3> QED BY <1>1, <1>3, <1>6, <3>1
  <2> QED BY <2>1, <2>2
<1> QED BY <1>3, <1>7, <1>8

(***************************************************************************)
(* Texts                                                                   *)
(***************************************************************************)
Printed(sc, m) == FoldLeft(scr_be_write, sc, m)
Fed(t, m) == FoldLeft(Show, t, m)

\* What is on the screen, and on the terminal, after the first k characters: it[1..k]
Prints(it, sc, m) ==
  /\ it \in [SUBSET (1..Len(m)) -> Screens]
  /\ it[{}] = sc /\ Printed(sc, m) = it[1..Len(m)]
  /\ \A k \in 1..Len(m) : it[1..k] = scr_be_write(it[1..(k - 1)], m[k])

Receives(it, V, t, m) ==
  /\ it \in [SUBSET (1..Len(m)) -> Lines(V)]
  /\ it[{}] = t /\ Fed(t, m) = it[1..Len(m)]
  /\ \A k \in 1..Len(m) : it[1..k] = Show(it[1..(k - 1)], m[k])

\* A text goes to the screen character by character.
LEMMA ScreenSteps ==
  ASSUME NEW V, NEW sc \in Screens, NEW m \in Seq(V)
  PROVE  \E it : Prints(it, sc, m)
<1> DEFINE n == Len(m)
           F == [x \in Screens |-> [c \in V |-> scr_be_write(x, c)]]
           Iter(it) == it = [q \in SUBSET (1..n) |->
                               IF q = {} THEN sc ELSE scr_be_write(it[q \ {Max(q)}], m[Max(q)])]
<1>1. n \in Nat /\ DOMAIN m = 1..n /\ m \in [1..n -> V]
  OBVIOUS
<1>2. Printed(sc, m) = (CHOOSE it : Iter(it))[1..n]
  BY <1>1, Zenon DEF Printed, FoldLeft, MapThenFoldSet
<1> HIDE DEF n
<1>3. F \in [Screens -> [V -> Screens]]
  BY WriteType
<1>4. PICK it \in [SUBSET (1..n) -> Screens] : IsFold(it, F, sc, m, n)
  <2> HIDE DEF F
  <2> QED BY <1>1, <1>3, FoldExists
<1>5. Iter(it)
  <2> DEFINE A(q) == IF q = {} THEN sc ELSE scr_be_write(it[q \ {Max(q)}], m[Max(q)])
             B(q) == IF q = {} THEN sc ELSE F[it[q \ {Max(q)}]][m[Max(q)]]
  <2>1. ASSUME NEW q \in SUBSET (1..n) PROVE A(q) = B(q)
    <3>1. CASE q # {}
      <4>1. Max(q) \in 1..n /\ q \ {Max(q)} \in SUBSET (1..n)
        BY <1>1, <3>1, LastPlace
      <4>2. it[q \ {Max(q)}] \in Screens /\ m[Max(q)] \in V
        BY <1>1, <4>1
      <4> QED BY <4>2
    <3>2. CASE q = {}
      BY <3>2
    <3> QED BY <3>1, <3>2
  <2>2. it = [q \in SUBSET (1..n) |-> B(q)]
    BY <1>4 DEF IsFold
  <2> HIDE DEF A, B
  <2>3. it = [q \in SUBSET (1..n) |-> A(q)]
    BY <2>1, <2>2
  <2> QED BY <2>3 DEF A
<1>6. PICK jt : jt = (CHOOSE i : Iter(i)) /\ Iter(jt)
  <2> HIDE DEF Iter
  <2> QED BY <1>5
<1>7. \A q \in SUBSET (1..n) :
        jt[q] = IF q = {} THEN sc ELSE scr_be_write(jt[q \ {Max(q)}], m[Max(q)])
  BY <1>6, Zenon
<1>8. \A k \in 1..n : jt[1..k] = scr_be_write(jt[1..(k - 1)], m[k])
  <2> TAKE k \in 1..n
  <2>1. 1..k \in SUBSET (1..n) /\ k \in Nat /\ k # 0
    BY <1>1
  <2> QED BY <1>7, <2>1, Firsts
<1>9. jt[{}] = sc
  BY <1>7
<1>10. jt \in [SUBSET (1..n) -> Screens]
  <2> DEFINE G == {q \in SUBSET (1..n) : jt[q] \in Screens}
  <2>1. {} \in G /\ G \in SUBSET (SUBSET (1..n))
    BY <1>9
  <2>2. ASSUME NEW q \in SUBSET (1..n), q # {}, q \ {Max(q)} \in G PROVE q \in G
    <3>1. Max(q) \in 1..n
      BY <1>1, <2>2, LastPlace
    <3>2. m[Max(q)] \in V /\ jt[q \ {Max(q)}] \in Screens
      BY <1>1, <2>2, <3>1
    <3>3. jt[q] = scr_be_write(jt[q \ {Max(q)}], m[Max(q)])
      BY <1>7, <2>2
    <3> QED BY <3>2, <3>3, WriteType
  <2> HIDE DEF G
  <2>3. G = SUBSET (1..n)
    BY <1>1, <2>1, <2>2, Unfold
  <2>4. \A q \in SUBSET (1..n) : jt[q] \in Screens
    BY <2>3 DEF G
  <2>5. jt = [q \in SUBSET (1..n) |-> jt[q]]
    BY <1>6
  <2> QED BY <2>4, <2>5
<1> QED BY <1>2, <1>6, <1>8, <1>9, <1>10 DEF n, Prints

\* And to the terminal.
LEMMA TermSteps ==
  ASSUME NEW V, NEW t \in Lines(V), NEW m \in Seq(V)
  PROVE  \E it : Receives(it, V, t, m)
<1> DEFINE n == Len(m)
           F == [x \in Lines(V) |-> [c \in V |-> Show(x, c)]]
           Iter(it) == it = [q \in SUBSET (1..n) |->
                               IF q = {} THEN t ELSE Show(it[q \ {Max(q)}], m[Max(q)])]
<1>1. n \in Nat /\ DOMAIN m = 1..n /\ m \in [1..n -> V]
  OBVIOUS
<1>2. Fed(t, m) = (CHOOSE it : Iter(it))[1..n]
  BY <1>1, Zenon DEF Fed, FoldLeft, MapThenFoldSet
<1> HIDE DEF n
<1>3. F \in [Lines(V) -> [V -> Lines(V)]]
  BY ShowType
<1>4. PICK it \in [SUBSET (1..n) -> Lines(V)] : IsFold(it, F, t, m, n)
  <2> HIDE DEF F
  <2> QED BY <1>1, <1>3, FoldExists
<1>5. Iter(it)
  <2> DEFINE A(q) == IF q = {} THEN t ELSE Show(it[q \ {Max(q)}], m[Max(q)])
             B(q) == IF q = {} THEN t ELSE F[it[q \ {Max(q)}]][m[Max(q)]]
  <2>1. ASSUME NEW q \in SUBSET (1..n) PROVE A(q) = B(q)
    <3>1. CASE q # {}
      <4>1. Max(q) \in 1..n /\ q \ {Max(q)} \in SUBSET (1..n)
        BY <1>1, <3>1, LastPlace
      <4>2. it[q \ {Max(q)}] \in Lines(V) /\ m[Max(q)] \in V
        BY <1>1, <4>1
      <4> QED BY <4>2
    <3>2. CASE q = {}
      BY <3>2
    <3> QED BY <3>1, <3>2
  <2>2. it = [q \in SUBSET (1..n) |-> B(q)]
    BY <1>4 DEF IsFold
  <2> HIDE DEF A, B
  <2>3. it = [q \in SUBSET (1..n) |-> A(q)]
    BY <2>1, <2>2
  <2> QED BY <2>3 DEF A
<1>6. PICK jt : jt = (CHOOSE i : Iter(i)) /\ Iter(jt)
  <2> HIDE DEF Iter
  <2> QED BY <1>5
<1>7. \A q \in SUBSET (1..n) :
        jt[q] = IF q = {} THEN t ELSE Show(jt[q \ {Max(q)}], m[Max(q)])
  BY <1>6, Zenon
<1>8. \A k \in 1..n : jt[1..k] = Show(jt[1..(k - 1)], m[k])
  <2> TAKE k \in 1..n
  <2>1. 1..k \in SUBSET (1..n) /\ k \in Nat /\ k # 0
    BY <1>1
  <2> QED BY <1>7, <2>1, Firsts
<1>9. jt[{}] = t
  BY <1>7
<1>10. jt \in [SUBSET (1..n) -> Lines(V)]
  <2> DEFINE G == {q \in SUBSET (1..n) : jt[q] \in Lines(V)}
  <2>1. {} \in G /\ G \in SUBSET (SUBSET (1..n))
    BY <1>9
  <2>2. ASSUME NEW q \in SUBSET (1..n), q # {}, q \ {Max(q)} \in G PROVE q \in G
    <3>1. Max(q) \in 1..n
      BY <1>1, <2>2, LastPlace
    <3>2. m[Max(q)] \in V /\ jt[q \ {Max(q)}] \in Lines(V)
      BY <1>1, <2>2, <3>1
    <3>3. jt[q] = Show(jt[q \ {Max(q)}], m[Max(q)])
      BY <1>7, <2>2
    <3> QED BY <3>2, <3>3, ShowType
  <2> HIDE DEF G
  <2>3. G = SUBSET (1..n)
    BY <1>1, <2>1, <2>2, Unfold
  <2>4. \A q \in SUBSET (1..n) : jt[q] \in Lines(V)
    BY <2>3 DEF G
  <2>5. jt = [q \in SUBSET (1..n) |-> jt[q]]
    BY <1>6
  <2> QED BY <2>4, <2>5
<1> QED BY <1>2, <1>6, <1>8, <1>9, <1>10 DEF n, Receives

\* Some glyphs, the prompt or what an abort left of it, behind another text
LEMMA GlyphPlaces ==
  ASSUME NEW V, Glyphs \subseteq V, NEW Q \in Seq(Glyphs), NEW pre \in Seq(V)
  PROVE  /\ pre \o Q \in Seq(V) /\ Len(pre \o Q) = Len(pre) + Len(Q)
         /\ Len(pre) \in Nat /\ Len(Q) \in Nat
         /\ \A i \in 1..Len(pre) : (pre \o Q)[i] = pre[i]
         /\ \A j \in 1..Len(Q) :
              /\ (pre \o Q)[Len(pre) + j] = Q[j] /\ Q[j] \in Glyphs
              /\ SubSeq(Q, 1, j) = Append(SubSeq(Q, 1, j - 1), Q[j])
         /\ \A j \in 0..Len(Q) : SubSeq(Q, 1, j) \in Seq(V)
         /\ SubSeq(Q, 1, 0) = <<>> /\ SubSeq(Q, 1, Len(Q)) = Q
<1>1. Q \in Seq(Glyphs) /\ Q \in Seq(V) /\ Len(pre) \in Nat /\ Len(Q) \in Nat
  OBVIOUS
<1>2. /\ pre \o Q \in Seq(V) /\ Len(pre \o Q) = Len(pre) + Len(Q)
      /\ \A i \in 1..Len(pre) : (pre \o Q)[i] = pre[i]
  BY <1>1
<1>3. ASSUME NEW j \in 1..Len(Q) PROVE (pre \o Q)[Len(pre) + j] = Q[j]
  <2>1. Len(pre) + j \in (Len(pre) + 1)..(Len(pre) + Len(Q)) /\ Len(pre) + j - Len(pre) = j
    BY <1>1
  <2> QED BY <1>1, <2>1
<1>4. ASSUME NEW j \in 1..Len(Q)
      PROVE  /\ Q[j] \in Glyphs
             /\ SubSeq(Q, 1, j) = Append(SubSeq(Q, 1, j - 1), Q[j])
  BY <1>1
<1>5. \A j \in 0..Len(Q) : SubSeq(Q, 1, j) \in Seq(V)
  BY <1>1
<1>6. SubSeq(Q, 1, 0) = <<>> /\ SubSeq(Q, 1, Len(Q)) = Q
  BY <1>1
<1> QED BY <1>1, <1>2, <1>3, <1>4, <1>5, <1>6

\* Behind a text that ends a line, the screen's row reads the glyphs.
LEMMA ScreenGlyphs ==
  ASSUME NEW V, Glyphs \subseteq V, NEW Q \in Seq(Glyphs), NEW sc \in Screens, NEW pre \in Seq(V),
         (pre = <<>> /\ ScreenShows(sc, <<>>)) \/ pre \in Ended(V)
  PROVE  /\ Printed(sc, pre \o Q) \in Screens
         /\ ScreenShows(Printed(sc, pre \o Q), Q)
<1> DEFINE a == Len(pre)
           n == Len(Q)
<1>0. PICK m : m = pre \o Q
  OBVIOUS
<1>1. m \in Seq(V) /\ Len(m) = a + n /\ a \in Nat /\ n \in Nat
  BY <1>0, GlyphPlaces
<1>9. PICK it : Prints(it, sc, m)
  BY <1>1, ScreenSteps
<1>2. /\ it \in [SUBSET (1..Len(m)) -> Screens]
      /\ it[{}] = sc /\ Printed(sc, m) = it[1..Len(m)]
      /\ \A k \in 1..Len(m) : it[1..k] = scr_be_write(it[1..(k - 1)], m[k])
  BY <1>9 DEF Prints
<1> DEFINE P(j) == ScreenShows(it[1..(a + j)], SubSeq(Q, 1, j))
<1>3. P(0)
  <2>1. SubSeq(Q, 1, 0) = <<>> /\ a + 0 = a
    BY <1>1, GlyphPlaces
  <2>2. CASE a = 0
    <3>1. pre = <<>> /\ 1..a = {}
      BY <2>2
    <3>2. ScreenShows(sc, <<>>)
      BY <3>1 DEF Ended
    <3> HIDE DEF a
    <3> QED BY <1>2, <2>1, <3>1, <3>2
  <2>3. CASE a # 0
    <3>1. pre # <<>> /\ a \in 1..a /\ a \in 1..Len(m) /\ a - 1 \in 0..Len(m)
      BY <1>1, <2>3
    <3>2. m[a] = NL
      BY <1>0, <3>1, GlyphPlaces DEF Ended
    <3> HIDE DEF a
    <3>3. it[1..a] = scr_be_write(it[1..(a - 1)], NL) /\ it[1..(a - 1)] \in Screens
      <4>1. 1..(a - 1) \in SUBSET (1..Len(m))
        BY <1>1, <3>1
      <4> QED BY <1>2, <3>1, <3>2, <4>1
    <3> QED BY <2>1, <3>3, ScreenStarts
  <2> QED BY <2>2, <2>3
<1>4. ASSUME NEW j \in 1..n, P(j - 1) PROVE P(j)
  <2>1. /\ m[a + j] = Q[j] /\ Q[j] \in Glyphs
        /\ SubSeq(Q, 1, j) = Append(SubSeq(Q, 1, j - 1), Q[j])
        /\ SubSeq(Q, 1, j - 1) \in Seq(V)
    <3>1. j - 1 \in 0..n
      BY <1>1
    <3> QED BY <1>0, <3>1, GlyphPlaces
  <2>2. a + j \in 1..Len(m) /\ (a + j) - 1 = a + (j - 1) /\ a + (j - 1) \in 0..Len(m)
    BY <1>1
  <2> HIDE DEF a, n
  <2>3. it[1..(a + j)] = scr_be_write(it[1..(a + (j - 1))], Q[j])
    BY <1>2, <2>1, <2>2
  <2>4. it[1..(a + (j - 1))] \in Screens
    <3>1. 1..(a + (j - 1)) \in SUBSET (1..Len(m))
      BY <2>2
    <3> QED BY <1>2, <3>1
  <2> QED BY <1>4, <2>1, <2>3, <2>4, ScreenTypes
<1>5. P(n)
  <2> DEFINE Bad == {j \in 0..n : ~P(j)}
  <2> SUFFICES ASSUME Bad # {} PROVE FALSE
    BY <1>1
  <2>1. PICK j \in Bad : \A i \in Bad : j <= i
    <3>1. Bad \in SUBSET Nat /\ Bad # {}
      BY <1>1
    <3> HIDE DEF Bad
    <3> QED BY <3>1, Least
  <2>2. j \in 0..n /\ ~P(j)
    OBVIOUS
  <2> HIDE DEF P, n
  <2>3. j \in 1..n /\ j - 1 \in 0..n /\ ~(j <= j - 1)
    BY <1>1, <1>3, <2>2
  <2>4. P(j - 1)
    BY <2>1, <2>3
  <2> QED BY <1>4, <2>2, <2>3, <2>4
<1>6. Printed(sc, m) = it[1..(a + n)] /\ it[1..(a + n)] \in Screens
  BY <1>1, <1>2
<1>7. SubSeq(Q, 1, n) = Q
  BY GlyphPlaces
<1> HIDE DEF a, n
<1> QED BY <1>0, <1>5, <1>6, <1>7, Zenon

\* So does the last line of the terminal.
LEMMA TermGlyphs ==
  ASSUME NEW V, Glyphs \subseteq V, NEW Q \in Seq(Glyphs), NEW t \in Lines(V), NEW pre \in Seq(V),
         (pre = <<>> /\ TermShows(t, <<>>)) \/ pre \in Ended(V)
  PROVE  /\ Fed(t, pre \o Q) \in Lines(V)
         /\ TermShows(Fed(t, pre \o Q), Q)
<1> DEFINE a == Len(pre)
           n == Len(Q)
<1>0. PICK m : m = pre \o Q
  OBVIOUS
<1>1. m \in Seq(V) /\ Len(m) = a + n /\ a \in Nat /\ n \in Nat
  BY <1>0, GlyphPlaces
<1>9. PICK it : Receives(it, V, t, m)
  BY <1>1, TermSteps
<1>2. /\ it \in [SUBSET (1..Len(m)) -> Lines(V)]
      /\ it[{}] = t /\ Fed(t, m) = it[1..Len(m)]
      /\ \A k \in 1..Len(m) : it[1..k] = Show(it[1..(k - 1)], m[k])
  BY <1>9 DEF Receives
<1> DEFINE P(j) == TermShows(it[1..(a + j)], SubSeq(Q, 1, j))
<1>3. P(0)
  <2>1. SubSeq(Q, 1, 0) = <<>> /\ a + 0 = a
    BY <1>1, GlyphPlaces
  <2>2. CASE a = 0
    <3>1. pre = <<>> /\ 1..a = {}
      BY <2>2
    <3>2. TermShows(t, <<>>)
      BY <3>1 DEF Ended
    <3> HIDE DEF a
    <3> QED BY <1>2, <2>1, <3>1, <3>2
  <2>3. CASE a # 0
    <3>1. pre # <<>> /\ a \in 1..a /\ a \in 1..Len(m) /\ a - 1 \in 0..Len(m)
      BY <1>1, <2>3
    <3>2. m[a] = NL
      BY <1>0, <3>1, GlyphPlaces DEF Ended
    <3> HIDE DEF a
    <3>3. it[1..a] = Show(it[1..(a - 1)], NL)
      BY <1>1, <1>2, <3>1, <3>2
    <3>4. it[1..a] = EmptyLine
      BY <3>3, ShowIs
    <3> QED BY <2>1, <3>4, TermStarts
  <2> QED BY <2>2, <2>3
<1>4. ASSUME NEW j \in 1..n, P(j - 1) PROVE P(j)
  <2>1. /\ m[a + j] = Q[j] /\ Q[j] \in Glyphs
        /\ SubSeq(Q, 1, j) = Append(SubSeq(Q, 1, j - 1), Q[j])
        /\ SubSeq(Q, 1, j - 1) \in Seq(V)
    <3>1. j - 1 \in 0..n
      BY <1>1
    <3> QED BY <1>0, <3>1, GlyphPlaces
  <2>2. a + j \in 1..Len(m) /\ (a + j) - 1 = a + (j - 1) /\ a + (j - 1) \in 0..Len(m)
    BY <1>1
  <2> HIDE DEF a, n
  <2>3. it[1..(a + j)] = Show(it[1..(a + (j - 1))], Q[j])
    BY <1>2, <2>1, <2>2
  <2>4. it[1..(a + (j - 1))] \in Lines(V)
    <3>1. 1..(a + (j - 1)) \in SUBSET (1..Len(m))
      BY <2>2
    <3> QED BY <1>2, <3>1
  <2> QED BY <1>4, <2>1, <2>3, <2>4, TermTypes
<1>5. P(n)
  <2> DEFINE Bad == {j \in 0..n : ~P(j)}
  <2> SUFFICES ASSUME Bad # {} PROVE FALSE
    BY <1>1
  <2>1. PICK j \in Bad : \A i \in Bad : j <= i
    <3>1. Bad \in SUBSET Nat /\ Bad # {}
      BY <1>1
    <3> HIDE DEF Bad
    <3> QED BY <3>1, Least
  <2>2. j \in 0..n /\ ~P(j)
    OBVIOUS
  <2> HIDE DEF P, n
  <2>3. j \in 1..n /\ j - 1 \in 0..n /\ ~(j <= j - 1)
    BY <1>1, <1>3, <2>2
  <2>4. P(j - 1)
    BY <2>1, <2>3
  <2> QED BY <1>4, <2>2, <2>3, <2>4
<1>6. Fed(t, m) = it[1..(a + n)] /\ it[1..(a + n)] \in Lines(V)
  BY <1>1, <1>2
<1>7. SubSeq(Q, 1, n) = Q
  BY GlyphPlaces
<1> HIDE DEF a, n
<1> QED BY <1>0, <1>5, <1>6, <1>7, Zenon

\* What is printed, whatever it is, leaves a screen and a line.
LEMMA TextTypes ==
  ASSUME NEW V, NEW sc \in Screens, NEW t \in Lines(V), NEW m \in Seq(V)
  PROVE  Printed(sc, m) \in Screens /\ Fed(t, m) \in Lines(V)
<1>1. PICK it : Prints(it, sc, m)
  BY ScreenSteps
<1>2. PICK jt : Receives(jt, V, t, m)
  BY TermSteps
<1>3. 1..Len(m) \in SUBSET (1..Len(m))
  OBVIOUS
<1> QED BY <1>1, <1>2, <1>3 DEF Prints, Receives

\* Nothing that is printed leaves them as they are.
LEMMA NothingPrinted ==
  ASSUME NEW V, NEW sc \in Screens, NEW t \in Lines(V)
  PROVE  Fed(t, <<>>) = t /\ Printed(sc, <<>>) = sc
<1>1. <<>> \in Seq(V) /\ Len(<<>>) = 0 /\ 1..0 = {}
  OBVIOUS
<1>2. PICK it : Prints(it, sc, <<>>)
  BY <1>1, ScreenSteps
<1>3. PICK jt : Receives(jt, V, t, <<>>)
  BY <1>1, TermSteps
<1> QED BY <1>1, <1>2, <1>3, Zenon DEF Prints, Receives

\* A text of one character
LEMMA ShortTexts ==
  ASSUME NEW V, NEW sc \in Screens, NEW t \in Lines(V), NEW c \in V
  PROVE  /\ Printed(sc, <<c>>) = scr_be_write(sc, c)
         /\ Fed(t, <<c>>) = Show(t, c)
<1>0. 1..0 = {}
  OBVIOUS
<1>1. Printed(sc, <<c>>) = scr_be_write(sc, c)
  <2>1. PICK m : m = <<c>>
    OBVIOUS
  <2>2. m \in Seq(V) /\ Len(m) = 1 /\ m[1] = c
    BY <2>1
  <2>3. PICK it : Prints(it, sc, m)
    BY <2>2, ScreenSteps
  <2>4. it[{}] = sc /\ Printed(sc, m) = it[1..1] /\ it[1..1] = scr_be_write(it[1..0], c)
    <3>1. 1 \in 1..1 /\ 1 - 1 = 0
      OBVIOUS
    <3> QED BY <2>2, <2>3, <3>1 DEF Prints
  <2> QED BY <1>0, <2>1, <2>4, Zenon
<1>2. Fed(t, <<c>>) = Show(t, c)
  <2>1. PICK m : m = <<c>>
    OBVIOUS
  <2>2. m \in Seq(V) /\ Len(m) = 1 /\ m[1] = c
    BY <2>1
  <2>3. PICK it : Receives(it, V, t, m)
    BY <2>2, TermSteps
  <2>4. it[{}] = t /\ Fed(t, m) = it[1..1] /\ it[1..1] = Show(it[1..0], c)
    <3>1. 1 \in 1..1 /\ 1 - 1 = 0
      OBVIOUS
    <3> QED BY <2>2, <2>3, <3>1 DEF Receives
  <2> QED BY <1>0, <2>1, <2>4, Zenon
<1> QED BY <1>1, <1>2

\* The text that erases
LEMMA ErasingText ==
  ASSUME NEW V, NEW t \in Lines(V), BS \in V, Space \in V
  PROVE  Fed(t, <<BS, Space, BS>>) = Show(Show(Show(t, BS), Space), BS)
<1>5. 1..0 = {}
  OBVIOUS
<1>1. PICK m : m = <<BS, Space, BS>>
  OBVIOUS
<1>2. m \in Seq(V) /\ Len(m) = 3 /\ m[1] = BS /\ m[2] = Space /\ m[3] = BS
  BY <1>1
<1>3. PICK it : Receives(it, V, t, m)
  BY <1>2, TermSteps
<1>4. /\ it[{}] = t /\ Fed(t, m) = it[1..3] /\ it[1..1] = Show(it[1..0], BS)
      /\ it[1..2] = Show(it[1..1], Space) /\ it[1..3] = Show(it[1..2], BS)
  <2>1. 1 \in 1..3 /\ 2 \in 1..3 /\ 3 \in 1..3 /\ 1 - 1 = 0 /\ 2 - 1 = 1 /\ 3 - 1 = 2
    OBVIOUS
  <2> QED BY <1>2, <1>3, <2>1 DEF Receives
<1> QED BY <1>5, <1>1, <1>4, Zenon

(***************************************************************************)
(* What a command prints                                                   *)
(***************************************************************************)

\* The first of some places, or one past all of them
LEMMA FirstType ==
  ASSUME NEW n \in Nat, NEW S \in SUBSET (1..n)
  PROVE  FirstOr(S, n + 1) \in 1..(n + 1)
<1> DEFINE T == S \cup {n + 1}
<1>1. T \in SUBSET (1..(n + 1)) /\ T \in SUBSET Nat /\ T # {}
  OBVIOUS
<1> HIDE DEF T
<1>2. \E x \in T : \A y \in T : x =< y
  BY <1>1, Least
<1>3. Min(T) \in T
  BY <1>2, Zenon DEF Min
<1> QED BY <1>1, <1>3, Zenon DEF FirstOr, T

\* A part of a text is of the same characters.
LEMMA PartType ==
  ASSUME NEW V, NEW s \in Seq(V), NEW a \in Nat \ {0}, NEW b \in Nat, b <= Len(s)
  PROVE  SubSeq(s, a, b) \in Seq(V)
<1>1. CASE a > b
  <2>1. SubSeq(s, a, b) = <<>>
    BY <1>1
  <2> QED BY <2>1
<1>2. CASE ~(a > b)
  BY <1>2
<1> QED BY <1>1, <1>2

\* The command is a part of the line, and its argument a part of the command.
LEMMA CommandType ==
  ASSUME NEW V, NEW s \in Seq(V)
  PROVE  Stripped(CString(s)) \in Seq(V)
<1>1. ASSUME NEW u \in Seq(V) PROVE CString(u) \in Seq(V) /\ Stripped(u) \in Seq(V)
  <2>1. Len(u) \in Nat
    OBVIOUS
  <2> DEFINE S == {i \in 1..Len(u) : u[i] = NUL}
             T == {i \in 1..Len(u) : u[i] # Space}
  <2>2. S \in SUBSET (1..Len(u)) /\ T \in SUBSET (1..Len(u))
    OBVIOUS
  <2>3. PICK x \in 1..(Len(u) + 1) : x = FirstOr(S, Len(u) + 1)
    <3> HIDE DEF S
    <3> QED BY <2>1, <2>2, FirstType
  <2>4. PICK y \in 1..(Len(u) + 1) : y = FirstOr(T, Len(u) + 1)
    <3> HIDE DEF T
    <3> QED BY <2>1, <2>2, FirstType
  <2>5. CString(u) = SubSeq(u, 1, x - 1)
    BY <2>3, Zenon DEF CString
  <2>6. Stripped(u) = SubSeq(u, y, Len(u))
    BY <2>4, Zenon DEF Stripped
  <2>7. 1 \in Nat \ {0} /\ x - 1 \in Nat /\ x - 1 <= Len(u) /\ y \in Nat \ {0} /\ Len(u) <= Len(u)
    BY <2>1
  <2> HIDE DEF S, T
  <2> QED BY <2>1, <2>5, <2>6, <2>7, PartType
<1> QED BY <1>1

\* A text that ends a line still does with another one before it.
LEMMA Endings ==
  ASSUME NEW V, NEW u \in Seq(V), NEW e \in Ended(V)
  PROVE  u \o e \in Ended(V)
<1>1. e \in Seq(V) /\ e # <<>> /\ e[Len(e)] = NL /\ Len(e) \in Nat /\ Len(u) \in Nat
  BY DEF Ended
<1>2. Len(e) # 0
  BY <1>1
<1>3. u \o e \in Seq(V) /\ Len(u \o e) = Len(u) + Len(e)
  BY <1>1
<1>4. (u \o e)[Len(u) + Len(e)] = e[Len(e)]
  BY <1>1, <1>2
<1>5. u \o e # <<>>
  BY <1>1, <1>2, <1>3
<1> QED BY <1>1, <1>3, <1>4, <1>5 DEF Ended

\* Texts of some characters are texts of more.
LEMMA MoreCharacters ==
  ASSUME NEW V, NEW W, V \subseteq W
  PROVE  Seq(V) \subseteq Seq(W) /\ Ended(V) \subseteq Ended(W)
         /\ (NL \in V => <<NL>> \in Ended(V))
<1>1. Seq(V) \subseteq Seq(W)
  OBVIOUS
<1>2. Ended(V) \subseteq Ended(W)
  BY <1>1 DEF Ended
<1>3. NL \in V => <<NL>> \in Ended(V)
  BY DEF Ended
<1> QED BY <1>1, <1>2, <1>3

\* hex prints a line: the digits are of HexDigit, whatever they are.
LEMMA HexEnds ==
  ASSUME NEW arg
  PROVE  \E V : Chars \subseteq V /\ cmd_hex(arg) \in Ended(V)
<1>1. PICK val : cmd_hex(arg) =
        ZeroX \o [i \in 1..WIDTH |-> HexDigit[(val \div (NIBBLE ^ (WIDTH - i))) % NIBBLE]] \o <<NL>>
  BY Zenon DEF cmd_hex
<1> DEFINE h == [i \in 1..WIDTH |-> HexDigit[(val \div (NIBBLE ^ (WIDTH - i))) % NIBBLE]]
           V == Chars \cup {h[i] : i \in 1..WIDTH}
<1>2. PICK g : g = h
  OBVIOUS
<1>3. g = [i \in 1..WIDTH |-> g[i]]
  <2>1. g = [i \in 1..WIDTH |-> h[i]]
    BY <1>2
  <2> HIDE DEF h
  <2> QED BY <1>2, <2>1
<1> HIDE DEF h
<1>4. g \in Seq(V)
  <2>1. \A i \in 1..WIDTH : g[i] \in V
    BY <1>2
  <2>2. WIDTH \in Nat
    BY TextAssumption
  <2> HIDE DEF V
  <2> QED BY <1>3, <2>1, <2>2
<1>5. Chars \subseteq V /\ NL \in V /\ ZeroX \in Seq(V)
  <2>1. Chars \subseteq V /\ NL \in V
    BY DEF Chars
  <2>2. ZeroX \in Seq(Chars)
    BY TextAssumption
  <2> HIDE DEF V
  <2> QED BY <2>1, <2>2, MoreCharacters
<1> HIDE DEF V
<1>6. ZeroX \o g \in Seq(V) /\ <<NL>> \in Ended(V)
  BY <1>4, <1>5, MoreCharacters
<1>7. ZeroX \o g \o <<NL>> \in Ended(V)
  BY <1>6, Endings
<1> QED BY <1>1, <1>2, <1>5, <1>7, Zenon DEF h

\* The argument of echo is a part of the line.
LEMMA AfterType ==
  ASSUME NEW V, NEW p \in Seq(Chars), NEW cmd \in Seq(V)
  PROVE  After(p, cmd) \in Seq(V)
<1>1. Len(p) + 1 \in Nat \ {0} /\ Len(cmd) \in Nat /\ Len(cmd) <= Len(cmd)
  OBVIOUS
<1> QED BY <1>1, PartType DEF After

\* Whatever a command prints ends its line, behind the '\n' of Enter.
LEMMA OutputEnds ==
  ASSUME NEW cmd \in Seq(Chars)
  PROVE  \E V : Chars \subseteq V /\ <<NL>> \o Output(cmd) \in Ended(V)
<1>0. /\ NL \in Chars /\ <<NL>> \in Ended(Chars) /\ <<NL>> \in Seq(Chars)
      /\ UnknownText \in Seq(Chars) /\ EchoPrefix \in Seq(Chars)
      /\ TypeHelp \in Ended(Chars) /\ Switching \in Ended(Chars)
      /\ \A c \in DOMAIN Commands : Commands[c] \in Ended(Chars)
  <2>1. NL \in Chars
    BY DEF Chars
  <2>2. <<NL>> \in Ended(Chars) /\ <<NL>> \in Seq(Chars)
    BY <2>1, MoreCharacters
  <2> QED BY <2>1, <2>2, TextAssumption
<1>1. ASSUME NEW V, NL \in V, Output(cmd) \in Ended(V) PROVE <<NL>> \o Output(cmd) \in Ended(V)
  <2>1. <<NL>> \in Seq(V)
    BY <1>1
  <2> QED BY <1>1, <2>1, Endings
<1>2. CASE cmd \in {<<>>, TestCommand}
  <2>1. Output(cmd) = <<>>
    BY <1>2, Zenon DEF Output
  <2>2. <<NL>> \o <<>> = <<NL>>
    OBVIOUS
  <2>3. <<NL>> \o Output(cmd) \in Ended(Chars)
    BY <1>0, <2>1, <2>2
  <2> QED BY <2>3, Zenon
<1>3. CASE cmd \notin {<<>>, TestCommand} /\ cmd \in DOMAIN Commands
  <2>1. Output(cmd) = Commands[cmd]
    BY <1>3, Zenon DEF Output
  <2>2. Output(cmd) \in Ended(Chars)
    BY <1>0, <1>3, <2>1
  <2> QED BY <1>0, <1>1, <2>2, Zenon
<1>4. CASE cmd \notin {<<>>, TestCommand} /\ cmd \notin DOMAIN Commands /\ cmd = GdbCommand
  <2>1. Output(cmd) = Switching
    BY <1>4, Zenon DEF Output
  <2>2. Output(cmd) \in Ended(Chars)
    BY <1>0, <2>1
  <2> QED BY <1>0, <1>1, <2>2, Zenon
<1>5. CASE /\ cmd \notin {<<>>, TestCommand} /\ cmd \notin DOMAIN Commands /\ cmd # GdbCommand
           /\ IsPrefix(EchoPrefix, cmd)
  <2>1. Output(cmd) = After(EchoPrefix, cmd) \o <<NL>>
    BY <1>5, Zenon DEF Output
  <2>2. Output(cmd) \in Ended(Chars)
    BY <1>0, <2>1, AfterType, Endings
  <2> QED BY <1>0, <1>1, <2>2, Zenon
<1>6. CASE /\ cmd \notin {<<>>, TestCommand} /\ cmd \notin DOMAIN Commands /\ cmd # GdbCommand
           /\ ~IsPrefix(EchoPrefix, cmd) /\ IsPrefix(HexPrefix, cmd)
  <2>1. Output(cmd) = cmd_hex(After(HexPrefix, cmd))
    BY <1>6, Zenon DEF Output
  <2>2. PICK V : Chars \subseteq V /\ Output(cmd) \in Ended(V)
    BY <2>1, HexEnds
  <2> QED BY <1>0, <1>1, <2>2
<1>7. CASE /\ cmd \notin {<<>>, TestCommand} /\ cmd \notin DOMAIN Commands /\ cmd # GdbCommand
           /\ ~IsPrefix(EchoPrefix, cmd) /\ ~IsPrefix(HexPrefix, cmd)
  <2>1. Output(cmd) = UnknownText \o cmd \o TypeHelp
    BY <1>7, Zenon DEF Output
  <2>2. UnknownText \o cmd \in Seq(Chars)
    BY <1>0
  <2>3. Output(cmd) \in Ended(Chars)
    BY <1>0, <2>1, <2>2, Endings
  <2> QED BY <1>0, <1>1, <2>3, Zenon
<1> QED BY <1>2, <1>3, <1>4, <1>5, <1>6, <1>7, Zenon

\* What is seen of a line does not depend on the blanks that follow.
LEMMA TrimmedSame ==
  ASSUME NEW V, NEW l \in Seq(V), NEW s \in Seq(V), Len(s) <= Len(l),
         \A i \in 1..Len(s) : l[i] = s[i],
         \A i \in (Len(s) + 1)..Len(l) : l[i] = Space
  PROVE  Trimmed(l) = Trimmed(s)
<1> DEFINE ink == {i \in 1..Len(s) : s[i] # Space}
<1>1. Len(s) \in Nat /\ Len(l) \in Nat
  OBVIOUS
<1>2. {i \in 1..Len(l) : l[i] # Space} = ink
  BY <1>1
<1>3. CASE ink = {}
  BY <1>2, <1>3, Zenon DEF Trimmed
<1>4. CASE ink # {}
  <2>1. ink \in SUBSET (1..Len(s))
    OBVIOUS
  <2> HIDE DEF ink
  <2>2. \E i \in ink : \A j \in ink : j <= i
    BY <1>1, <1>4, <2>1, LastPlace
  <2>3. PICK x : x = (CHOOSE i \in ink : \A j \in ink : j <= i) /\ x \in ink
    BY <2>2, Zenon
  <2>4. Trimmed(l) = SubSeq(l, 1, x) /\ Trimmed(s) = SubSeq(s, 1, x)
    <3>1. Trimmed(l) = SubSeq(l, 1, x)
      BY <1>2, <1>4, <2>3, Zenon DEF Trimmed
    <3>2. Trimmed(s) = SubSeq(s, 1, x)
      BY <1>4, <2>3, Zenon DEF Trimmed, ink
    <3> QED BY <3>1, <3>2
  <2>5. x \in 1..Len(s) /\ x \in Nat /\ x <= Len(l)
    <3>1. x \in 1..Len(s)
      BY <2>1, <2>3, Zenon
    <3> QED BY <1>1, <3>1
  <2>6. SubSeq(l, 1, x) = SubSeq(s, 1, x)
    BY <1>1, <2>5
  <2> QED BY <2>4, <2>6
<1> QED BY <1>3, <1>4

(***************************************************************************)
(* The invariant                                                           *)
(***************************************************************************)

\* Since the last prompt the terminal and the screen read the prompt and the line.
Reads ==
  cli_active /\ ~disturbed /\ ~hidden =>
    /\ cli_buf \in Seq(Glyphs)
    /\ TermShows(term, Shown)
    /\ ~erased => ScreenShows(scr, Shown)

Types ==
  /\ cli_buf \in Seq(Glyphs \cup Unseen) /\ Len(cli_buf) <= CLI_BUF_SIZE - 1
  /\ {cli_active, disturbed, erased, hidden} \subseteq BOOLEAN
  /\ bar \in Bars /\ term \in Lines(Chars) /\ scr \in Screens

IInv == Types /\ Reads

\* The screen as it starts, and a line over more characters
LEMMA Starts ==
  /\ EmptyScreen \in Screens /\ ScreenShows(EmptyScreen, <<>>)
  /\ \A V : EmptyLine \in Lines(V)
  /\ \A V : Chars \subseteq V => Lines(Chars) \subseteq Lines(V)
<1>1. EmptyScreen \in Screens
  <2>1. 0 \in RowNos /\ 0 \in ColNos
    BY GridAssumption DEF RowNos, ColNos
  <2> QED BY <2>1 DEF EmptyScreen, At, Screens
<1>2. ScreenShows(EmptyScreen, <<>>)
  BY DEF ScreenShows, EmptyScreen, At
<1>3. ASSUME NEW V PROVE EmptyLine \in Lines(V)
  <2>1. <<>> \in Seq(V) /\ 0 \in Nat /\ 0 <= Len(<<>>)
    OBVIOUS
  <2> QED BY <2>1, LineMade DEF EmptyLine
<1>4. ASSUME NEW V, Chars \subseteq V, NEW t \in Lines(Chars) PROVE t \in Lines(V)
  <2>1. t.line \in Seq(Chars) /\ t.cur \in Nat /\ t.cur <= Len(t.line)
    BY LineParts
  <2>2. t.line \in Seq(V)
    BY <1>4, <2>1, MoreCharacters
  <2>3. t = [line |-> t.line, cur |-> t.cur]
    BY DEF Lines
  <2> QED BY <2>1, <2>2, <2>3, LineMade
<1> QED BY <1>1, <1>2, <1>3, <1>4

\* The characters of the texts
LEMMA Alphabet ==
  /\ Glyphs \subseteq Chars /\ Unseen \subseteq Chars /\ NL \in Chars /\ BS \in Chars
  /\ Space \in Glyphs /\ Prompt \in Seq(Glyphs) /\ Prompt \in Seq(Chars)
  /\ Prompt \o <<>> = Prompt /\ <<>> \o Prompt = Prompt
<1>1. Glyphs \subseteq Chars /\ Unseen \subseteq Chars /\ NL \in Chars /\ BS \in Chars
  BY DEF Chars
<1>2. Prompt \in Seq(Glyphs) /\ Prompt \in Seq(Chars)
  BY <1>1, PromptAssumption, MoreCharacters
<1> QED BY <1>1, <1>2, GlyphAssumption

\* Glyphs behind a text that ends a line, or on an empty one, are what is read.
LEMMA TermReads ==
  ASSUME NEW V, Chars \subseteq V, NEW Q \in Seq(Glyphs), NEW t \in Lines(Chars),
         NEW p, (p = <<>> /\ t = EmptyLine) \/ p \in Ended(V)
  PROVE  Fed(t, p \o Q) \in Lines(Chars) /\ TermShows(Fed(t, p \o Q), Q)
<1>1. t \in Lines(V) /\ Glyphs \subseteq V /\ Space \in Glyphs /\ Glyphs \subseteq Chars
  BY Starts, Alphabet
<1>2. p \in Seq(V)
  <2>1. <<>> \in Seq(V)
    OBVIOUS
  <2> QED BY <2>1 DEF Ended
<1>3. (p = <<>> /\ TermShows(t, <<>>)) \/ p \in Ended(V)
  BY TermStarts
<1>4. PICK u : u = Fed(t, p \o Q)
  OBVIOUS
<1>5. u \in Lines(V) /\ TermShows(u, Q)
  BY <1>1, <1>2, <1>3, <1>4, TermGlyphs
<1>6. Q \in Seq(Chars) /\ Space \in Chars
  BY <1>1
<1>7. u \in Lines(Chars)
  BY <1>5, <1>6, TermHolds
<1> QED BY <1>4, <1>5, <1>7

LEMMA ScreenReads ==
  ASSUME NEW V, Chars \subseteq V, NEW Q \in Seq(Glyphs), NEW sc \in Screens,
         NEW q, (q = <<>> /\ sc = EmptyScreen) \/ q \in Ended(V)
  PROVE  Printed(sc, q \o Q) \in Screens /\ ScreenShows(Printed(sc, q \o Q), Q)
<1>1. Glyphs \subseteq V
  BY Alphabet
<1>2. q \in Seq(V)
  <2>1. <<>> \in Seq(V)
    OBVIOUS
  <2> QED BY <2>1 DEF Ended
<1>3. (q = <<>> /\ ScreenShows(sc, <<>>)) \/ q \in Ended(V)
  BY Starts
<1> QED BY <1>1, <1>2, <1>3, ScreenGlyphs

(***************************************************************************)
(* What is printed while an abort may come                                 *)
(***************************************************************************)

\* The trace of an abort in place of a character on the terminal, and before it on
\* the screen
CutBy(s, m, k, t, a, b, c) ==
  /\ a = SubSeq(s, 1, k - 1) /\ b = SubSeq(s, k + 1, Len(s)) /\ c = SubSeq(s, k, Len(s))
  /\ m.term = a \o t.term \o b /\ m.scr = a \o t.scr \o c
IsCut(V, s, m) ==
  \E k \in 1..Len(s), t \in AbortTraces, a \in Seq(V), b \in Seq(V), c \in Seq(V) :
    CutBy(s, m, k, t, a, b, c)

\* A text comes out whole or so cut.
LEMMA PutsParts ==
  ASSUME NEW V, NEW s \in Seq(V), NEW m \in puts(s)
  PROVE  m = Whole(s) \/ IsCut(V, s, m)
<1>1. m = Whole(s) \/ \E k \in 1..Len(s), t \in AbortTraces : m = Aborted(s, k, t)
  BY DEF puts
<1>2. ASSUME NEW k \in 1..Len(s), NEW t \in AbortTraces, m = Aborted(s, k, t)
      PROVE  IsCut(V, s, m)
  <2>0. /\ k \in Nat \ {0} /\ k + 1 \in Nat \ {0} /\ k - 1 \in Nat /\ k - 1 <= Len(s)
        /\ 1 \in Nat \ {0} /\ Len(s) \in Nat /\ Len(s) <= Len(s)
    BY <1>2
  <2>1. PICK a \in Seq(V) : a = SubSeq(s, 1, k - 1)
    BY <2>0, PartType
  <2>2. PICK b \in Seq(V) : b = SubSeq(s, k + 1, Len(s))
    BY <2>0, PartType
  <2>3. PICK c \in Seq(V) : c = SubSeq(s, k, Len(s))
    BY <2>0, PartType
  <2>4. m = [term |-> a \o t.term \o b, scr |-> a \o t.scr \o c]
    BY <1>2, <2>1, <2>2, <2>3, Zenon DEF Aborted
  <2>5. m.term = a \o t.term \o b /\ m.scr = a \o t.scr \o c
    BY <2>4, Zenon
  <2>6. CutBy(s, m, k, t, a, b, c)
    BY <2>1, <2>2, <2>3, <2>5, Zenon DEF CutBy
  <2> QED BY <2>6, Zenon DEF IsCut
<1> QED BY <1>1, <1>2, Zenon

\* What it is made of
LEMMA TraceType ==
  ASSUME NEW V, Chars \subseteq V, NEW a \in Seq(V), NEW t \in AbortTraces
  PROVE  a \o t.term \in Ended(V) /\ a \o t.scr \in Ended(V)
<1>1. t.term \in Ended(Chars) /\ t.scr \in Ended(Chars)
  BY MessageAssumption
<1>2. t.term \in Ended(V) /\ t.scr \in Ended(V)
  BY <1>1, MoreCharacters
<1> QED BY <1>2, Endings

\* It is of the same characters, ...
LEMMA PutsTypes ==
  ASSUME NEW V, Chars \subseteq V, NEW s \in Seq(V), NEW m \in puts(s)
  PROVE  m.term \in Seq(V) /\ m.scr \in Seq(V)
<1>1. CASE m = Whole(s)
  BY <1>1 DEF Whole
<1>2. CASE IsCut(V, s, m)
  <2>1. PICK t \in AbortTraces, a \in Seq(V), b \in Seq(V), c \in Seq(V) :
          m.term = a \o t.term \o b /\ m.scr = a \o t.scr \o c
    BY <1>2, Zenon DEF IsCut, CutBy
  <2>2. PICK u \in Seq(V) : u = a \o t.term
    BY TraceType DEF Ended
  <2>3. PICK v \in Seq(V) : v = a \o t.scr
    BY TraceType DEF Ended
  <2>4. u \o b \in Seq(V) /\ v \o c \in Seq(V)
    OBVIOUS
  <2> QED BY <2>1, <2>2, <2>3, <2>4, Zenon
<1> QED BY <1>1, <1>2, PutsParts, Zenon

\* ... and if the text ends a line, so does what comes out.
LEMMA PutsEnds ==
  ASSUME NEW V, Chars \subseteq V, NEW s \in Ended(V), NEW m \in puts(s)
  PROVE  m.term \in Ended(V) /\ m.scr \in Ended(V)
<1>0. s \in Seq(V) /\ s # <<>> /\ s[Len(s)] = NL /\ Len(s) \in Nat
  BY DEF Ended
<1>1. CASE m = Whole(s)
  BY <1>1 DEF Whole
<1>2. ASSUME NEW j \in 1..Len(s) PROVE SubSeq(s, j, Len(s)) \in Ended(V)
  <2>1. PICK c : c = SubSeq(s, j, Len(s))
    OBVIOUS
  <2>2. Len(c) = Len(s) - j + 1 /\ Len(c) # 0 /\ c \in Seq(V)
    BY <1>0, <1>2, <2>1
  <2>3. c[Len(c)] = s[Len(s)]
    BY <1>0, <1>2, <2>1, <2>2
  <2>4. c # <<>>
    BY <2>2
  <2> QED BY <1>0, <2>1, <2>2, <2>3, <2>4 DEF Ended
<1>3. CASE IsCut(V, s, m)
  <2>1. PICK k \in 1..Len(s), t \in AbortTraces, a \in Seq(V), b \in Seq(V), c \in Seq(V) :
          /\ b = SubSeq(s, k + 1, Len(s)) /\ c = SubSeq(s, k, Len(s))
          /\ m.term = a \o t.term \o b /\ m.scr = a \o t.scr \o c
    BY <1>3, Zenon DEF IsCut, CutBy
  <2>2. PICK u \in Ended(V) : u = a \o t.term
    BY TraceType
  <2>3. PICK v \in Ended(V) : v = a \o t.scr
    BY TraceType
  <2>4. u \in Seq(V) /\ v \in Seq(V)
    BY DEF Ended
  <2>5. c \in Ended(V)
    BY <1>2, <2>1
  <2>6. b = <<>> \/ b \in Ended(V)
    <3>1. CASE k = Len(s)
      BY <1>0, <2>1, <3>1
    <3>2. CASE k # Len(s)
      <4>1. k + 1 \in 1..Len(s)
        BY <1>0, <3>2
      <4> QED BY <1>2, <2>1, <4>1
    <3> QED BY <3>1, <3>2
  <2>7. u \o b \in Ended(V)
    <3>1. CASE b = <<>>
      <4>1. u \o <<>> = u
        BY <2>4
      <4> QED BY <3>1, <4>1
    <3>2. CASE b \in Ended(V)
      BY <2>4, <3>2, Endings
    <3> QED BY <2>6, <3>1, <3>2
  <2>8. v \o c \in Ended(V)
    BY <2>4, <2>5, Endings
  <2> QED BY <2>1, <2>2, <2>3, <2>7, <2>8, Zenon
<1> QED BY <1>0, <1>1, <1>3, PutsParts, Zenon

\* The messages of the demo and of the aborts
LEMMA MessageTypes ==
  ASSUME NEW m \in DemoMessages \cup SwapMessages \cup AbortTraces \cup {Silence}
  PROVE  m.term \in Seq(Chars) /\ m.scr \in Seq(Chars)
<1>1. CASE m = Silence
  <2>1. m.term = <<>> /\ m.scr = <<>>
    BY <1>1 DEF Silence, Whole
  <2>2. <<>> \in Seq(Chars)
    OBVIOUS
  <2> QED BY <2>1, <2>2, Zenon
<1>2. CASE m \in AbortTraces
  <2>1. m.term \in Ended(Chars) /\ m.scr \in Ended(Chars)
    BY <1>2, MessageAssumption
  <2> QED BY <2>1 DEF Ended
<1>3. CASE m \in DemoMessages \cup SwapMessages
  BY <1>3, MessageAssumption, Zenon
<1> QED BY <1>1, <1>2, <1>3

\* A prompt comes out whole, or what is left of it behind a trace.
LEMMA PromptComes ==
  ASSUME NEW p \in puts(Prompt), p # Whole(Prompt)
  PROVE  \E e \in Ended(Chars), f \in Ended(Chars), Q \in Seq(Glyphs), R \in Seq(Glyphs) :
           p.term = e \o Q /\ p.scr = f \o R
<1>1. Prompt \in Seq(Glyphs) /\ Glyphs \subseteq Chars
  BY Alphabet
<1>2. IsCut(Glyphs, Prompt, p)
  BY <1>1, PutsParts
<1>3. PICK t \in AbortTraces, a \in Seq(Glyphs), b \in Seq(Glyphs), c \in Seq(Glyphs) :
        p.term = a \o t.term \o b /\ p.scr = a \o t.scr \o c
  BY <1>2, Zenon DEF IsCut, CutBy
<1>4. a \in Seq(Chars)
  BY <1>1, MoreCharacters
<1>5. a \o t.term \in Ended(Chars) /\ a \o t.scr \in Ended(Chars)
  BY <1>4, TraceType
<1> QED BY <1>3, <1>5, Zenon

\* Three texts in a row
LEMMA Associates ==
  ASSUME NEW V
  PROVE  \A u, v, w \in Seq(V) : (u \o v) \o w = u \o (v \o w)
<1> QED BY ConcatAssociative

\* A new prompt is read, with an empty line behind it, unless an abort fell into it.
LEMMA PromptRead ==
  ASSUME NEW V, Chars \subseteq V, NEW t \in Lines(Chars), NEW sc \in Screens,
         NEW x, (x = <<>> /\ t = EmptyLine) \/ x \in Ended(V),
         NEW y, (y = <<>> /\ sc = EmptyScreen) \/ y \in Ended(V),
         NEW p \in puts(Prompt)
  PROVE  /\ Fed(t, x \o p.term) \in Lines(Chars)
         /\ Printed(sc, y \o p.scr) \in Screens
         /\ p = Whole(Prompt) => /\ TermShows(Fed(t, x \o p.term), Prompt)
                                 /\ ScreenShows(Printed(sc, y \o p.scr), Prompt)
<1>1. CASE p = Whole(Prompt)
  <2>1. p.term = Prompt /\ p.scr = Prompt
    BY <1>1 DEF Whole
  <2>2. Prompt \in Seq(Glyphs)
    BY Alphabet
  <2>3. Fed(t, x \o Prompt) \in Lines(Chars) /\ TermShows(Fed(t, x \o Prompt), Prompt)
    BY <2>2, TermReads
  <2>4. Printed(sc, y \o Prompt) \in Screens /\ ScreenShows(Printed(sc, y \o Prompt), Prompt)
    BY <2>2, ScreenReads
  <2> QED BY <2>1, <2>3, <2>4, Zenon
<1>2. CASE p # Whole(Prompt)
  <2>1. PICK e \in Ended(Chars), f \in Ended(Chars), Q \in Seq(Glyphs), R \in Seq(Glyphs) :
          p.term = e \o Q /\ p.scr = f \o R
    BY <1>2, PromptComes
  <2>2. x \in Seq(V) /\ y \in Seq(V)
    <3>1. <<>> \in Seq(V)
      OBVIOUS
    <3> QED BY <3>1 DEF Ended
  <2>3. e \in Ended(V) /\ f \in Ended(V) /\ e \in Seq(V) /\ f \in Seq(V)
    BY MoreCharacters DEF Ended
  <2>4. Q \in Seq(V) /\ R \in Seq(V)
    BY Alphabet, MoreCharacters
  <2>5. x \o e \in Ended(V) /\ y \o f \in Ended(V)
    BY <2>2, <2>3, Endings
  <2>6. x \o p.term = (x \o e) \o Q /\ y \o p.scr = (y \o f) \o R
    <3>1. \A u, v, w \in Seq(V) : (u \o v) \o w = u \o (v \o w)
      BY Associates
    <3>2. (x \o e) \o Q = x \o (e \o Q)
      BY <2>2, <2>3, <2>4, <3>1, Zenon
    <3>3. (y \o f) \o R = y \o (f \o R)
      BY <2>2, <2>3, <2>4, <3>1, Zenon
    <3> QED BY <2>1, <3>2, <3>3, Zenon
  <2>7. Fed(t, (x \o e) \o Q) \in Lines(Chars)
    BY <2>5, TermReads
  <2>8. Printed(sc, (y \o f) \o R) \in Screens
    BY <2>5, ScreenReads
  <2> QED BY <1>2, <2>6, <2>7, <2>8, Zenon
<1> QED BY <1>1, <1>2

\* So the kernel starts.
LEMMA CliStarts == Init => IInv
<1> SUFFICES ASSUME Init PROVE IInv
  OBVIOUS
<1>1. PICK p \in puts(Prompt) :
        /\ term = Fed(EmptyLine, p.term) /\ scr = Printed(EmptyScreen, p.scr)
        /\ disturbed = (p # Whole(Prompt))
  BY Zenon DEF Init, Fed, Printed
<1>2. /\ cli_buf = <<>> /\ cli_active = TRUE /\ bar = FirstBar
      /\ erased = FALSE /\ hidden = FALSE
  BY Zenon DEF Init
<1>3. /\ term \in Lines(Chars) /\ scr \in Screens
      /\ ~disturbed => TermShows(term, Prompt) /\ ScreenShows(scr, Prompt)
  <2>1. EmptyLine \in Lines(Chars) /\ EmptyScreen \in Screens
    BY Starts
  <2>2. PICK e : e = <<>>
    OBVIOUS
  <2>3. e \o p.term = p.term /\ e \o p.scr = p.scr
    <3>1. Prompt \in Seq(Chars)
      BY Alphabet
    <3>2. p.term \in Seq(Chars) /\ p.scr \in Seq(Chars)
      BY <3>1, PutsTypes
    <3> QED BY <2>2, <3>2
  <2>4. /\ Fed(EmptyLine, e \o p.term) \in Lines(Chars)
        /\ Printed(EmptyScreen, e \o p.scr) \in Screens
        /\ p = Whole(Prompt) => /\ TermShows(Fed(EmptyLine, e \o p.term), Prompt)
                                /\ ScreenShows(Printed(EmptyScreen, e \o p.scr), Prompt)
    BY <2>1, <2>2, PromptRead
  <2> QED BY <1>1, <2>3, <2>4, Zenon
<1>4. Shown = Prompt /\ cli_buf \in Seq(Glyphs)
  BY <1>2, Alphabet DEF Shown
<1>5. bar \in Bars
  <2>1. 0 \in 0..Full
    BY FullAssumption
  <2> QED BY <1>2, <2>1 DEF FirstBar, Bars
<1>6. Len(cli_buf) <= CLI_BUF_SIZE - 1 /\ cli_buf \in Seq(Glyphs \cup Unseen)
  BY <1>2, BufferAssumption
<1>7. {cli_active, disturbed, erased, hidden} \subseteq BOOLEAN
  BY <1>1, <1>2, Zenon
<1>8. Types
  BY <1>3, <1>5, <1>6, <1>7, Zenon DEF Types
<1>9. Reads
  BY <1>3, <1>4, Zenon DEF Reads
<1> QED BY <1>8, <1>9 DEF IInv

\* A new prompt keeps the invariant, whatever text of whole lines comes before it.
LEMMA PromptKeeps ==
  ASSUME NEW V, Chars \subseteq V, NEW m, m.term \in Ended(V), m.scr \in Ended(V), IInv,
         NewPrompt(m), cli_buf' = <<>>, cli_active' \in BOOLEAN, bar' = bar
  PROVE  IInv'
<1>1. term \in Lines(Chars) /\ scr \in Screens /\ bar \in Bars
  BY DEF IInv, Types
<1>2. PICK p \in puts(Prompt) : Out(Then(m, p)) /\ disturbed' = (p # Whole(Prompt))
  BY Zenon DEF NewPrompt
<1>3. term' = Fed(term, m.term \o p.term) /\ scr' = Printed(scr, m.scr \o p.scr)
  <2>1. Then(m, p).term = m.term \o p.term /\ Then(m, p).scr = m.scr \o p.scr
    BY DEF Then
  <2>2. term' = Fed(term, Then(m, p).term) /\ scr' = Printed(scr, Then(m, p).scr)
    BY <1>2, Zenon DEF Out, OnTerm, OnScreen, Fed, Printed
  <2> QED BY <2>1, <2>2, Zenon
<1>4. /\ Fed(term, m.term \o p.term) \in Lines(Chars)
      /\ Printed(scr, m.scr \o p.scr) \in Screens
      /\ p = Whole(Prompt) => /\ TermShows(Fed(term, m.term \o p.term), Prompt)
                              /\ ScreenShows(Printed(scr, m.scr \o p.scr), Prompt)
  <2>1. PICK x \in Ended(V) : x = m.term
    OBVIOUS
  <2>2. PICK y \in Ended(V) : y = m.scr
    OBVIOUS
  <2>3. /\ Fed(term, x \o p.term) \in Lines(Chars)
        /\ Printed(scr, y \o p.scr) \in Screens
        /\ p = Whole(Prompt) => /\ TermShows(Fed(term, x \o p.term), Prompt)
                                /\ ScreenShows(Printed(scr, y \o p.scr), Prompt)
    BY <1>1, PromptRead
  <2> QED BY <2>1, <2>2, <2>3, Zenon
<1>5. Shown' = Prompt /\ cli_buf' \in Seq(Glyphs) /\ cli_buf' \in Seq(Glyphs \cup Unseen)
      /\ Len(cli_buf') <= CLI_BUF_SIZE - 1
  BY Alphabet, BufferAssumption DEF Shown
<1>6. erased' = FALSE /\ hidden' = FALSE
  BY Zenon DEF NewPrompt
<1>7. {cli_active', disturbed', erased', hidden'} \subseteq BOOLEAN
  BY <1>2, <1>6, Zenon
<1>8. Types'
  BY <1>1, <1>3, <1>4, <1>5, <1>7, Zenon DEF Types
<1>9. Reads'
  BY <1>2, <1>3, <1>4, <1>5, Zenon DEF Reads
<1> QED BY <1>8, <1>9 DEF IInv

\* Enter runs the line, whatever that prints.
LEMMA EnterLineKeeps == IInv /\ EnterLine => IInv'
<1> SUFFICES ASSUME IInv, EnterLine PROVE IInv'
  OBVIOUS
<1>1. PICK cmd : cmd = Stripped(CString(cli_buf))
  OBVIOUS
<1>2. PICK m \in puts(<<NL>> \o Output(cmd)),
           report \in IF cmd = TestCommand THEN Reports ELSE {Silence} :
        NewPrompt(Then(m, report))
  BY <1>1, Zenon DEF EnterLine
<1>3. cli_buf' = <<>> /\ cli_active' \in BOOLEAN /\ bar' = bar
  BY Zenon DEF EnterLine
<1>4. cmd \in Seq(Chars)
  <2>1. cli_buf \in Seq(Glyphs \cup Unseen) /\ Glyphs \cup Unseen \subseteq Chars
    BY Alphabet DEF IInv, Types
  <2>2. cli_buf \in Seq(Chars)
    BY <2>1, MoreCharacters
  <2> QED BY <1>1, <2>2, CommandType
<1>5. PICK V : Chars \subseteq V /\ <<NL>> \o Output(cmd) \in Ended(V)
  BY <1>4, OutputEnds
<1>6. m.term \in Ended(V) /\ m.scr \in Ended(V)
  BY <1>5, PutsEnds
<1>7. report.term \in Ended(V) \cup {<<>>} /\ report.scr \in Ended(V) \cup {<<>>}
  <2>1. CASE cmd = TestCommand
    <3>1. report.term \in Ended(Chars) /\ report.scr \in Ended(Chars) \cup {<<>>}
      BY <1>2, <2>1, MessageAssumption
    <3> QED BY <1>5, <3>1, MoreCharacters
  <2>2. CASE cmd # TestCommand
    BY <1>2, <2>2 DEF Silence, Whole
  <2> QED BY <2>1, <2>2
<1>8. ASSUME NEW x \in Ended(V), NEW y \in Ended(V) \cup {<<>>} PROVE x \o y \in Ended(V)
  <2>1. x \in Seq(V)
    BY DEF Ended
  <2>2. CASE y = <<>>
    <3>1. x \o <<>> = x
      BY <2>1
    <3> QED BY <2>2, <3>1
  <2>3. CASE y \in Ended(V)
    BY <2>1, <2>3, Endings
  <2> QED BY <2>2, <2>3
<1>9. PICK n : n = Then(m, report)
  OBVIOUS
<1>10. n.term \in Ended(V) /\ n.scr \in Ended(V)
  <2>1. n.term = m.term \o report.term /\ n.scr = m.scr \o report.scr
    BY <1>9 DEF Then
  <2> QED BY <1>6, <1>7, <1>8, <2>1, Zenon
<1>11. NewPrompt(n)
  BY <1>2, <1>9, Zenon
<1> QED BY <1>3, <1>5, <1>10, <1>11, PromptKeeps

\* An empty line is answered with a prompt.
LEMMA EnterNothingKeeps == IInv /\ EnterNothing => IInv'
<1> SUFFICES ASSUME IInv, EnterNothing PROVE IInv'
  OBVIOUS
<1>1. PICK m \in puts(<<NL>>) : NewPrompt(m)
  BY Zenon DEF EnterNothing
<1>2. m.term \in Ended(Chars) /\ m.scr \in Ended(Chars)
  BY Alphabet, MoreCharacters, PutsEnds
<1>3. cli_buf' = <<>> /\ cli_active' \in BOOLEAN /\ bar' = bar
  <2>1. cli_active \in BOOLEAN
    BY DEF IInv, Types
  <2> QED BY <2>1, Zenon DEF EnterNothing
<1> QED BY <1>1, <1>2, <1>3, PromptKeeps

\* A cancelled line is gone, from cli_buf and from sight.
LEMMA CancelKeeps == IInv /\ CancelLine => IInv'
<1> SUFFICES ASSUME IInv, CancelLine PROVE IInv'
  OBVIOUS
<1>1. PICK m \in puts(Cancelled) : NewPrompt(m)
  BY Zenon DEF CancelLine
<1>2. m.term \in Ended(Chars) /\ m.scr \in Ended(Chars)
  BY TextAssumption, PutsEnds
<1>3. cli_buf' = <<>> /\ cli_active' \in BOOLEAN /\ bar' = bar
  <2>1. cli_active \in BOOLEAN
    BY DEF IInv, Types
  <2> QED BY <2>1, Zenon DEF CancelLine
<1> QED BY <1>1, <1>2, <1>3, PromptKeeps

\* Any text that is printed leaves a line and a screen.
LEMMA OutTypes ==
  ASSUME IInv, NEW m, m.term \in Seq(Chars), m.scr \in Seq(Chars), Out(m)
  PROVE  term' \in Lines(Chars) /\ scr' \in Screens
<1>1. term' = Fed(term, m.term) /\ scr' = Printed(scr, m.scr)
  BY Zenon DEF Out, OnTerm, OnScreen, Fed, Printed
<1>2. term \in Lines(Chars) /\ scr \in Screens
  BY DEF IInv, Types
<1> QED BY <1>1, <1>2, TextTypes

\* An echo leaves a line and a screen; without an abort it is the text itself.
LEMMA EchoPrints ==
  ASSUME IInv, NEW s \in Seq(Chars), Echo(s)
  PROVE  /\ term' \in Lines(Chars) /\ scr' \in Screens /\ disturbed' \in BOOLEAN
         /\ ~disturbed' => ~disturbed /\ term' = Fed(term, s) /\ scr' = Printed(scr, s)
<1>1. PICK m \in puts(s) : Out(m) /\ disturbed' = (disturbed \/ m # Whole(s))
  BY Zenon DEF Echo
<1>2. term' = Fed(term, m.term) /\ scr' = Printed(scr, m.scr)
  BY <1>1, Zenon DEF Out, OnTerm, OnScreen, Fed, Printed
<1>3. m.term \in Seq(Chars) /\ m.scr \in Seq(Chars)
  BY PutsTypes
<1>4. term \in Lines(Chars) /\ scr \in Screens
  BY DEF IInv, Types
<1>5. term' \in Lines(Chars) /\ scr' \in Screens
  BY <1>2, <1>3, <1>4, TextTypes
<1>6. m = Whole(s) => m.term = s /\ m.scr = s
  BY DEF Whole
<1> QED BY <1>1, <1>2, <1>5, <1>6, Zenon

\* A line, and the prompt before it, with a character more
LEMMA Longer ==
  ASSUME NEW V, NEW b \in Seq(V), NEW s \in Seq(V), NEW c \in V
  PROVE  /\ Append(b, c) \in Seq(V) /\ Len(Append(b, c)) = Len(b) + 1 /\ Len(b) \in Nat
         /\ s \o Append(b, c) = Append(s \o b, c) /\ s \o b \in Seq(V)
<1> QED OBVIOUS

\* And with one less
LEMMA Shortened ==
  ASSUME NEW V, NEW b \in Seq(V), b # <<>>, NEW s \in Seq(V)
  PROVE  /\ Front(b) \in Seq(V) /\ Len(Front(b)) = Len(b) - 1 /\ Len(b) \in Nat
         /\ s \o b # <<>> /\ s \o b \in Seq(V) /\ s \o Front(b) = Front(s \o b)
<1>1. Len(b) \in Nat /\ Len(b) > 0 /\ Len(s) \in Nat
  OBVIOUS
<1>2. PICK m \in Nat : m = Len(b) - 1 /\ m + 1 = Len(b) /\ m <= Len(b)
  BY <1>1
<1>3. PICK f : f = SubSeq(b, 1, m)
  OBVIOUS
<1>f. f \in Seq(V) /\ Len(f) = m /\ \A i \in 1..m : f[i] = b[i]
  BY <1>1, <1>2, <1>3
<1>4. Front(b) = f
  BY <1>2, <1>3 DEF Front
<1>5. PICK u : u = s \o b
  OBVIOUS
<1>u. /\ u \in Seq(V) /\ Len(u) = Len(s) + Len(b)
      /\ \A i \in 1..Len(s) : u[i] = s[i]
      /\ \A i \in 1..Len(b) : u[Len(s) + i] = b[i]
  <2>1. ASSUME NEW i \in 1..Len(b) PROVE (s \o b)[Len(s) + i] = b[i]
    <3>1. Len(s) + i \in (Len(s) + 1)..(Len(s) + Len(b)) /\ Len(s) + i - Len(s) = i
      BY <1>1
    <3> QED BY <1>1, <3>1
  <2> QED BY <1>5, <2>1
<1>6. PICK v : v = s \o f
  OBVIOUS
<1>v. /\ v \in Seq(V) /\ Len(v) = Len(s) + m
      /\ \A i \in 1..Len(s) : v[i] = s[i]
      /\ \A i \in 1..m : v[Len(s) + i] = f[i]
  <2>1. ASSUME NEW i \in 1..m PROVE (s \o f)[Len(s) + i] = f[i]
    <3>1. Len(s) + i \in (Len(s) + 1)..(Len(s) + m) /\ Len(s) + i - Len(s) = i
      BY <1>1
    <3> QED BY <1>1, <1>f, <3>1
  <2>2. v \in Seq(V) /\ Len(v) = Len(s) + m /\ \A i \in 1..Len(s) : v[i] = s[i]
    <3>1. /\ s \o f \in Seq(V) /\ Len(s \o f) = Len(s) + Len(f)
          /\ \A i \in 1..Len(s) : (s \o f)[i] = s[i]
      <4>1. s \o f \in Seq(V) /\ Len(s \o f) = Len(s) + Len(f)
        BY <1>f, ConcatProperties, Zenon
      <4>2. \A i \in 1..(Len(s) + Len(f)) :
              (s \o f)[i] = IF i <= Len(s) THEN s[i] ELSE f[i - Len(s)]
        BY <1>f, ConcatProperties, Zenon
      <4>3. \A i \in 1..Len(s) : i \in 1..(Len(s) + Len(f)) /\ i <= Len(s)
        BY <1>1, <1>2, <1>f
      <4> QED BY <4>1, <4>2, <4>3
    <3> QED BY <1>6, <1>f, <3>1
  <2> QED BY <1>6, <2>1, <2>2
<1>7. PICK w : w = SubSeq(u, 1, Len(s) + m)
  OBVIOUS
<1>w. w \in Seq(V) /\ Len(w) = Len(s) + m /\ \A i \in 1..(Len(s) + m) : w[i] = u[i]
  BY <1>1, <1>2, <1>7, <1>u
<1>8. Front(u) = w
  <2>1. Len(u) - 1 = Len(s) + m
    BY <1>1, <1>2, <1>u
  <2> QED BY <1>7, <2>1 DEF Front
<1>9. ASSUME NEW i \in 1..(Len(s) + m) PROVE v[i] = w[i]
  <2>1. CASE i <= Len(s)
    BY <1>1, <1>u, <1>v, <1>w, <2>1
  <2>2. CASE ~(i <= Len(s))
    <3>1. PICK j \in 1..m : i = Len(s) + j
      <4>1. i - Len(s) \in 1..m /\ i = Len(s) + (i - Len(s))
        BY <1>1, <2>2
      <4> QED BY <4>1
    <3>2. v[i] = b[j] /\ w[i] = b[j]
      <4>1. v[i] = b[j]
        BY <1>f, <1>v, <3>1
      <4>2. j \in 1..Len(b)
        BY <1>1, <1>2
      <4>3. w[i] = b[j]
        BY <1>u, <1>w, <3>1, <4>2
      <4> QED BY <4>1, <4>3
    <3> QED BY <3>2
  <2> QED BY <2>1, <2>2
<1>10. v = w
  BY <1>1, <1>v, <1>w, <1>9
<1>11. u # <<>>
  BY <1>1, <1>u
<1> QED BY <1>1, <1>2, <1>3, <1>f, <1>4, <1>5, <1>u, <1>6, <1>8, <1>10, <1>11

\* A backspace takes the last character from the line and from the terminal.
LEMMA EraseKeeps == IInv /\ Erase => IInv'
<1> SUFFICES ASSUME IInv, Erase PROVE IInv'
  OBVIOUS
<1>1. /\ cli_buf # <<>> /\ cli_buf' = Front(cli_buf)
      /\ cli_active' = cli_active /\ bar' = bar
      /\ hidden' = hidden /\ erased' = TRUE
  BY Zenon DEF Erase
<1>2. Echo(<<BS, Space, BS>>)
  BY Zenon DEF Erase
<1>3. /\ cli_buf \in Seq(Glyphs \cup Unseen) /\ Len(cli_buf) <= CLI_BUF_SIZE - 1
      /\ {cli_active, disturbed, erased, hidden} \subseteq BOOLEAN
      /\ bar \in Bars /\ term \in Lines(Chars) /\ scr \in Screens
  BY DEF IInv, Types
<1>4. PICK m \in Seq(Chars) : m = <<BS, Space, BS>>
  <2>1. BS \in Chars /\ Space \in Chars
    BY Alphabet
  <2>2. \A c, d \in Chars : <<c, d, c>> \in Seq(Chars)
    OBVIOUS
  <2> QED BY <2>1, <2>2, Zenon
<1>5. /\ term' \in Lines(Chars) /\ scr' \in Screens /\ disturbed' \in BOOLEAN
      /\ ~disturbed' => ~disturbed /\ term' = Fed(term, m) /\ scr' = Printed(scr, m)
  BY <1>2, <1>4, EchoPrints
<1>6. Prompt \in Seq(Glyphs) /\ Prompt \in Seq(Glyphs \cup Unseen)
  BY Alphabet
<1>7. Types'
  <2>1. Front(cli_buf) \in Seq(Glyphs \cup Unseen) /\ Len(Front(cli_buf)) = Len(cli_buf) - 1
        /\ Len(cli_buf) \in Nat
    BY <1>1, <1>3, <1>6, Shortened
  <2>2. Len(Front(cli_buf)) <= CLI_BUF_SIZE - 1
    BY <1>3, <2>1, BufferAssumption
  <2>3. {cli_active', disturbed', erased', hidden'} \subseteq BOOLEAN
    BY <1>1, <1>3, <1>5, Zenon
  <2> QED BY <1>1, <1>3, <1>5, <2>1, <2>2, <2>3, Zenon DEF Types
<1>8. ASSUME cli_active', ~disturbed', ~hidden'
      PROVE  cli_buf' \in Seq(Glyphs) /\ TermShows(term', Shown')
  <2>1. cli_buf \in Seq(Glyphs) /\ TermShows(term, Shown)
    BY <1>1, <1>5, <1>8, Zenon DEF IInv, Reads
  <2>2. /\ Front(cli_buf) \in Seq(Glyphs) /\ Shown # <<>> /\ Shown \in Seq(Glyphs)
        /\ Shown' = Front(Shown)
    BY <1>1, <1>6, <2>1, Shortened DEF Shown
  <2>3. term' = Show(Show(Show(term, BS), Space), BS)
    <3>1. BS \in Chars /\ Space \in Chars
      BY Alphabet
    <3>2. Fed(term, <<BS, Space, BS>>) = Show(Show(Show(term, BS), Space), BS)
      BY <1>3, <3>1, ErasingText
    <3> QED BY <1>4, <1>5, <1>8, <3>2, Zenon
  <2>4. Shown \in Seq(Chars) /\ BS \in Chars /\ Space \in Chars
    BY <2>2, Alphabet, MoreCharacters
  <2>5. TermShows(Show(Show(Show(term, BS), Space), BS), Front(Shown))
    BY <1>3, <2>1, <2>2, <2>4, TermErases
  <2> QED BY <1>1, <2>2, <2>3, <2>5, Zenon
<1>9. Reads'
  BY <1>1, <1>8, Zenon DEF Reads
<1> QED BY <1>7, <1>9, Zenon DEF IInv

\* A character that is typed goes to the line and, if it is a glyph, in sight.
LEMMA TypeGlyphKeeps ==
  ASSUME NEW c \in Glyphs \cup Unseen, IInv, TypeGlyph(c)
  PROVE  IInv'
<1>1. /\ Len(cli_buf) < CLI_BUF_SIZE - 1 /\ cli_buf' = Append(cli_buf, c)
      /\ cli_active' = cli_active /\ bar' = bar
      /\ hidden' = (hidden \/ c \in Unseen) /\ erased' = erased
  BY Zenon DEF TypeGlyph
<1>2. Echo(<<c>>)
  BY Zenon DEF TypeGlyph
<1>3. /\ cli_buf \in Seq(Glyphs \cup Unseen) /\ Len(cli_buf) <= CLI_BUF_SIZE - 1
      /\ {cli_active, disturbed, erased, hidden} \subseteq BOOLEAN
      /\ bar \in Bars /\ term \in Lines(Chars) /\ scr \in Screens
  BY DEF IInv, Types
<1>4. c \in Chars
  BY Alphabet
<1>5. Fed(term, <<c>>) = Show(term, c) /\ Printed(scr, <<c>>) = scr_be_write(scr, c)
  BY <1>3, <1>4, ShortTexts
<1>6. /\ term' \in Lines(Chars) /\ scr' \in Screens /\ disturbed' \in BOOLEAN
      /\ ~disturbed' => ~disturbed /\ term' = Show(term, c) /\ scr' = scr_be_write(scr, c)
  <2>0. \A d \in Chars : <<d>> \in Seq(Chars)
    OBVIOUS
  <2>1. PICK m \in Seq(Chars) : m = <<c>>
    BY <1>4, <2>0, Zenon
  <2>2. /\ term' \in Lines(Chars) /\ scr' \in Screens /\ disturbed' \in BOOLEAN
        /\ ~disturbed' => ~disturbed /\ term' = Fed(term, m) /\ scr' = Printed(scr, m)
    BY <1>2, <2>1, EchoPrints
  <2> QED BY <1>5, <2>1, <2>2, Zenon
<1>7. Prompt \in Seq(Glyphs) /\ Prompt \in Seq(Glyphs \cup Unseen)
  BY Alphabet
<1>8. Types'
  <2>1. Append(cli_buf, c) \in Seq(Glyphs \cup Unseen)
        /\ Len(Append(cli_buf, c)) = Len(cli_buf) + 1 /\ Len(cli_buf) \in Nat
    BY <1>3, <1>7, Longer
  <2>2. Len(Append(cli_buf, c)) <= CLI_BUF_SIZE - 1
    BY <1>1, <2>1, BufferAssumption
  <2>3. {cli_active', disturbed', erased', hidden'} \subseteq BOOLEAN
    BY <1>1, <1>3, <1>6, Zenon
  <2> QED BY <1>1, <1>3, <1>6, <2>1, <2>2, <2>3, Zenon DEF Types
<1>9. ASSUME cli_active', ~disturbed', ~hidden'
      PROVE  /\ cli_buf' \in Seq(Glyphs) /\ TermShows(term', Shown')
             /\ ~erased' => ScreenShows(scr', Shown')
  <2>1. c \in Glyphs /\ ~hidden
    BY <1>1, <1>9
  <2>2. /\ cli_buf \in Seq(Glyphs) /\ TermShows(term, Shown)
        /\ ~erased => ScreenShows(scr, Shown)
    BY <1>1, <1>6, <1>9, <2>1, Zenon DEF IInv, Reads
  <2>3. /\ Append(cli_buf, c) \in Seq(Glyphs) /\ Shown \in Seq(Glyphs)
        /\ Shown' = Append(Shown, c)
    BY <1>1, <1>7, <2>1, <2>2, Longer DEF Shown
  <2>4. Shown \in Seq(Chars)
    BY <2>3, Alphabet, MoreCharacters
  <2>5. TermShows(Show(term, c), Append(Shown, c))
    BY <1>3, <1>4, <2>1, <2>2, <2>4, TermTypes
  <2>6. ~erased => ScreenShows(scr_be_write(scr, c), Append(Shown, c))
    BY <1>3, <1>4, <2>1, <2>2, <2>4, ScreenTypes
  <2> QED BY <1>1, <1>6, <1>9, <2>3, <2>5, <2>6, Zenon
<1>10. Reads'
  BY <1>9, Zenon DEF Reads
<1> QED BY <1>8, <1>10, Zenon DEF IInv

\* An aborted read prints into the line and reads nothing.
LEMMA ReadGivesUpKeeps == IInv /\ ReadGivesUp => IInv'
<1> SUFFICES ASSUME IInv, ReadGivesUp PROVE IInv'
  OBVIOUS
<1>1. /\ cli_buf' = cli_buf /\ cli_active' = cli_active /\ bar' = bar
      /\ erased' = erased /\ hidden' = hidden /\ disturbed' = TRUE
  BY Zenon DEF ReadGivesUp
<1>2. PICK t \in AbortTraces : Out(t)
  BY Zenon DEF ReadGivesUp
<1>3. t.term \in Seq(Chars) /\ t.scr \in Seq(Chars)
  BY MessageTypes
<1>4. term' \in Lines(Chars) /\ scr' \in Screens
  BY <1>2, <1>3, OutTypes
<1>5. Types'
  BY <1>1, <1>4, Zenon DEF IInv, Types
<1>6. Reads'
  BY <1>1, Zenon DEF Reads
<1> QED BY <1>5, <1>6, Zenon DEF IInv

\* A message disturbs the line; a frame without one does not.
LEMMA DrawKeeps == IInv /\ demo_draw => IInv'
<1> SUFFICES ASSUME IInv, demo_draw PROVE IInv'
  OBVIOUS
<1>1. /\ bar' = NextBar(bar) /\ cli_buf' = cli_buf /\ cli_active' = cli_active
      /\ erased' = erased /\ hidden' = hidden
  BY Zenon DEF demo_draw
<1>2. PICK m \in DemoMessages \cup {Silence}, n \in SwapMessages \cup {Silence} :
        Out(Then(m, n)) /\ disturbed' = (disturbed \/ Then(m, n) # Silence)
  BY Zenon DEF demo_draw
<1>3. /\ cli_buf \in Seq(Glyphs \cup Unseen) /\ Len(cli_buf) <= CLI_BUF_SIZE - 1
      /\ {cli_active, disturbed, erased, hidden} \subseteq BOOLEAN
      /\ bar \in Bars /\ term \in Lines(Chars) /\ scr \in Screens
  BY DEF IInv, Types
<1>4. bar' \in Bars
  BY <1>1, <1>3, BarType
<1>5. PICK o : o = Then(m, n)
  OBVIOUS
<1>6. o.term \in Seq(Chars) /\ o.scr \in Seq(Chars)
  <2>1. m.term \in Seq(Chars) /\ m.scr \in Seq(Chars)
    BY <1>2, MessageTypes
  <2>2. n.term \in Seq(Chars) /\ n.scr \in Seq(Chars)
    BY <1>2, MessageTypes
  <2>3. o.term = m.term \o n.term /\ o.scr = m.scr \o n.scr
    BY <1>5 DEF Then
  <2> QED BY <2>1, <2>2, <2>3, ConcatProperties, Zenon
<1>7. Out(o) /\ disturbed' = (disturbed \/ o # Silence)
  BY <1>2, <1>5, Zenon
<1>8. term' \in Lines(Chars) /\ scr' \in Screens
  BY <1>6, <1>7, OutTypes
<1>9. {cli_active', disturbed', erased', hidden'} \subseteq BOOLEAN
  BY <1>1, <1>3, <1>7, Zenon
<1>10. Types'
  BY <1>1, <1>3, <1>4, <1>8, <1>9, Zenon DEF Types
<1>11. CASE o # Silence
  <2>1. Reads'
    BY <1>7, <1>11, Zenon DEF Reads
  <2> QED BY <1>10, <2>1, Zenon DEF IInv
<1>12. CASE o = Silence
  <2>1. o.term = <<>> /\ o.scr = <<>>
    BY <1>12 DEF Silence, Whole
  <2>2. term' = Fed(term, <<>>) /\ scr' = Printed(scr, <<>>)
    BY <1>7, <2>1, Zenon DEF Out, OnTerm, OnScreen, Fed, Printed
  <2>3. term' = term /\ scr' = scr
    BY <1>3, <2>2, NothingPrinted
  <2>4. disturbed' = disturbed
    BY <1>3, <1>7, <1>12
  <2>5. Reads'
    <3>1. Reads
      BY DEF IInv
    <3> QED BY <1>1, <2>3, <2>4, <3>1, Zenon DEF Reads, Shown
  <2> QED BY <1>10, <2>5, Zenon DEF IInv
<1> QED BY <1>11, <1>12

\* In gdb mode there is no line.
LEMMA PollKeeps == IInv /\ gdb_poll => IInv'
<1> SUFFICES ASSUME IInv, gdb_poll PROVE IInv'
  OBVIOUS
<1>1. PICK t \in AbortTraces \cup {Silence} : Out(t)
  BY Zenon DEF gdb_poll
<1>2. t.term \in Seq(Chars) /\ t.scr \in Seq(Chars)
  BY MessageTypes
<1>3. term' \in Lines(Chars) /\ scr' \in Screens
  BY <1>1, <1>2, OutTypes
<1>4. /\ cli_buf' = cli_buf /\ cli_active' = cli_active /\ bar' = bar /\ ~cli_active
      /\ erased' = erased /\ hidden' = hidden /\ disturbed' = disturbed
  BY Zenon DEF gdb_poll, typed
<1>5. Types'
  BY <1>3, <1>4, Zenon DEF IInv, Types
<1>6. Reads'
  BY <1>4, Zenon DEF Reads
<1> QED BY <1>5, <1>6, Zenon DEF IInv

\* Types, and that the line and the terminal agree until a message comes between
\* them, are kept by every step of the main loop, those in which cli_poll's read
\* (cli.c:135), a write of uart.c or a wait of fb_swap gives up included; and a
\* prompt that comes out whole makes them agree again.
THEOREM CliInvariant == Spec => []IInv
<1>1. Init => IInv
  BY CliStarts
<1>2. IInv /\ [Next]_vars => IInv'
  <2> SUFFICES ASSUME IInv, [Next]_vars PROVE IInv'
    OBVIOUS
  <2>1. CASE cli_poll
    BY <2>1, EnterLineKeeps, EnterNothingKeeps, EraseKeeps, CancelKeeps, ReadGivesUpKeeps,
       TypeGlyphKeeps DEF cli_poll
  <2>2. CASE demo_draw
    BY <2>2, DrawKeeps
  <2>3. CASE UNCHANGED vars
    BY <2>3, Zenon DEF IInv, Types, Reads, Shown, vars, typed
  <2>4. CASE gdb_poll
    BY <2>4, PollKeeps
  <2> QED BY <2>1, <2>2, <2>3, <2>4 DEF Next
<1> QED BY <1>1, <1>2, PTL DEF Spec

\* cli.c never writes past cli_buf, with its final NUL, nor the backend past its grid.
THEOREM CliTypes == Spec => []TypeOK
<1>1. IInv => TypeOK
  <2> SUFFICES ASSUME IInv PROVE TypeOK
    OBVIOUS
  <2>1. term.cur \in 0..Len(term.line)
    <3>1. term \in Lines(Chars)
      BY DEF IInv, Types
    <3> QED BY <3>1, LineParts
  <2> QED BY <2>1, Zenon DEF IInv, Types, TypeOK
<1> QED BY <1>1, CliInvariant, PTL

\* What a line reads is what is seen of it.
LEMMA ReadsShown == IInv => LineIsShown
<1> SUFFICES ASSUME IInv, cli_active, ~disturbed, ~hidden
             PROVE  /\ Trimmed(term.line) = Trimmed(Shown)
                    /\ term.cur = Len(Shown)
                    /\ ~erased /\ Len(Shown) < SCR_COLS => Trimmed(ScreenRow) = Trimmed(Shown)
  BY Zenon DEF LineIsShown
<1>1. /\ cli_buf \in Seq(Glyphs) /\ TermShows(term, Shown)
      /\ ~erased => ScreenShows(scr, Shown)
  BY Zenon DEF IInv, Reads
<1>2. Shown \in Seq(Glyphs) /\ Shown \in Seq(Chars) /\ term.line \in Seq(Chars)
  <2>1. Shown \in Seq(Glyphs)
    BY <1>1, Alphabet DEF Shown
  <2>2. term \in Lines(Chars)
    BY DEF IInv, Types
  <2> QED BY <2>1, <2>2, Alphabet, MoreCharacters, LineParts
<1>3. /\ term.cur = Len(Shown) /\ Len(Shown) <= Len(term.line)
      /\ \A i \in 1..Len(Shown) : term.line[i] = Shown[i]
      /\ \A i \in (Len(Shown) + 1)..Len(term.line) : term.line[i] = Space
  BY <1>1, Zenon DEF TermShows
<1>4. Trimmed(term.line) = Trimmed(Shown)
  BY <1>2, <1>3, TrimmedSame
<1>5. ASSUME ~erased, Len(Shown) < SCR_COLS PROVE ScreenRow = Shown
  <2>1. scr.col = Len(Shown) /\ \A j \in 1..Len(Shown) : scr.grid[scr.row][j - 1] = Shown[j]
    BY <1>1, <1>5, Zenon DEF ScreenShows
  <2>2. Shown = [j \in 1..Len(Shown) |-> Shown[j]]
    BY <1>2
  <2> QED BY <2>1, <2>2 DEF ScreenRow
<1> QED BY <1>3, <1>4, <1>5, Zenon

\* kernel-cli.md:110: what Enter runs is what the terminal shows, and the screen until
\* a character is erased, whatever was typed, erased, cancelled, run or aborted before
\* the line's prompt, and until the demo, fb_swap or an aborted read or write prints
\* something into the line.
THEOREM LineShown == Spec => []LineIsShown
<1> QED BY ReadsShown, CliInvariant, PTL

(***************************************************************************)
(* Bytes and packets                                                       *)
(***************************************************************************)
Answers == {"+", "-", "reply", "bad"}
Phases == {"poll", "fresh", "skip", "hunt", "body", "digit1", "digit2"}

\* A byte added to the checksum leaves a byte.
LEMMA AddType ==
  ASSUME NEW ck \in Bytes, NEW c \in Bytes
  PROVE  Add(ck, c) \in Bytes
<1> QED BY DEF Add, Bytes

\* The checksum of a sequence of bytes is a byte.
LEMMA ChecksumType ==
  ASSUME NEW m \in Seq(Bytes)
  PROVE  Checksum(m) \in Bytes
<1> DEFINE n == Len(m)
           F == [x \in Bytes |-> [c \in Bytes |-> Add(x, c)]]
           Iter(it) == it = [q \in SUBSET (1..n) |->
                               IF q = {} THEN 0 ELSE Add(it[q \ {Max(q)}], m[Max(q)])]
<1>1. n \in Nat /\ DOMAIN m = 1..n /\ m \in [1..n -> Bytes]
  OBVIOUS
<1>2. Checksum(m) = (CHOOSE it : Iter(it))[1..n]
  BY <1>1, Zenon DEF Checksum, FoldLeft, MapThenFoldSet
<1>0. 0 \in Bytes
  BY DEF Bytes
<1> HIDE DEF n
<1>3. F \in [Bytes -> [Bytes -> Bytes]]
  BY AddType
<1>4. PICK it \in [SUBSET (1..n) -> Bytes] : IsFold(it, F, 0, m, n)
  <2> HIDE DEF F
  <2> QED BY <1>0, <1>1, <1>3, FoldExists
<1>5. Iter(it)
  <2> DEFINE A(q) == IF q = {} THEN 0 ELSE Add(it[q \ {Max(q)}], m[Max(q)])
             B(q) == IF q = {} THEN 0 ELSE F[it[q \ {Max(q)}]][m[Max(q)]]
  <2>1. ASSUME NEW q \in SUBSET (1..n) PROVE A(q) = B(q)
    <3>1. CASE q # {}
      <4>1. Max(q) \in 1..n /\ q \ {Max(q)} \in SUBSET (1..n)
        BY <1>1, <3>1, LastPlace
      <4>2. it[q \ {Max(q)}] \in Bytes /\ m[Max(q)] \in Bytes
        BY <1>1, <4>1
      <4> QED BY <4>2
    <3>2. CASE q = {}
      BY <3>2
    <3> QED BY <3>1, <3>2
  <2>2. it = [q \in SUBSET (1..n) |-> B(q)]
    BY <1>4 DEF IsFold
  <2> HIDE DEF A, B
  <2>3. it = [q \in SUBSET (1..n) |-> A(q)]
    BY <2>1, <2>2
  <2> QED BY <2>3 DEF A
<1>6. PICK jt : jt = (CHOOSE i : Iter(i)) /\ Iter(jt)
  <2> HIDE DEF Iter
  <2> QED BY <1>5
<1>7. \A q \in SUBSET (1..n) :
        jt[q] = IF q = {} THEN 0 ELSE Add(jt[q \ {Max(q)}], m[Max(q)])
  BY <1>6, Zenon
<1> DEFINE G == {q \in SUBSET (1..n) : jt[q] \in Bytes}
<1>8. {} \in G /\ G \in SUBSET (SUBSET (1..n))
  BY <1>0, <1>7
<1>9. ASSUME NEW q \in SUBSET (1..n), q # {}, q \ {Max(q)} \in G PROVE q \in G
  <2>1. Max(q) \in 1..n
    BY <1>1, <1>9, LastPlace
  <2>2. m[Max(q)] \in Bytes /\ jt[q \ {Max(q)}] \in Bytes
    BY <1>1, <1>9, <2>1
  <2>3. jt[q] = Add(jt[q \ {Max(q)}], m[Max(q)])
    BY <1>7, <1>9
  <2> QED BY <2>2, <2>3, AddType
<1> HIDE DEF G
<1>10. G = SUBSET (1..n)
  BY <1>1, <1>8, <1>9, Unfold
<1>11. jt[1..n] \in Bytes
  BY <1>10 DEF G
<1> QED BY <1>2, <1>6, <1>11

\* The digits of a checksum are bytes, and h2v reads them back.
LEMMA DigitsType ==
  ASSUME NEW v \in 0..15
  PROVE  hex(v) \in Bytes /\ h2v(hex(v)) = v
<1> QED BY DEF hex, h2v, Bytes

\* Whatever the byte, h2v returns a digit.
LEMMA ValueType ==
  ASSUME NEW c \in Bytes
  PROVE  h2v(c) \in 0..15
<1> QED BY DEF h2v, Bytes

\* The bytes that mean something differ.
LEMMA Marks ==
  /\ {Dollar, Hash, Plus, Minus} \subseteq Bytes
  /\ Dollar \notin {Plus, Minus} /\ Plus # Minus
<1> QED BY DEF Dollar, Hash, Plus, Minus, Bytes

\* A byte is its two digits.
LEMMA Digits ==
  ASSUME NEW k \in Bytes
  PROVE  /\ k \div 16 \in 0..15 /\ k % 16 \in 0..15
         /\ (k \div 16) * 16 + (k % 16) = k
<1>1. k \in 0..255
  BY DEF Bytes
<1>2. k \div 16 \in 0..15 /\ k % 16 \in 0..15
  BY <1>1, SMT
<1>3. ASSUME NEW q \in Nat, NEW r \in Nat, q = k \div 16, r = k % 16
      PROVE  k = q * 16 + r
  BY <1>1, <1>3, SMT
<1> QED BY <1>2, <1>3

\* The two digits of a checksum
LEMMA TrailerType ==
  ASSUME NEW p \in Seq(Bytes)
  PROVE  /\ Trailer(p) \in Seq(Bytes) /\ Len(Trailer(p)) = 3
         /\ Trailer(p)[1] = Hash
         /\ Trailer(p)[2] \in Bytes /\ h2v(Trailer(p)[2]) = Checksum(p) \div 16
         /\ Trailer(p)[3] \in Bytes /\ h2v(Trailer(p)[3]) = Checksum(p) % 16
         /\ h2v(Trailer(p)[2]) * 16 + h2v(Trailer(p)[3]) = Checksum(p)
<1>1. Checksum(p) \in Bytes
  BY ChecksumType
<1>2. PICK ck : ck = Checksum(p)
  OBVIOUS
<1>3. PICK x, y : x = hex(ck \div 16) /\ y = hex(ck % 16)
  OBVIOUS
<1>4. ck \div 16 \in 0..15 /\ ck % 16 \in 0..15 /\ (ck \div 16) * 16 + (ck % 16) = ck
  BY <1>1, <1>2, Digits
<1>5. x \in Bytes /\ y \in Bytes /\ h2v(x) = ck \div 16 /\ h2v(y) = ck % 16
  BY <1>3, <1>4, DigitsType
<1>6. Trailer(p) = <<Hash, x, y>>
  BY <1>2, <1>3, Zenon DEF Trailer
<1>7. Hash \in Bytes
  BY Marks
<1>8. PICK t : t = Trailer(p)
  OBVIOUS
<1>9. t \in Seq(Bytes) /\ Len(t) = 3 /\ t[1] = Hash /\ t[2] = x /\ t[3] = y
  <2>1. \A a, b, c \in Bytes : /\ <<a, b, c>> \in Seq(Bytes) /\ Len(<<a, b, c>>) = 3
                              /\ <<a, b, c>>[1] = a /\ <<a, b, c>>[2] = b /\ <<a, b, c>>[3] = c
    OBVIOUS
  <2>2. t = <<Hash, x, y>>
    BY <1>6, <1>8
  <2> QED BY <1>5, <1>7, <2>1, <2>2, Zenon
<1>10. h2v(t[2]) * 16 + h2v(t[3]) = ck
  BY <1>4, <1>5, <1>9, Zenon
<1> QED BY <1>2, <1>5, <1>8, <1>9, <1>10, Zenon

\* A packet between its '$' and its checksum
Sent(p) == p \o Trailer(p)

\* A text between the byte that precedes it and what follows
IsLaid(S, d, p, t) ==
  /\ p \o t \in Seq(S) /\ Len(p \o t) = Len(p) + Len(t)
  /\ \A i \in 1..Len(p) : (p \o t)[i] = p[i]
  /\ (p \o t)[Len(p) + 1] = t[1]
  /\ (<<d>> \o p) \o t \in Seq(S) /\ (<<d>> \o p) \o t # <<>>
  /\ Head((<<d>> \o p) \o t) = d /\ Tail((<<d>> \o p) \o t) = p \o t

\* So lies any text.
LEMMA Laid ==
  ASSUME NEW S, NEW d \in S, NEW p \in Seq(S), NEW t \in Seq(S), Len(t) # 0
  PROVE  IsLaid(S, d, p, t)
<1>1. PICK u : u = p \o t
  OBVIOUS
<1>2. /\ u \in Seq(S) /\ Len(u) = Len(p) + Len(t)
      /\ \A i \in 1..(Len(p) + Len(t)) : u[i] = IF i <= Len(p) THEN p[i] ELSE t[i - Len(p)]
  BY <1>1, ConcatProperties, Zenon
<1>3. Len(p) \in Nat /\ Len(t) \in Nat \ {0}
  OBVIOUS
<1>4. (\A i \in 1..Len(p) : u[i] = p[i]) /\ u[Len(p) + 1] = t[1]
  <2>1. Len(p) + 1 \in 1..(Len(p) + Len(t)) /\ ~(Len(p) + 1 <= Len(p))
        /\ (Len(p) + 1) - Len(p) = 1 /\ 1..Len(p) \subseteq 1..(Len(p) + Len(t))
        /\ \A i \in 1..Len(p) : i <= Len(p)
    BY <1>3
  <2>2. \A i \in 1..Len(p) : u[i] = p[i]
    BY <1>2, <2>1, Zenon
  <2>3. u[Len(p) + 1] = t[1]
    BY <1>2, <2>1, Zenon
  <2> QED BY <2>2, <2>3
<1>5. PICK v : v = <<d>> \o u
  OBVIOUS
<1>6. (<<d>> \o p) \o t = v
  BY <1>1, <1>5
<1>7. /\ v \in Seq(S) /\ v # <<>> /\ Head(v) = d /\ Tail(v) = u
  BY <1>2, <1>5
<1> QED BY <1>1, <1>2, <1>4, <1>6, <1>7, Zenon DEF IsLaid

\* What the client puts on the line begins with the '$'.
LEMMA FramedType ==
  ASSUME NEW p \in Seq(Bytes)
  PROVE  /\ Framed(p) \in Seq(Bytes) /\ Framed(p) # <<>>
         /\ Head(Framed(p)) = Dollar /\ Tail(Framed(p)) = Sent(p)
         /\ Sent(p) \in Seq(Bytes) /\ Len(Sent(p)) = Len(p) + 3
         /\ \A i \in 1..Len(p) : Sent(p)[i] = p[i]
         /\ Sent(p)[Len(p) + 1] = Hash
<1>1. PICK t : t = Trailer(p)
  OBVIOUS
<1>2. t \in Seq(Bytes) /\ Len(t) = 3 /\ t[1] = Hash
  BY <1>1, TrailerType, Zenon
<1>3. Dollar \in Bytes
  BY Marks
<1>4. Framed(p) = (<<Dollar>> \o p) \o t /\ Sent(p) = p \o t
  BY <1>1, Zenon DEF Framed, Sent
<1>5. Len(t) # 0
  BY <1>2
<1>6. IsLaid(Bytes, Dollar, p, t)
  BY <1>2, <1>3, <1>5, Laid
<1> QED BY <1>2, <1>4, <1>6, Zenon DEF IsLaid

\* A byte taken from the line and put behind the packet read so far
LEMMA Moved ==
  ASSUME NEW S, NEW b \in Seq(S), NEW t \in Seq(S), t # <<>>
  PROVE  /\ Append(b, Head(t)) \in Seq(S) /\ Tail(t) \in Seq(S)
         /\ Len(Append(b, Head(t))) = Len(b) + 1
         /\ Append(b, Head(t)) \o Tail(t) = b \o t
         /\ Head(t) = (b \o t)[Len(b) + 1]
<1> QED OBVIOUS

\* Two texts of one length before what follows them
LEMMA Split ==
  ASSUME NEW S, NEW b \in Seq(S), NEW t \in Seq(S), NEW r \in Seq(S), NEW u \in Seq(S),
         b \o t = r \o u, Len(b) = Len(r)
  PROVE  b = r /\ t = u
<1>1. \A i \in 1..Len(b) : b[i] = (b \o t)[i] /\ r[i] = (r \o u)[i]
  OBVIOUS
<1>2. b = r
  <2>1. \A i \in 1..Len(b) : b[i] = r[i]
    BY <1>1
  <2>2. b = [i \in 1..Len(b) |-> b[i]] /\ r = [i \in 1..Len(b) |-> r[i]]
    OBVIOUS
  <2> QED BY <2>1, <2>2
<1>3. Len(t) = Len(u)
  <2>1. Len(b \o t) = Len(b) + Len(t) /\ Len(r \o u) = Len(r) + Len(u)
    OBVIOUS
  <2> QED BY <2>1
<1>4. \A i \in 1..Len(t) : t[i] = (b \o t)[Len(b) + i] /\ u[i] = (r \o u)[Len(b) + i]
  <2> TAKE i \in 1..Len(t)
  <2>1. t[i] = (b \o t)[Len(b) + i]
    OBVIOUS
  <2>2. i \in 1..Len(u) /\ u[i] = (r \o u)[Len(r) + i]
    BY <1>3
  <2> QED BY <2>1, <2>2
<1>5. t = u
  BY <1>3, <1>4
<1> QED BY <1>2, <1>5

\* What is taken from a sequence, or changed in it, keeps its type.
LEMMA PartsType ==
  ASSUME NEW S, NEW s \in Seq(S)
  PROVE  /\ s # <<>> => Head(s) \in S /\ Tail(s) \in Seq(S)
         /\ SubSeq(s, 3, Len(s)) \in Seq(S)
         /\ Len(s) >= 2 => s[2] \in S
         /\ \A c \in S : Append(s, c) \in Seq(S) /\ Len(Append(s, c)) = Len(s) + 1
         /\ \A r \in Seq(S) : s \o r \in Seq(S)
<1>1. SubSeq(s, 3, Len(s)) \in Seq(S)
  BY SubSeqProperties
<1> QED BY <1>1

\* A byte lost or altered leaves a sequence of bytes.
LEMMA DamageType ==
  ASSUME NEW S, NEW s \in Seq(S), NEW i \in DOMAIN s
  PROVE  /\ RemoveAt(s, i) \in Seq(S)
         /\ \A c \in S : [s EXCEPT ![i] = c] \in Seq(S)
<1>1. i \in 1..Len(s) /\ Len(s) \in Nat
  OBVIOUS
<1>2. PICK a, b : a = SubSeq(s, 1, i - 1) /\ b = SubSeq(s, i + 1, Len(s))
  OBVIOUS
<1>3. a \in Seq(S) /\ b \in Seq(S)
  <2>1. \A j \in 1..(i - 1) : j \in 1..Len(s)
    BY <1>1
  <2>2. \A j \in (i + 1)..Len(s) : j \in 1..Len(s)
    BY <1>1
  <2> QED BY <1>1, <1>2, <2>1, <2>2, SubSeqProperties
<1>4. RemoveAt(s, i) = a \o b
  BY <1>2 DEF RemoveAt
<1> QED BY <1>3, <1>4

(***************************************************************************)
(* The types of the packet layer                                           *)
(***************************************************************************)
StubTypes ==
  /\ phase \in Phases
  /\ buf \in Seq(Bytes)
  /\ Len(buf) <= BufMax - 1
  /\ phase = "body" => Len(buf) < BufMax - 1
  /\ phase \in {"fresh", "skip", "hunt"} => buf = <<>>
  /\ hi \in 0..15

LineTypes ==
  /\ toStub \in Seq(Bytes)
  /\ toClient \in Seq(Answers)

ClientTypes ==
  /\ client \in {"idle", "ack", "reply"}
  /\ req \in Seq(Bytes)

PacketIInv == StubTypes /\ LineTypes /\ ClientTypes

\* An empty buffer is one.
LEMMA EmptyBuffer ==
  <<>> \in Seq(Bytes) /\ Len(<<>>) = 0 /\ 0 < BufMax - 1 /\ 0 <= BufMax - 1 /\ 0 \in 0..15
<1> QED BY BufAssumption

\* So it is at the start.
LEMMA PacketStarts == PacketInit => PacketIInv
<1> SUFFICES ASSUME PacketInit PROVE PacketIInv
  OBVIOUS
<1>1. <<>> \in Seq(Answers)
  OBVIOUS
<1> QED BY <1>1, EmptyBuffer DEF PacketInit, PacketIInv, StubTypes, LineTypes, ClientTypes, Phases

\* A byte read from the line
LEMMA ByteRead ==
  LineTypes /\ ReadByte => Byte \in Bytes /\ toStub' \in Seq(Bytes)
<1> QED BY PartsType DEF LineTypes, ReadByte, Byte

\* The stub waits for a packet, or has found one.
LEMMA WaitsType ==
  /\ Waiting => StubTypes'
  /\ \A c \in Bytes : Hunting(c) => StubTypes'
<1>1. Waiting => StubTypes'
  BY EmptyBuffer, Zenon DEF Waiting, StubTypes, Phases
<1>2. ASSUME NEW c \in Bytes, Hunting(c) PROVE StubTypes'
  BY <1>2, EmptyBuffer DEF Hunting, StubTypes, Phases
<1> QED BY <1>1, <1>2

\* The main loop's looks at the line
LEMMA PollTypes ==
  PacketIInv /\ (PollAborted \/ PollAck \/ PollEnters) => PacketIInv'
<1> SUFFICES ASSUME PacketIInv, PollAborted \/ PollAck \/ PollEnters PROVE PacketIInv'
  OBVIOUS
<1>0. StubTypes /\ LineTypes /\ ClientTypes
  BY DEF PacketIInv
<1>1. ClientTypes' /\ toClient' = toClient
  BY <1>0 DEF PollAborted, PollAck, PollEnters, StubOnly, ClientTypes
<1>2. StubTypes'
  <2>1. CASE PollAborted \/ PollAck
    BY <1>0, <2>1 DEF PollAborted, PollAck, stub, StubTypes
  <2>2. CASE PollEnters
    <3>1. \E c \in Bytes : Hunting(c)
      BY <1>0, <2>2, PartsType DEF PollEnters, LineTypes
    <3> QED BY <3>1, WaitsType
  <2> QED BY <2>1, <2>2
<1>3. LineTypes'
  BY <1>0, <1>1, PartsType DEF PollAborted, PollAck, PollEnters, LineTypes
<1> QED BY <1>1, <1>2, <1>3 DEF PacketIInv

\* The hunt for a '$'
LEMMA HuntTypes == PacketIInv /\ Hunt => PacketIInv'
<1> SUFFICES ASSUME PacketIInv, Hunt PROVE PacketIInv'
  OBVIOUS
<1>0. StubTypes /\ LineTypes /\ ClientTypes
  BY DEF PacketIInv
<1>1. ClientTypes' /\ toClient' = toClient /\ buf' = buf /\ hi' = hi
  BY <1>0 DEF Hunt, StubOnly, ClientTypes
<1>2. toStub' \in Seq(Bytes)
  BY <1>0, ByteRead DEF Hunt, ReadAborted, LineTypes
<1>3. phase' \in Phases /\ buf = <<>>
  BY <1>0 DEF Hunt, Phases, StubTypes
<1>4. StubTypes'
  BY <1>0, <1>1, <1>3, EmptyBuffer DEF StubTypes
<1> QED BY <1>0, <1>1, <1>2, <1>4 DEF PacketIInv, LineTypes

\* The bytes between '$' and '#': the last leaves room for the NUL.
LEMMA BodyTypes == PacketIInv /\ Body => PacketIInv'
<1> SUFFICES ASSUME PacketIInv, Body PROVE PacketIInv'
  OBVIOUS
<1>0. StubTypes /\ LineTypes /\ ClientTypes
  BY DEF PacketIInv
<1>1. ClientTypes' /\ toClient' = toClient /\ hi' = hi
  BY <1>0 DEF Body, StubOnly, ClientTypes
<1>2. toStub' \in Seq(Bytes)
  BY <1>0, ByteRead DEF Body, ReadAborted, LineTypes
<1>3. buf \in Seq(Bytes) /\ Len(buf) < BufMax - 1 /\ Len(buf) \in Nat
  BY <1>0 DEF Body, StubTypes
<1>4. StubTypes'
  <2>1. CASE buf' = buf /\ phase' = "digit1"
    BY <1>0, <1>1, <1>3, <2>1, BufAssumption DEF StubTypes, Phases
  <2>2. CASE /\ ReadByte
             /\ buf' = Append(buf, Byte)
             /\ phase' = IF Len(buf') < BufMax - 1 THEN "body" ELSE "digit1"
    <3>1. buf' \in Seq(Bytes) /\ Len(buf') = Len(buf) + 1
      BY <1>0, <1>3, <2>2, ByteRead, PartsType
    <3>2. Len(buf') <= BufMax - 1
      BY <1>3, <3>1, BufAssumption
    <3> QED BY <1>0, <1>1, <2>2, <3>1, <3>2 DEF StubTypes, Phases
  <2> QED BY <2>1, <2>2 DEF Body
<1> QED BY <1>0, <1>1, <1>2, <1>4 DEF PacketIInv, LineTypes

\* The first digit of the checksum
LEMMA FirstDigitTypes == PacketIInv /\ FirstDigit => PacketIInv'
<1> SUFFICES ASSUME PacketIInv, FirstDigit PROVE PacketIInv'
  OBVIOUS
<1>0. StubTypes /\ LineTypes /\ ClientTypes
  BY DEF PacketIInv
<1>1. ClientTypes' /\ toClient' = toClient /\ buf' = buf /\ phase' = "digit2"
  BY <1>0 DEF FirstDigit, StubOnly, ClientTypes
<1>2. toStub' \in Seq(Bytes)
  BY <1>0, ByteRead DEF FirstDigit, ReadAborted, LineTypes
<1>3. hi' \in 0..15
  BY <1>0, ByteRead, ValueType, EmptyBuffer DEF FirstDigit
<1> QED BY <1>0, <1>1, <1>2, <1>3 DEF PacketIInv, LineTypes, StubTypes, Phases

\* The answer to a packet
LEMMA PacketAnswers ==
  ASSUME StubTypes, LineTypes, NEW lo \in 0..15, Packet(lo)
  PROVE  StubTypes' /\ toClient' \in Seq(Answers)
<1>1. /\ Append(toClient, "-") \in Seq(Answers)
      /\ toClient \o <<"+">> \in Seq(Answers) /\ toClient \o <<"+", "reply">> \in Seq(Answers)
  <2>1. "-" \in Answers /\ <<"+">> \in Seq(Answers) /\ <<"+", "reply">> \in Seq(Answers)
    BY DEF Answers
  <2> QED BY <2>1, PartsType DEF LineTypes
<1>2. toClient' \in Seq(Answers)
  BY <1>1 DEF Packet
<1>3. Waiting \/ (phase' = "poll" /\ buf' = <<>> /\ hi' = 0)
  BY DEF Packet
<1>4. ASSUME phase' = "poll", buf' = <<>>, hi' = 0 PROVE StubTypes'
  BY <1>4, EmptyBuffer DEF StubTypes, Phases
<1> QED BY <1>2, <1>3, <1>4, WaitsType

\* The second digit, and the packet it completes
LEMMA SecondDigitTypes == PacketIInv /\ SecondDigit => PacketIInv'
<1> SUFFICES ASSUME PacketIInv, SecondDigit PROVE PacketIInv'
  OBVIOUS
<1>0. StubTypes /\ LineTypes /\ ClientTypes
  BY DEF PacketIInv
<1>1. ClientTypes'
  BY <1>0 DEF SecondDigit, StubOnly, ClientTypes
<1>2. toStub' \in Seq(Bytes)
  BY <1>0, ByteRead DEF SecondDigit, ReadAborted, LineTypes
<1>3. \E lo \in 0..15 : Packet(lo)
  BY <1>0, ByteRead, ValueType, EmptyBuffer DEF SecondDigit
<1>4. StubTypes' /\ toClient' \in Seq(Answers)
  BY <1>0, <1>3, PacketAnswers
<1> QED BY <1>1, <1>2, <1>4 DEF PacketIInv, LineTypes

\* The client sends, reads and asks again.
LEMMA ClientTypesKept ==
  PacketIInv /\ (Client \/ \E p \in Payloads : Send(p)) => PacketIInv'
<1> SUFFICES ASSUME PacketIInv, Client \/ \E p \in Payloads : Send(p) PROVE PacketIInv'
  OBVIOUS
<1>0. StubTypes /\ LineTypes /\ ClientTypes
  BY DEF PacketIInv
<1>1. Plus \in Bytes /\ Minus \in Bytes
  BY Marks
<1>2. CASE \E p \in Payloads : Send(p)
  <2>1. PICK p \in Payloads : Send(p)
    BY <1>2
  <2>2. p \in Seq(Bytes) /\ Framed(p) \in Seq(Bytes)
    BY PayloadAssumption, FramedType
  <2>3. toStub' \in Seq(Bytes) /\ toClient' = toClient
    BY <1>0, <2>1, <2>2, PartsType DEF Send, LineTypes
  <2>4. ClientTypes'
    BY <2>1, <2>2 DEF Send, ClientTypes
  <2>5. StubTypes'
    BY <1>0, <2>1 DEF Send, StubTypes, stub
  <2> QED BY <1>0, <2>3, <2>4, <2>5 DEF PacketIInv, LineTypes
<1>3. CASE Client
  <2>1. StubTypes' /\ req' = req
    BY <1>0, <1>3 DEF Client, GetAck, GetNak, GetReply, GetBadReply, Timeout, ClientOnly,
                      StubTypes, stub
  <2>2. ClientTypes'
    BY <1>0, <1>3, <2>1 DEF Client, GetAck, GetNak, GetReply, GetBadReply, Timeout, ClientTypes
  <2>3. toClient' \in Seq(Answers)
    BY <1>0, <1>3, PartsType
       DEF Client, GetAck, GetNak, GetReply, GetBadReply, Timeout, Received, LineTypes
  <2>4. Framed(req) \in Seq(Bytes)
    BY <1>0, FramedType DEF ClientTypes
  <2>5. toStub' \in Seq(Bytes)
    BY <1>0, <1>1, <1>3, <2>4, PartsType
       DEF Client, GetAck, GetNak, GetReply, GetBadReply, Timeout, LineTypes
  <2> QED BY <2>1, <2>2, <2>3, <2>5 DEF PacketIInv, LineTypes
<1> QED BY <1>2, <1>3

\* The line loses and alters, and anyone may raise the flag.
LEMMA EnvironmentTypes == PacketIInv /\ Environment => PacketIInv'
<1> SUFFICES ASSUME PacketIInv, Environment PROVE PacketIInv'
  OBVIOUS
<1>0. StubTypes /\ LineTypes /\ ClientTypes
  BY DEF PacketIInv
<1>1. StubTypes' /\ ClientTypes'
  BY <1>0 DEF Environment, Lose, Alter, SpoilReply, abort_io, StubTypes, ClientTypes, stub
<1>2. LineTypes'
  <2>1. CASE \E i \in DOMAIN toStub : Lose(i) \/ \E c \in Altered : Alter(i, c)
    <3>1. toClient' = toClient
      BY <2>1 DEF Lose, Alter
    <3>2. toStub' \in Seq(Bytes)
      BY <1>0, <2>1, DamageType, AlteredAssumption DEF Lose, Alter, LineTypes
    <3> QED BY <1>0, <3>1, <3>2 DEF LineTypes
  <2>2. CASE \E i \in DOMAIN toClient : SpoilReply(i)
    <3>1. "bad" \in Answers
      BY DEF Answers
    <3> QED BY <1>0, <2>2, <3>1, DamageType DEF SpoilReply, LineTypes
  <2>3. CASE abort_io
    BY <1>0, <2>3 DEF abort_io, LineTypes
  <2> QED BY <2>1, <2>2, <2>3 DEF Environment
<1> QED BY <1>1, <1>2 DEF PacketIInv

\* Bytes are read into the buffer below its last place, and a packet begins with an empty one.
THEOREM PacketInvariant == PacketSpec => []PacketIInv
<1>1. PacketInit => PacketIInv
  BY PacketStarts
<1>2. PacketIInv /\ [PacketNext]_packet_vars => PacketIInv'
  <2> SUFFICES ASSUME PacketIInv, [PacketNext]_packet_vars PROVE PacketIInv'
    OBVIOUS
  <2>1. CASE Stub
    BY <2>1, PollTypes, HuntTypes, BodyTypes, FirstDigitTypes, SecondDigitTypes DEF Stub
  <2>2. CASE Client \/ \E p \in Payloads : Send(p)
    BY <2>2, ClientTypesKept
  <2>3. CASE Environment
    BY <2>3, EnvironmentTypes
  <2>4. CASE UNCHANGED packet_vars
    BY <2>4, Zenon DEF PacketIInv, StubTypes, LineTypes, ClientTypes, packet_vars, stub
  <2> QED BY <2>1, <2>2, <2>3, <2>4 DEF PacketNext
<1> QED BY <1>1, <1>2, PTL DEF PacketSpec

\* gdb_stub.c:73: whatever comes in, gdb_recv leaves room in the buffer for its NUL.
THEOREM PacketTypes == PacketSpec => []PacketTypeOK
<1>1. PacketIInv => PacketTypeOK
  <2> SUFFICES ASSUME PacketIInv PROVE PacketTypeOK
    OBVIOUS
  <2>1. \A S : \A s \in Seq(S) : Range(s) \subseteq S
    BY DEF Range
  <2>2. Range(toStub) \subseteq Bytes /\ Range(toClient) \subseteq Answers
    BY <2>1 DEF PacketIInv, LineTypes
  <2> QED BY <2>2
          DEF PacketIInv, StubTypes, ClientTypes, PacketTypeOK, Phases, Answers
<1> QED BY <1>1, PacketInvariant, PTL

(***************************************************************************)
(* A line that loses and alters nothing                                    *)
(***************************************************************************)
\* No packet fills the buffer: gdb_recv would take the '#' for a digit.
Fits == \A p \in Payloads : Len(p) < BufMax - 1

Resting == {"poll", "fresh", "skip"}

\* Between two requests: an ACK may still be on the line.
Between ==
  /\ client = "idle" /\ done \in {<<>>, <<req>>}
  /\ phase \in Resting
  /\ toStub \in {<<>>, <<Plus>>} /\ toClient = <<>>

\* A request that gdb_recv has not begun, and one that it reads, its first or
\* its second digit still to come
Unserved == client = "ack" /\ req \in Payloads /\ done = <<>> /\ toClient = <<>>
Arriving == Unserved /\ phase \in Resting /\ toStub \in {Framed(req), <<Plus>> \o Framed(req)}
Reading == Unserved /\ phase = "body" /\ Len(buf) <= Len(req) /\ buf \o toStub = Sent(req)
AtFirst ==
  /\ Unserved /\ phase = "digit1" /\ buf = req
  /\ Len(toStub) = 2 /\ toStub[1] = Trailer(req)[2] /\ toStub[2] = Trailer(req)[3]
AtSecond ==
  /\ Unserved /\ phase = "digit2" /\ buf = req /\ hi = h2v(Trailer(req)[2])
  /\ Len(toStub) = 1 /\ toStub[1] = Trailer(req)[3]

\* A request that was served, before the client knows and after
Served ==
  /\ client = "ack" /\ done = <<req>>
  /\ phase \in {"poll", "fresh"}
  /\ toStub = <<>> /\ toClient \in {<<"+">>, <<"+", "reply">>, <<"+", "bad">>}
Acknowledged ==
  /\ client = "reply" /\ done = <<req>>
  /\ phase \in Resting
  /\ \/ toStub = <<>> /\ toClient \in {<<>>, <<"reply">>, <<"bad">>}
     \/ toStub = <<Minus>> /\ toClient = <<>>

Stages ==
  Between \/ Arriving \/ Reading \/ AtFirst \/ AtSecond \/ Served \/ Acknowledged

Sound == damage = 0 /\ aborts = 0
SoundIInv ==
  /\ damage \in Nat /\ aborts \in Nat
  /\ Sound => ~aborting /\ Stages

\* One byte in front of a text
LEMMA InFront ==
  ASSUME NEW S, NEW c \in S, NEW s \in Seq(S), s # <<>>, NEW f, f = <<c>> \o s
  PROVE  /\ f \in Seq(S) /\ f # <<>> /\ Len(f) >= 2
         /\ Head(f) = c /\ Tail(f) = s /\ f[2] = Head(s)
         /\ SubSeq(f, 3, Len(f)) = Tail(s)
<1>1. /\ f \in Seq(S) /\ f # <<>> /\ Len(f) = Len(s) + 1 /\ Len(s) \in Nat \ {0}
      /\ Head(f) = c /\ f[2] = Head(s)
      /\ \A i \in 1..Len(s) : f[i + 1] = s[i]
  OBVIOUS
<1>2. Tail(f) = s
  <2>1. Tail(f) \in Seq(S) /\ Len(Tail(f)) = Len(s) /\ \A i \in 1..Len(s) : Tail(f)[i] = f[i + 1]
    BY <1>1
  <2> QED BY <1>1, <2>1
<1>3. SubSeq(f, 3, Len(f)) = Tail(s)
  <2>1. /\ SubSeq(f, 3, Len(f)) \in Seq(S)
        /\ Len(SubSeq(f, 3, Len(f))) = Len(s) - 1
        /\ \A i \in 1..(Len(s) - 1) : SubSeq(f, 3, Len(f))[i] = f[i + 2]
    BY <1>1
  <2>2. Tail(s) \in Seq(S) /\ Len(Tail(s)) = Len(s) - 1 /\ \A i \in 1..(Len(s) - 1) : Tail(s)[i] = s[i + 1]
    BY <1>1
  <2>3. \A i \in 1..(Len(s) - 1) : f[i + 2] = s[i + 1]
    <3> TAKE i \in 1..(Len(s) - 1)
    <3>1. i + 1 \in 1..Len(s) /\ (i + 1) + 1 = i + 2
      BY <1>1
    <3> QED BY <1>1, <3>1
  <2> QED BY <2>1, <2>2, <2>3
<1> QED BY <1>1, <1>2, <1>3

\* What the stub finds on the line before a request
Before(s, p) == s = Framed(p) \/ s = <<Plus>> \o Framed(p)

\* An ACK, then the '$', then the packet
LEMMA Approach ==
  ASSUME NEW p \in Seq(Bytes), NEW s, Before(s, p)
  PROVE  /\ s # <<>> /\ Head(s) \in {Dollar, Plus}
         /\ Head(s) = Dollar => Tail(s) = Sent(p)
         /\ Head(s) = Plus => /\ Tail(s) = Framed(p) /\ s[2] = Dollar /\ Len(s) >= 2
                              /\ SubSeq(s, 3, Len(s)) = Sent(p)
<1>1. PICK f : f = Framed(p)
  OBVIOUS
<1>2. f \in Seq(Bytes) /\ f # <<>> /\ Head(f) = Dollar /\ Tail(f) = Sent(p)
  BY <1>1, FramedType
<1>3. Plus \in Bytes /\ Dollar # Plus
  BY Marks
<1>4. CASE s = f
  BY <1>1, <1>2, <1>3, <1>4
<1>5. CASE s = <<Plus>> \o f
  <2>1. /\ s # <<>> /\ Len(s) >= 2 /\ Head(s) = Plus /\ Tail(s) = f /\ s[2] = Head(f)
        /\ SubSeq(s, 3, Len(s)) = Tail(f)
    BY <1>2, <1>3, <1>5, InFront
  <2> QED BY <1>1, <1>2, <1>3, <2>1
<1> QED BY <1>1, <1>4, <1>5 DEF Before

\* A single ACK on the line
LEMMA OneByte ==
  ASSUME NEW c, NEW s, s = <<c>>
  PROVE  s # <<>> /\ Head(s) = c /\ Tail(s) = <<>> /\ Len(s) = 1
<1> QED OBVIOUS

\* The '$' has been found.
LEMMA Found ==
  ASSUME Unserved, PacketIInv, phase' = "body", buf' = <<>>, toStub' = Sent(req),
         UNCHANGED <<client, req, done, toClient>>
  PROVE  Reading'
<1>1. req \in Seq(Bytes)
  BY DEF PacketIInv, ClientTypes
<1>2. Sent(req) \in Seq(Bytes)
  BY <1>1, FramedType
<1>3. <<>> \o Sent(req) = Sent(req) /\ Len(<<>>) = 0 /\ 0 <= Len(req)
  BY <1>1, <1>2
<1> QED BY <1>3 DEF Reading, Unserved

\* The stub's read of one byte before the packet
LEMMA StubApproaches ==
  ASSUME PacketIInv, Stages, ~aborting, PollAck \/ PollEnters \/ Hunt
  PROVE  Stages'
<1>0. /\ UNCHANGED <<client, req, done, toClient>> /\ toStub # <<>>
      /\ phase \in {"poll", "fresh", "skip", "hunt"}
  BY DEF PollAck, PollEnters, Hunt, StubOnly, ReadByte, ReadAborted
<1>1. /\ Dollar \notin {Plus, Minus} /\ Plus # Minus
  BY Marks
<1>2. ASSUME NEW c \in {Plus, Minus}, toStub = <<c>>, phase \in Resting
      PROVE  toStub' = <<>> /\ phase' \in Resting
  <2>1. Head(toStub) = c /\ Tail(toStub) = <<>> /\ Len(toStub) = 1
    BY <1>2, OneByte
  <2>2. ~PollEnters
    BY <2>1 DEF PollEnters
  <2>3. CASE PollAck
    BY <1>2, <2>1, <2>3 DEF PollAck, stub, Resting
  <2>4. CASE Hunt
    BY <1>0, <1>1, <1>2, <2>1, <2>4 DEF Hunt, ReadByte, ReadAborted, Byte, Resting
  <2> QED BY <2>2, <2>3, <2>4
<1>3. CASE Between
  <2>1. toStub = <<Plus>> /\ phase \in Resting
    BY <1>0, <1>3 DEF Between
  <2>2. toStub' = <<>> /\ phase' \in Resting
    BY <1>2, <2>1
  <2> QED BY <1>0, <1>3, <2>2 DEF Between, Stages
<1>4. CASE Acknowledged
  <2>1. toStub = <<Minus>> /\ phase \in Resting /\ toClient = <<>>
    BY <1>0, <1>4 DEF Acknowledged
  <2>2. toStub' = <<>> /\ phase' \in Resting
    BY <1>2, <2>1
  <2> QED BY <1>0, <1>4, <2>1, <2>2 DEF Acknowledged, Stages
<1>5. CASE Arriving
  <2>1. Before(toStub, req) /\ req \in Seq(Bytes) /\ phase \in Resting /\ Unserved
    BY <1>5 DEF Arriving, Before, PacketIInv, ClientTypes
  <2>2. /\ toStub # <<>> /\ Head(toStub) \in {Dollar, Plus}
        /\ Head(toStub) = Dollar => Tail(toStub) = Sent(req)
        /\ Head(toStub) = Plus =>
             /\ Tail(toStub) = Framed(req) /\ toStub[2] = Dollar /\ Len(toStub) >= 2
             /\ SubSeq(toStub, 3, Len(toStub)) = Sent(req)
    BY <2>1, Approach
  <2>3. CASE PollAck
    <3>1. toStub' = Framed(req) /\ phase' = phase
      BY <1>1, <2>2, <2>3 DEF PollAck, stub
    <3> QED BY <1>0, <2>1, <3>1 DEF Arriving, Unserved, Stages
  <2>4. CASE PollEnters
    <3>1. phase' = "body" /\ buf' = <<>> /\ toStub' = Sent(req)
      BY <1>1, <2>2, <2>4 DEF PollEnters, Hunting
    <3> QED BY <1>0, <2>1, <3>1, Found DEF Stages
  <2>5. CASE Hunt
    <3>1. toStub' = Tail(toStub) /\ buf' = buf /\ Byte = Head(toStub)
          /\ phase' = IF Byte = Dollar THEN "body" ELSE "skip"
      BY <2>1, <2>5, <1>0 DEF Hunt, ReadByte, ReadAborted, Byte, Resting
    <3>2. buf = <<>>
      BY <2>5 DEF PacketIInv, StubTypes, Hunt
    <3>3. CASE Head(toStub) = Dollar
      BY <1>0, <2>1, <2>2, <3>1, <3>2, <3>3, Found DEF Stages
    <3>4. CASE Head(toStub) = Plus
      <4>1. toStub' = Framed(req) /\ phase' = "skip"
        BY <1>1, <2>2, <3>1, <3>4
      <4> QED BY <1>0, <2>1, <4>1 DEF Arriving, Unserved, Stages, Resting
    <3> QED BY <2>2, <3>3, <3>4
  <2> QED BY <2>3, <2>4, <2>5
<1>6. ~Reading /\ ~AtFirst /\ ~AtSecond /\ ~Served
  BY <1>0 DEF Reading, AtFirst, AtSecond, Served
<1> QED BY <1>3, <1>4, <1>5, <1>6 DEF Stages

\* The bytes of the packet, the last of them the '#'
LEMMA StubReads ==
  ASSUME Fits, PacketIInv, Stages, ~aborting, Body
  PROVE  Stages'
<1>0. /\ UNCHANGED <<client, req, done, toClient, hi>> /\ phase = "body"
      /\ ReadByte
  BY DEF Body, StubOnly, ReadAborted
<1>1. Reading
  BY <1>0 DEF Stages, Between, Arriving, AtFirst, AtSecond, Served, Acknowledged, Resting
<1>2. /\ buf \in Seq(Bytes) /\ toStub \in Seq(Bytes) /\ req \in Seq(Bytes)
      /\ req \in Payloads /\ Len(buf) <= Len(req) /\ buf \o toStub = Sent(req) /\ Unserved
  BY <1>1 DEF PacketIInv, StubTypes, LineTypes, ClientTypes, Reading, Unserved
<1>3. toStub # <<>> /\ toStub' = Tail(toStub) /\ Byte = Head(toStub)
  BY <1>0 DEF ReadByte, Byte
<1>4. /\ Append(buf, Byte) \in Seq(Bytes) /\ Len(Append(buf, Byte)) = Len(buf) + 1
      /\ Append(buf, Byte) \o toStub' = Sent(req) /\ Byte = Sent(req)[Len(buf) + 1]
  <2>1. /\ Append(buf, Head(toStub)) \in Seq(Bytes)
        /\ Len(Append(buf, Head(toStub))) = Len(buf) + 1
        /\ Append(buf, Head(toStub)) \o Tail(toStub) = buf \o toStub
        /\ Head(toStub) = (buf \o toStub)[Len(buf) + 1]
    BY <1>2, <1>3, Moved
  <2> QED BY <1>2, <1>3, <2>1, Zenon
<1>5. Len(buf) \in Nat /\ Len(req) \in Nat
  BY <1>2
<1>6. CASE Len(buf) < Len(req)
  <2>1. Len(buf) + 1 \in 1..Len(req)
    BY <1>5, <1>6
  <2>2. Byte = req[Len(buf) + 1]
    BY <1>2, <1>4, <2>1, FramedType
  <2>3. Byte \in Range(req)
    BY <1>2, <2>1, <2>2 DEF Range
  <2>4. Byte # Hash
    BY <1>2, <2>3, PayloadAssumption
  <2>5. buf' = Append(buf, Byte) /\ phase' = IF Len(buf') < BufMax - 1 THEN "body" ELSE "digit1"
    BY <1>0, <2>4 DEF Body, ReadAborted
  <2>6. Len(buf') <= Len(req) /\ Len(req) < BufMax - 1
    BY <1>2, <1>4, <1>5, <1>6, <2>5 DEF Fits
  <2>7. phase' = "body"
    <3>1. Len(buf') < BufMax - 1
      BY <1>4, <1>5, <2>5, <2>6, BufAssumption
    <3> QED BY <2>5, <3>1
  <2> QED BY <1>0, <1>2, <1>4, <2>5, <2>6, <2>7 DEF Reading, Unserved, Stages
<1>7. CASE Len(buf) = Len(req)
  <2>1. Byte = Hash
    BY <1>2, <1>4, <1>7, FramedType
  <2>2. buf' = buf /\ phase' = "digit1"
    BY <1>0, <2>1 DEF Body, ReadAborted
  <2>3. PICK t : t = Trailer(req)
    OBVIOUS
  <2>4. t \in Seq(Bytes) /\ Len(t) = 3 /\ Sent(req) = req \o t
    BY <1>2, <2>3, TrailerType DEF Sent
  <2>5. buf = req /\ toStub = t
    <3>1. buf \o toStub = req \o t
      BY <1>2, <2>4
    <3> QED BY <1>2, <1>7, <2>4, <3>1, Split
  <2>6. Len(toStub') = 2 /\ toStub'[1] = t[2] /\ toStub'[2] = t[3]
    <3>1. Len(Tail(t)) = 2 /\ Tail(t)[1] = t[2] /\ Tail(t)[2] = t[3]
      <4>1. t \in Seq(Bytes) /\ Len(t) = 3
        BY <2>4
      <4>2. t # <<>>
        BY <4>1
      <4>3. Len(Tail(t)) = Len(t) - 1 /\ \A i \in 1..Len(Tail(t)) : Tail(t)[i] = t[i + 1]
        BY <4>1, <4>2, HeadTailProperties, Zenon
      <4>4. Len(t) - 1 = 2 /\ 1 \in 1..(Len(t) - 1) /\ 2 \in 1..(Len(t) - 1)
            /\ 1 + 1 = 2 /\ 2 + 1 = 3
        BY <4>1
      <4> QED BY <4>3, <4>4, Zenon
    <3>2. toStub' = Tail(t)
      BY <1>3, <2>5
    <3> QED BY <3>1, <3>2, Zenon
  <2> QED BY <1>0, <1>2, <2>2, <2>3, <2>5, <2>6 DEF AtFirst, Unserved, Stages
<1> QED BY <1>2, <1>5, <1>6, <1>7

\* The two digits: they are those of the request, which is run.
LEMMA StubServes ==
  ASSUME PacketIInv, Stages, ~aborting, FirstDigit \/ SecondDigit
  PROVE  Stages'
<1>0. /\ UNCHANGED <<client, req>> /\ ReadByte
  BY DEF FirstDigit, SecondDigit, StubOnly, ReadAborted
<1>1. toStub # <<>> /\ toStub' = Tail(toStub) /\ Byte = Head(toStub) /\ toStub \in Seq(Bytes)
  BY <1>0 DEF ReadByte, Byte, PacketIInv, LineTypes
<1>2. req \in Seq(Bytes)
  BY DEF PacketIInv, ClientTypes
<1>3. CASE FirstDigit
  <2>1. phase = "digit1" /\ phase' = "digit2" /\ hi' = h2v(Byte) /\ UNCHANGED <<buf, toClient, done>>
    BY <1>3 DEF FirstDigit, ReadAborted
  <2>2. AtFirst
    BY <2>1 DEF Stages, Between, Arriving, Reading, AtSecond, Served, Acknowledged, Resting
  <2>3. /\ Len(toStub) = 2 /\ toStub[1] = Trailer(req)[2] /\ toStub[2] = Trailer(req)[3]
        /\ Unserved /\ buf = req
    BY <2>2 DEF AtFirst
  <2>4. Byte = Trailer(req)[2] /\ Len(toStub') = 1 /\ toStub'[1] = Trailer(req)[3]
    <3>1. PICK s : s = toStub
      OBVIOUS
    <3>2. s \in Seq(Bytes) /\ Len(s) = 2
      BY <1>1, <2>3, <3>1
    <3>3. Head(s) = s[1] /\ Len(Tail(s)) = 1 /\ Tail(s)[1] = s[2]
      BY <3>2
    <3>4. toStub' = Tail(s) /\ Byte = Head(s)
      BY <1>1, <3>1
    <3> QED BY <2>3, <3>1, <3>3, <3>4, Zenon
  <2> QED BY <1>0, <2>1, <2>3, <2>4 DEF AtSecond, Unserved, Stages
<1>4. CASE SecondDigit
  <2>1. phase = "digit2" /\ Packet(h2v(Byte))
    BY <1>4 DEF SecondDigit, ReadAborted
  <2>2. AtSecond
    BY <2>1 DEF Stages, Between, Arriving, Reading, AtFirst, Served, Acknowledged, Resting
  <2>3. /\ Len(toStub) = 1 /\ toStub[1] = Trailer(req)[3] /\ Unserved /\ buf = req
        /\ hi = h2v(Trailer(req)[2])
    BY <2>2 DEF AtSecond
  <2>4. Byte = Trailer(req)[3] /\ toStub' = <<>>
    BY <1>1, <2>3
  <2>5. hi * 16 + h2v(Byte) = Checksum(buf)
    BY <1>2, <2>3, <2>4, TrailerType
  <2>6. /\ done' = Append(done, buf)
        /\ \/ toClient' = toClient \o <<"+">>
           \/ toClient' = toClient \o <<"+", "reply">>
        /\ phase' \in {"poll", "fresh"}
    BY <2>1, <2>5 DEF Packet, Waiting
  <2>7. done' = <<req>> /\ toClient' \in {<<"+">>, <<"+", "reply">>}
    BY <2>3, <2>6 DEF Unserved
  <2> QED BY <1>0, <2>3, <2>4, <2>6, <2>7 DEF Served, Unserved, Stages
<1> QED BY <1>3, <1>4

\* The client's steps
LEMMA ClientCarries ==
  ASSUME PacketIInv, Stages, Client
  PROVE  Stages'
<1>0. UNCHANGED <<phase, buf, hi, req, done>> /\ req \in Seq(Bytes)
  BY DEF Client, GetAck, GetNak, GetReply, GetBadReply, Timeout, ClientOnly, stub,
         PacketIInv, ClientTypes
<1>1. CASE Served
  <2>1. Received("+") /\ client = "ack" /\ GetAck
    BY <1>1 DEF Served, Client, GetAck, GetNak, GetReply, GetBadReply, Timeout, Received
  <2>2. client' = "reply" /\ toClient' \in {<<>>, <<"reply">>, <<"bad">>} /\ toStub' = toStub
    <3>1. client' = "reply" /\ toClient' = Tail(toClient) /\ toStub' = toStub
      BY <2>1 DEF GetAck, Received
    <3>2. /\ Tail(<<"+">>) = <<>> /\ Tail(<<"+", "reply">>) = <<"reply">>
          /\ Tail(<<"+", "bad">>) = <<"bad">>
      OBVIOUS
    <3> QED BY <1>1, <3>1, <3>2 DEF Served
  <2> QED BY <1>0, <1>1, <2>2 DEF Served, Acknowledged, Stages, Resting
<1>2. CASE Acknowledged
  <2>1. toClient # <<>> /\ client = "reply" /\ done = <<req>> /\ phase \in Resting
    BY <1>2 DEF Acknowledged, Client, GetAck, GetNak, GetReply, GetBadReply, Timeout, Received
  <2>2. toStub = <<>> /\ toClient \in {<<"reply">>, <<"bad">>}
    BY <1>2, <2>1 DEF Acknowledged
  <2>3. CASE toClient = <<"reply">>
    <3>1. GetReply
      BY <2>1, <2>3 DEF Client, GetAck, GetNak, GetReply, GetBadReply, Timeout, Received
    <3>2. client' = "idle" /\ toClient' = <<>> /\ toStub' = <<Plus>>
      BY <2>1, <2>2, <2>3, <3>1 DEF GetReply, Received
    <3> QED BY <1>0, <2>1, <3>2 DEF Between, Stages
  <2>4. CASE toClient = <<"bad">>
    <3>1. GetBadReply
      BY <2>1, <2>4 DEF Client, GetAck, GetNak, GetReply, GetBadReply, Timeout, Received
    <3>2. client' = client /\ toClient' = <<>> /\ toStub' = <<Minus>>
      BY <2>1, <2>2, <2>4, <3>1 DEF GetBadReply, Received
    <3> QED BY <1>0, <2>1, <3>2 DEF Acknowledged, Stages
  <2> QED BY <2>2, <2>3, <2>4
<1>3. ASSUME toClient = <<>>, client # "ack" \/ toStub # <<>> PROVE FALSE
  BY <1>3 DEF Client, GetAck, GetNak, GetReply, GetBadReply, Timeout, Received
<1>4. ~Between
  BY <1>3 DEF Between
<1>5. ~Arriving
  <2>1. Arriving => toStub # <<>>
    BY <1>0, Approach DEF Arriving, Before
  <2> QED BY <1>3, <2>1 DEF Arriving, Unserved
<1>6. ~Reading
  <2> SUFFICES ASSUME Reading PROVE FALSE
    OBVIOUS
  <2>1. toStub = <<>>
    BY <1>3 DEF Reading, Unserved
  <2>2. buf \o <<>> = buf /\ Len(buf) \in Nat /\ Len(req) \in Nat
    BY <1>0 DEF PacketIInv, StubTypes
  <2>3. Len(Sent(req)) = Len(req) + 3
    BY <1>0, FramedType
  <2> QED BY <2>1, <2>2, <2>3 DEF Reading
<1>7. ~AtFirst /\ ~AtSecond
  BY <1>3 DEF AtFirst, AtSecond, Unserved
<1> QED BY <1>1, <1>2, <1>4, <1>5, <1>6, <1>7 DEF Stages

\* A new request
LEMMA SendCarries ==
  ASSUME PacketIInv, Stages, NEW p \in Payloads, Send(p)
  PROVE  Stages'
<1>1. Between
  BY DEF Send, Stages, Arriving, Reading, AtFirst, AtSecond, Served, Acknowledged, Unserved
<1>2. Framed(p) \in Seq(Bytes)
  BY PayloadAssumption, FramedType
<1>3. <<>> \o Framed(p) = Framed(p)
  BY <1>2
<1>4. toStub' \in {Framed(p), <<Plus>> \o Framed(p)}
  BY <1>1, <1>3 DEF Send, Between
<1>5. /\ client' = "ack" /\ req' = p /\ done' = <<>> /\ toClient' = <<>> /\ phase' = phase
      /\ phase \in Resting
  BY <1>1 DEF Send, Between, stub
<1> QED BY <1>4, <1>5 DEF Arriving, Unserved, Stages

\* A reply that arrives damaged
LEMMA SpoilCarries ==
  ASSUME Stages, NEW i \in DOMAIN toClient, SpoilReply(i)
  PROVE  Stages'
<1>0. /\ UNCHANGED <<phase, client, req, done, toStub>> /\ toClient[i] = "reply"
      /\ toClient' = [toClient EXCEPT ![i] = "bad"]
  BY DEF SpoilReply, stub
<1>1. CASE Served
  <2>1. toClient = <<"+", "reply">> /\ i = 2
    BY <1>0, <1>1 DEF Served
  <2>2. toClient' = <<"+", "bad">>
    BY <1>0, <2>1
  <2> QED BY <1>0, <1>1, <2>2 DEF Served, Stages
<1>2. CASE Acknowledged
  <2>1. toClient = <<"reply">> /\ i = 1 /\ toStub = <<>>
    BY <1>0, <1>2 DEF Acknowledged
  <2>2. toClient' = <<"bad">>
    BY <1>0, <2>1
  <2> QED BY <1>0, <1>2, <2>1, <2>2 DEF Acknowledged, Stages
<1>3. toClient # <<>>
  OBVIOUS
<1> QED BY <1>1, <1>2, <1>3 DEF Stages, Between, Arriving, Reading, AtFirst, AtSecond, Unserved

\* Until a byte is lost or altered or a wait aborted, a request stays on its way.
LEMMA SoundStep ==
  ASSUME Fits, PacketIInv, SoundIInv, [PacketNext]_packet_vars
  PROVE  SoundIInv'
<1>0. damage \in Nat /\ aborts \in Nat
  BY DEF SoundIInv
<1>1. CASE Stub
  <2>1. damage' = damage /\ aborts' = aborts
    BY <1>1 DEF Stub, PollAborted, PollAck, PollEnters, Hunt, Body, FirstDigit, SecondDigit,
                StubOnly, counters
  <2>2. ASSUME Sound' PROVE ~aborting' /\ Stages'
    <3>1. ~aborting /\ Stages
      BY <2>1, <2>2 DEF Sound, SoundIInv
    <3>2. ~PollAborted /\ aborting' = aborting
      BY <1>1, <3>1 DEF Stub, PollAborted, PollAck, PollEnters, Hunt, Body, FirstDigit,
                        SecondDigit, ReadByte, ReadAborted
    <3>3. Stages'
      BY <1>1, <3>1, <3>2, StubApproaches, StubReads, StubServes DEF Stub
    <3> QED BY <3>1, <3>2, <3>3
  <2> QED BY <1>0, <2>1, <2>2 DEF SoundIInv
<1>2. CASE Client \/ (\E p \in Payloads : Send(p)) \/ \E i \in DOMAIN toClient : SpoilReply(i)
  <2>1. damage' = damage /\ aborts' = aborts /\ aborting' = aborting
    BY <1>2 DEF Client, GetAck, GetNak, GetReply, GetBadReply, Timeout, ClientOnly, counters,
                Send, SpoilReply
  <2>2. ASSUME Sound' PROVE ~aborting' /\ Stages'
    <3>1. ~aborting /\ Stages
      BY <2>1, <2>2 DEF Sound, SoundIInv
    <3> QED BY <1>2, <2>1, <3>1, ClientCarries, SendCarries, SpoilCarries
  <2> QED BY <1>0, <2>1, <2>2 DEF SoundIInv
<1>3. CASE abort_io \/ \E i \in DOMAIN toStub : Lose(i) \/ \E c \in Altered : Alter(i, c)
  <2>1. \/ damage' = damage + 1 /\ aborts' = aborts
        \/ damage' = damage /\ aborts' = aborts + 1
    BY <1>3 DEF abort_io, Lose, Alter
  <2>2. damage' \in Nat /\ aborts' \in Nat /\ ~Sound'
    BY <1>0, <2>1 DEF Sound
  <2> QED BY <2>2 DEF SoundIInv
<1>4. CASE UNCHANGED packet_vars
  <2>1. UNCHANGED <<phase, buf, hi, aborting, toStub, toClient, client, req, done, damage, aborts>>
    BY <1>4 DEF packet_vars, stub, counters
  <2>2. Stages' = Stages
    BY <2>1, Zenon DEF Stages, Between, Arriving, Reading, AtFirst, AtSecond, Served, Acknowledged,
                Unserved
  <2> QED BY <1>0, <2>1, <2>2 DEF SoundIInv, Sound
<1> QED BY <1>1, <1>2, <1>3, <1>4 DEF PacketNext, Environment

\* While nothing was lost, altered or aborted, the stub runs what the client has asked,
\* and runs it once, whatever the bytes of the request, however many requests were
\* sent and replies refused.
THEOREM SoundLineRunsTheRequest ==
  ASSUME Fits
  PROVE  PacketSpec => [](Sound => RunsOnlyTheRequest)
<1>1. PacketInit => SoundIInv
  BY DEF PacketInit, SoundIInv, Stages, Between, Resting
<1>2. PacketIInv /\ SoundIInv /\ [PacketNext]_packet_vars => SoundIInv'
  BY SoundStep
<1>3. SoundIInv => (Sound => RunsOnlyTheRequest)
  <2> SUFFICES ASSUME Stages PROVE RunsOnlyTheRequest
    BY DEF SoundIInv
  <2>1. done \in {<<>>, <<req>>}
    BY DEF Stages, Between, Arriving, Reading, AtFirst, AtSecond, Served, Acknowledged, Unserved
  <2>2. /\ Len(<<>>) = 0 /\ Range(<<>>) = {}
        /\ Len(<<req>>) = 1 /\ Range(<<req>>) = {req}
    BY DEF Range
  <2>3. CASE done = <<>>
    <3>1. Len(done) = 0 /\ Range(done) = {}
      BY <2>2, <2>3, Zenon
    <3> QED BY <2>1, <3>1 DEF RunsOnlyTheRequest
  <2>4. CASE done = <<req>>
    <3>1. Len(done) = 1 /\ Range(done) = {req}
      BY <2>2, <2>4, Zenon
    <3> QED BY <2>1, <3>1 DEF RunsOnlyTheRequest
  <2> QED BY <2>1, <2>3, <2>4
<1> QED BY <1>1, <1>2, <1>3, PacketInvariant, PTL DEF PacketSpec
=============================================================================

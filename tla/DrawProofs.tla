----------------------------- MODULE DrawProofs -----------------------------
(***************************************************************************)
(* Theorems about Screen and Draw, for every size of the grid, the font,   *)
(* the bar and the mode, and every text.  The backend writes inside its    *)
(* grid, which is a window on the last rows of the sheet; nothing is drawn *)
(* outside the buffer, and each frame shows the console's text whatever    *)
(* the buffer held before.  The invariant of Screen is IInv; DrawIInv adds *)
(* that the rows below the cursor are untouched, which the flush does not  *)
(* draw.                                                                   *)
(***************************************************************************)
EXTENDS Draw, FiniteSetTheorems, WellFoundedInduction, TLAPS

(***************************************************************************)
(* Types                                                                   *)
(***************************************************************************)
Grids == [RowNos -> [ColNos -> Glyphs \cup {NUL}]]

\* What a scroll leaves is a grid with the cursor in its last row.
LEMMA ScrollType ==
  ASSUME NEW g \in Grids, NEW c \in ColNos
  PROVE  scr_scroll(g, c) \in Screens
<1>1. SCR_ROWS - 1 \in RowNos
  BY GridAssumption DEF RowNos
<1>2. BlankRow \in [ColNos -> Glyphs \cup {NUL}]
  BY GlyphAssumption DEF BlankRow
<1>3. \A i \in RowNos : i < SCR_ROWS - 1 => i + 1 \in RowNos
  BY GridAssumption DEF RowNos
<1> DEFINE h == [i \in RowNos |-> IF i < SCR_ROWS - 1 THEN g[i + 1]
                                                      ELSE BlankRow]
<1>4. h \in Grids
  BY <1>2, <1>3 DEF Grids
<1>5. scr_scroll(g, c) = At(h, SCR_ROWS - 1, c)
  BY DEF scr_scroll
<1> QED
  BY <1>1, <1>4, <1>5 DEF Screens, At, Grids

\* The next row is in the grid, or made by a scroll.
LEMMA NextRowType ==
  ASSUME NEW g \in Grids, NEW r \in RowNos
  PROVE  NextRow(g, r) \in Screens
<1>1. 0 \in ColNos
  BY GridAssumption DEF ColNos
<1>2. CASE r + 1 >= SCR_ROWS
  BY <1>1, <1>2, ScrollType DEF NextRow
<1>3. CASE ~(r + 1 >= SCR_ROWS)
  <2>1. r + 1 \in RowNos
    BY <1>3, GridAssumption DEF RowNos
  <2> QED
    BY <1>1, <1>3, <2>1 DEF NextRow, Screens, At, Grids
<1> QED
  BY <1>2, <1>3

\* A glyph, wrapped or not, leaves the cursor in the grid.
LEMMA PutGlyphType ==
  ASSUME NEW s \in Screens, NEW c \in Glyphs
  PROVE  PutGlyph(s, c) \in Screens
<1> DEFINE h == [s.grid EXCEPT ![s.row][s.col] = c]
<1>1. s.grid \in Grids /\ s.row \in RowNos /\ s.col \in ColNos
  BY DEF Screens, Grids
<1>2. h \in Grids
  BY <1>1 DEF Grids
<1>3. CASE s.col + 1 >= SCR_COLS
  BY <1>1, <1>2, <1>3, NextRowType DEF PutGlyph
<1>4. CASE ~(s.col + 1 >= SCR_COLS)
  <2>1. s.col + 1 \in ColNos
    BY <1>1, <1>4, GridAssumption DEF ColNos
  <2> QED
    BY <1>1, <1>2, <1>4, <2>1 DEF PutGlyph, Screens, At, Grids
<1> QED
  BY <1>3, <1>4

\* One character, whatever it is, leaves the cursor in the grid.
LEMMA WriteType ==
  ASSUME NEW s \in Screens, NEW c
  PROVE  scr_be_write(s, c) \in Screens
<1>1. s.grid \in Grids /\ s.row \in RowNos
  BY DEF Screens, Grids
<1> QED
  BY <1>1, NextRowType, PutGlyphType DEF scr_be_write

(***************************************************************************)
(* Sums over finite sets of numbers                                        *)
(***************************************************************************)
Weights == [Nat -> Nat]
FiniteNats == {S \in SUBSET Nat : IsFiniteSet(S)}
Pick(s) == CHOOSE x \in s : TRUE

\* The partial sums that MapThenSumSet is defined by, and the whole sum
IsSum(it, w, S) ==
  it = [s \in SUBSET S |-> IF s = {} THEN 0 ELSE w[Pick(s)] + it[s \ {Pick(s)}]]
Total(w, S) == (CHOOSE it : IsSum(it, w, S))[S]

\* A set of numbers has a least one.
LEMMA Least ==
  ASSUME NEW T \in SUBSET Nat, T # {}
  PROVE  \E n \in T : \A m \in T : n <= m
<1> DEFINE R == OpToRel(<, Nat)
<1>1. IsWellFoundedOn(R, Nat)
  BY NatLessThanWellFounded
<1>2. \A m, n \in Nat : <<m, n>> \in R <=> m < n
  BY DEF OpToRel
<1> HIDE DEF R
<1>3. \E n \in T : \A m \in T : ~(<<m, n>> \in R)
  BY <1>1, WFMin
<1>4. PICK n \in T : \A m \in T : ~(<<m, n>> \in R)
  BY <1>3
<1>5. ASSUME NEW m \in T PROVE n <= m
  <2>1. m \in Nat /\ n \in Nat /\ ~(m < n)
    BY <1>2, <1>4
  <2> QED BY <2>1
<1> QED BY <1>5

\* Taking an element away
LEMMA Without ==
  ASSUME NEW S \in FiniteNats, S # {}
  PROVE  /\ Pick(S) \in S /\ Pick(S) \in Nat /\ S \ {Pick(S)} \in FiniteNats
         /\ Cardinality(S) \in Nat /\ Cardinality(S \ {Pick(S)}) \in Nat
         /\ Cardinality(S \ {Pick(S)}) < Cardinality(S)
<1>1. Pick(S) \in S /\ Pick(S) \in Nat
  BY DEF Pick, FiniteNats
<1>2. /\ IsFiniteSet(S \ {Pick(S)}) /\ Cardinality(S \ {Pick(S)}) = Cardinality(S) - 1
      /\ Cardinality(S) \in Nat /\ Cardinality(S \ {Pick(S)}) \in Nat
  BY <1>1, FS_RemoveElement, FS_CardinalityType DEF FiniteNats
<1>3. S \ {Pick(S)} \in SUBSET Nat
  BY DEF FiniteNats
<1>4. S \ {Pick(S)} \in FiniteNats
  BY <1>2, <1>3 DEF FiniteNats
<1>5. Cardinality(S \ {Pick(S)}) < Cardinality(S)
  BY <1>2
<1> QED BY <1>1, <1>2, <1>4, <1>5

\* Partial sums agree, whatever larger set they belong to.
LEMMA SumsAgree ==
  ASSUME NEW w \in Weights, NEW S \in FiniteNats, NEW T \in FiniteNats
  PROVE  \A it, jt : IsSum(it, w, S) /\ IsSum(jt, w, T)
           => \A s \in (SUBSET S) \cap (SUBSET T) : it[s] = jt[s]
<1> SUFFICES ASSUME NEW it, NEW jt, IsSum(it, w, S), IsSum(jt, w, T)
             PROVE  \A s \in (SUBSET S) \cap (SUBSET T) : it[s] = jt[s]
  OBVIOUS
<1> DEFINE Bad == {s \in (SUBSET S) \cap (SUBSET T) : it[s] # jt[s]}
           N == {Cardinality(s) : s \in Bad}
<1>1. \A s \in SUBSET S : s \in FiniteNats /\ Cardinality(s) \in Nat
  BY FS_Subset, FS_CardinalityType DEF FiniteNats
<1>2. SUFFICES ASSUME Bad # {} PROVE FALSE
  OBVIOUS
<1>3. PICK s \in Bad : \A r \in Bad : Cardinality(s) <= Cardinality(r)
  <2>1. N \in SUBSET Nat /\ N # {}
    BY <1>1, <1>2
  <2> HIDE DEF Bad
  <2>2. PICK n \in N : \A m \in N : n <= m
    <3> HIDE DEF N
    <3> QED BY <2>1, Least
  <2> QED BY <2>2
<1>4. s \in SUBSET S /\ s \in SUBSET T /\ it[s] # jt[s] /\ s \in FiniteNats
  BY <1>1
<1>5. /\ it[s] = (IF s = {} THEN 0 ELSE w[Pick(s)] + it[s \ {Pick(s)}])
      /\ jt[s] = (IF s = {} THEN 0 ELSE w[Pick(s)] + jt[s \ {Pick(s)}])
  BY <1>4 DEF IsSum
<1>6. s # {}
  BY <1>4, <1>5
<1>7. it[s \ {Pick(s)}] # jt[s \ {Pick(s)}]
  BY <1>4, <1>5, <1>6
<1>8. s \ {Pick(s)} \in Bad
  BY <1>4, <1>7
<1> HIDE DEF Bad
<1> QED BY <1>3, <1>4, <1>6, <1>8, Without

\* The sums exist.
LEMMA SumExists ==
  ASSUME NEW w \in Weights, NEW S \in FiniteNats
  PROVE  \E it : IsSum(it, w, S)
<1> DEFINE Bad == {s \in SUBSET S : ~\E it : IsSum(it, w, s)}
           N == {Cardinality(s) : s \in Bad}
<1>1. \A s \in SUBSET S : s \in FiniteNats /\ Cardinality(s) \in Nat
  BY FS_Subset, FS_CardinalityType DEF FiniteNats
<1>2. SUFFICES ASSUME Bad # {} PROVE FALSE
  OBVIOUS
<1>3. PICK s \in Bad : \A r \in Bad : Cardinality(s) <= Cardinality(r)
  <2>1. N \in SUBSET Nat /\ N # {}
    BY <1>1, <1>2
  <2> HIDE DEF Bad
  <2>2. PICK n \in N : \A m \in N : n <= m
    <3> HIDE DEF N
    <3> QED BY <2>1, Least
  <2> QED BY <2>2
<1>4. s \in SUBSET S /\ s \in FiniteNats /\ ~\E it : IsSum(it, w, s)
  BY <1>1
<1>5. ASSUME NEW r \in SUBSET s, r # s PROVE \E it : IsSum(it, w, r)
  <2>1. r \in SUBSET S /\ r \in FiniteNats
    BY <1>1, <1>4
  <2>2. Cardinality(r) < Cardinality(s)
    <3>1. /\ IsFiniteSet(s) /\ Cardinality(r) \in Nat /\ Cardinality(s) \in Nat
          /\ Cardinality(r) <= Cardinality(s) /\ Cardinality(r) # Cardinality(s)
      BY <1>1, <1>4, <1>5, <2>1, FS_Subset DEF FiniteNats
    <3> QED BY <3>1
  <2>3. r \notin Bad
    <3> HIDE DEF Bad
    <3>1. Cardinality(r) \in Nat /\ Cardinality(s) \in Nat
      BY <1>1, <1>4, <2>1
    <3> QED BY <1>3, <2>2, <3>1
  <2> QED BY <2>1, <2>3
<1> HIDE DEF Bad, N
<1> DEFINE Rest(r) == r \ {Pick(r)}
           g == [r \in SUBSET s |-> IF r = {} THEN 0 ELSE w[Pick(r)] + Total(w, Rest(r))]
<1>6. ASSUME NEW r \in SUBSET s, r # s PROVE g[r] = Total(w, r)
  <2>1. PICK it : it = (CHOOSE i : IsSum(i, w, r)) /\ IsSum(it, w, r)
    BY <1>5, <1>6
  <2>2. Total(w, r) = it[r]
    BY <2>1 DEF Total
  <2>3. it[r] = IF r = {} THEN 0 ELSE w[Pick(r)] + it[Rest(r)]
    BY <2>1 DEF IsSum
  <2>4. r # {} => it[Rest(r)] = Total(w, Rest(r))
    <3> SUFFICES ASSUME r # {} PROVE it[Rest(r)] = Total(w, Rest(r))
      OBVIOUS
    <3>1. Rest(r) \in SUBSET r /\ Rest(r) \in SUBSET s /\ Rest(r) # s
      BY <1>6
    <3>2. PICK jt : jt = (CHOOSE i : IsSum(i, w, Rest(r))) /\ IsSum(jt, w, Rest(r))
      BY <1>5, <3>1
    <3>3. r \in FiniteNats /\ Rest(r) \in FiniteNats
      BY <1>1, <1>4, <3>1
    <3>4. it[Rest(r)] = jt[Rest(r)]
      <4> HIDE DEF Rest
      <4> QED BY <2>1, <3>1, <3>2, <3>3, SumsAgree
    <3> QED BY <3>2, <3>4 DEF Total
  <2> QED BY <2>2, <2>3, <2>4
<1>7. IsSum(g, w, s)
  <2>1. ASSUME NEW r \in SUBSET s, r # {} PROVE Total(w, Rest(r)) = g[Rest(r)]
    <3>1. Rest(r) \in SUBSET s /\ Rest(r) # s
      <4>1. Pick(r) \in r
        BY <2>1 DEF Pick
      <4> QED BY <4>1
    <3> HIDE DEF g, Rest
    <3> QED BY <1>6, <3>1
  <2>2. ASSUME NEW r \in SUBSET s
        PROVE  (IF r = {} THEN 0 ELSE w[Pick(r)] + Total(w, Rest(r)))
                 = (IF r = {} THEN 0 ELSE w[Pick(r)] + g[Rest(r)])
    <3> HIDE DEF g, Rest
    <3> QED BY <2>1
  <2>3. g = [r \in SUBSET s |-> IF r = {} THEN 0 ELSE w[Pick(r)] + g[Rest(r)]]
    <3> DEFINE A(r) == IF r = {} THEN 0 ELSE w[Pick(r)] + Total(w, Rest(r))
               B(r) == IF r = {} THEN 0 ELSE w[Pick(r)] + g[Rest(r)]
    <3>1. g = [r \in SUBSET s |-> A(r)]
      OBVIOUS
    <3>2. \A r \in SUBSET s : A(r) = B(r)
      BY <2>2
    <3> HIDE DEF A, B, g
    <3>3. g = [r \in SUBSET s |-> B(r)]
      BY <3>1, <3>2
    <3> QED BY <3>3 DEF B
  <2> HIDE DEF g
  <2> QED BY <2>3 DEF IsSum
<1> QED BY <1>4, <1>7

\* The sum of no number, and of the rest and one more
LEMMA TotalIs ==
  ASSUME NEW w \in Weights, NEW S \in FiniteNats
  PROVE  Total(w, S) = IF S = {} THEN 0 ELSE w[Pick(S)] + Total(w, S \ {Pick(S)})
<1>1. PICK it : it = (CHOOSE i : IsSum(i, w, S)) /\ IsSum(it, w, S)
  BY SumExists
<1>2. it[S] = IF S = {} THEN 0 ELSE w[Pick(S)] + it[S \ {Pick(S)}]
  BY <1>1 DEF IsSum
<1>3. ASSUME S # {} PROVE it[S \ {Pick(S)}] = Total(w, S \ {Pick(S)})
  <2> DEFINE R == S \ {Pick(S)}
  <2>1. R \in FiniteNats /\ R \in SUBSET S
    BY <1>3, Without
  <2> HIDE DEF R
  <2>2. PICK jt : jt = (CHOOSE i : IsSum(i, w, R)) /\ IsSum(jt, w, R)
    BY <2>1, SumExists
  <2>3. it[R] = jt[R]
    BY <1>1, <2>1, <2>2, SumsAgree
  <2>4. it[R] = Total(w, R)
    BY <2>2, <2>3 DEF Total
  <2> QED BY <2>4 DEF R
<1>4. Total(w, S) = it[S]
  BY <1>1 DEF Total
<1> QED BY <1>2, <1>3, <1>4

\* A sum of numbers is a number.
LEMMA TotalNat ==
  ASSUME NEW w \in Weights, NEW S \in FiniteNats
  PROVE  Total(w, S) \in Nat
<1> DEFINE Bad == {s \in SUBSET S : Total(w, s) \notin Nat}
           N == {Cardinality(s) : s \in Bad}
<1>1. \A s \in SUBSET S : s \in FiniteNats /\ Cardinality(s) \in Nat
  BY FS_Subset, FS_CardinalityType DEF FiniteNats
<1>2. SUFFICES ASSUME Bad # {} PROVE FALSE
  OBVIOUS
<1>3. PICK s \in Bad : \A r \in Bad : Cardinality(s) <= Cardinality(r)
  <2>1. N \in SUBSET Nat /\ N # {}
    BY <1>1, <1>2
  <2> HIDE DEF Bad
  <2>2. PICK n \in N : \A m \in N : n <= m
    <3> HIDE DEF N
    <3> QED BY <2>1, Least
  <2> QED BY <2>2
<1>4. s \in SUBSET S /\ s \in FiniteNats /\ Total(w, s) \notin Nat
  BY <1>1
<1>5. s # {} /\ Total(w, s) = w[Pick(s)] + Total(w, s \ {Pick(s)})
  <2>1. Total(w, s) = IF s = {} THEN 0 ELSE w[Pick(s)] + Total(w, s \ {Pick(s)})
    BY <1>4, TotalIs
  <2>2. s = {} => Total(w, s) = 0
    BY <2>1
  <2>3. 0 \in Nat
    OBVIOUS
  <2>4. s # {}
    BY <1>4, <2>2, <2>3
  <2> QED BY <2>1, <2>4
<1>6. Total(w, s \ {Pick(s)}) \notin Nat
  <2>1. w[Pick(s)] \in Nat
    BY <1>4, <1>5, Without DEF Weights
  <2> QED BY <1>4, <1>5, <2>1
<1>7. s \ {Pick(s)} \in Bad
  BY <1>4, <1>6
<1> HIDE DEF Bad
<1> QED BY <1>3, <1>4, <1>5, <1>7, Without

\* The order of summation does not matter.
LEMMA TotalAdd ==
  ASSUME NEW w \in Weights, NEW S \in FiniteNats, NEW x \in Nat \ S
  PROVE  S \cup {x} \in FiniteNats /\ Total(w, S \cup {x}) = Total(w, S) + w[x]
<1> DEFINE Bad == {s \in SUBSET S : \E y \in Nat \ s : Total(w, s \cup {y}) # Total(w, s) + w[y]}
           N == {Cardinality(s) : s \in Bad}
<1>1. \A s \in SUBSET S : s \in FiniteNats /\ Cardinality(s) \in Nat
  BY FS_Subset, FS_CardinalityType DEF FiniteNats
<1>2. S \cup {x} \in FiniteNats
  BY FS_AddElement DEF FiniteNats
<1>3. SUFFICES ASSUME Bad # {} PROVE FALSE
  BY <1>2
<1>4. PICK s \in Bad : \A r \in Bad : Cardinality(s) <= Cardinality(r)
  <2>1. N \in SUBSET Nat /\ N # {}
    BY <1>1, <1>3
  <2> HIDE DEF Bad
  <2>2. PICK n \in N : \A m \in N : n <= m
    <3> HIDE DEF N
    <3> QED BY <2>1, Least
  <2> QED BY <2>2
<1>5. PICK y \in Nat \ s : Total(w, s \cup {y}) # Total(w, s) + w[y]
  OBVIOUS
<1>6. s \in SUBSET S /\ s \in FiniteNats
  BY <1>1
<1> DEFINE sy == s \cup {y}
           c == Pick(sy)
<1>7. sy \in FiniteNats /\ sy # {} /\ c \in sy
  <2>1. sy \in FiniteNats
    BY <1>6, FS_AddElement DEF FiniteNats
  <2> QED BY <2>1 DEF Pick
<1>8. Total(w, sy) = w[c] + Total(w, sy \ {c})
  <2> HIDE DEF sy, c
  <2> QED BY <1>7, TotalIs DEF c
<1>9. CASE c = y
  <2>1. sy \ {c} = s
    BY <1>9
  <2>2. w[y] \in Nat /\ Total(w, s) \in Nat
    BY <1>6, TotalNat DEF Weights
  <2> QED BY <1>5, <1>8, <1>9, <2>1, <2>2
<1>10. CASE c # y
  <2> DEFINE r == s \ {c}
  <2>0. c \in s
    <3> HIDE DEF c
    <3> QED BY <1>7, <1>10
  <2>1. c \in s /\ r \in SUBSET S /\ r \in FiniteNats /\ sy \ {c} = r \cup {y}
        /\ y \in Nat \ r /\ c \in Nat \ r /\ s = r \cup {c}
    <3> HIDE DEF c
    <3>1. r \in SUBSET S /\ r \in FiniteNats
      BY <1>1, <1>6
    <3>2. c \in Nat
      BY <1>6, <2>0 DEF FiniteNats
    <3>3. sy \ {c} = r \cup {y}
      BY <1>10
    <3>4. s = r \cup {c}
      BY <2>0
    <3> QED BY <2>0, <3>1, <3>2, <3>3, <3>4
  <2>2. Cardinality(r) < Cardinality(s)
    <3>1. IsFiniteSet(s)
      BY <1>6 DEF FiniteNats
    <3>2. Cardinality(s) \in Nat /\ Cardinality(r) = Cardinality(s) - 1
      <4> HIDE DEF c
      <4> QED BY <2>0, <3>1, FS_RemoveElement, FS_CardinalityType
    <3> HIDE DEF r
    <3> QED BY <3>2
  <2>3. r \notin Bad
    <3> HIDE DEF Bad, r
    <3>1. Cardinality(r) \in Nat /\ Cardinality(s) \in Nat
      BY <1>1, <1>6, <2>1
    <3> QED BY <1>4, <2>2, <3>1
  <2>4. /\ Total(w, r \cup {y}) = Total(w, r) + w[y]
        /\ Total(w, s) = Total(w, r) + w[c]
    BY <2>1, <2>3
  <2>5. PICK a \in Nat, b \in Nat, d \in Nat : a = Total(w, r) /\ b = w[y] /\ d = w[c]
    BY <2>1, TotalNat DEF Weights
  <2>6. Total(w, sy) = d + (a + b) /\ Total(w, s) = a + d
    BY <1>8, <2>1, <2>4, <2>5
  <2>7. d + (a + b) = (a + d) + b
    OBVIOUS
  <2> QED BY <1>5, <2>5, <2>6, <2>7
<1> QED BY <1>9, <1>10

\* Sums over sets on which the weights agree are equal.
LEMMA TotalSame ==
  ASSUME NEW w \in Weights, NEW v \in Weights, NEW S \in FiniteNats, \A x \in S : w[x] = v[x]
  PROVE  Total(w, S) = Total(v, S)
<1>1. PICK it : it = (CHOOSE i : IsSum(i, w, S)) /\ IsSum(it, w, S)
  BY SumExists
<1>2. PICK jt : jt = (CHOOSE i : IsSum(i, v, S)) /\ IsSum(jt, v, S)
  BY SumExists
<1>3. IsSum(it, v, S)
  <2>1. \A s \in SUBSET S : s # {} => Pick(s) \in S
    BY DEF Pick
  <2> DEFINE A(s) == IF s = {} THEN 0 ELSE w[Pick(s)] + it[s \ {Pick(s)}]
             B(s) == IF s = {} THEN 0 ELSE v[Pick(s)] + it[s \ {Pick(s)}]
  <2>2. it = [s \in SUBSET S |-> A(s)]
    BY <1>1 DEF IsSum
  <2>3. \A s \in SUBSET S : A(s) = B(s)
    BY <2>1
  <2> HIDE DEF A, B
  <2>4. it = [s \in SUBSET S |-> B(s)]
    BY <2>2, <2>3
  <2> QED BY <2>4 DEF IsSum, B
<1>4. it[S] = jt[S]
  BY <1>2, <1>3, SumsAgree
<1> QED BY <1>1, <1>2, <1>4 DEF Total

(***************************************************************************)
(* The sheet of a text t, the definitions of Screen with the text as a     *)
(* parameter                                                               *)
(***************************************************************************)
Texts == Seq(Glyphs \cup Controls \cup {NL})
Places(t, n, S) == {i \in 1..(n - 1) : t[i] \in S}
LineOf(t, n) == Cardinality(Places(t, n, {NL}))
OffsetOf(t, n) == Cardinality({i \in Places(t, n, Glyphs) : LineOf(t, i) = LineOf(t, n)})
RowsOf(t) == [e \in Nat |-> OffsetOf(t, e) \div SCR_COLS + 1]
LinesAbove(t, n) == {e \in Places(t, Len(t) + 1, {NL}) : LineOf(t, e) < LineOf(t, n)}
BaseOf(t, n) == Total(RowsOf(t), LinesAbove(t, n))
RowOf(t, n) == BaseOf(t, n) + OffsetOf(t, n) \div SCR_COLS
ColOf(t, n) == OffsetOf(t, n) % SCR_COLS

\* The rows of a width, and what is left
LEMMA Rows ==
  ASSUME NEW o \in Nat
  PROVE  o \div SCR_COLS \in Nat /\ o % SCR_COLS \in ColNos
<1> DEFINE N == SCR_COLS
<1>1. N \in Nat \ {0}
  BY GridAssumption
<1> HIDE DEF N
<1>2. o \div N \in Nat /\ o % N \in 0..(N - 1)
  BY <1>1, SMT
<1> QED BY <1>2 DEF N, ColNos

\* Positions are finitely many.
LEMMA PlacesFinite ==
  ASSUME NEW t, NEW n \in Nat, NEW S
  PROVE  /\ Places(t, n, S) \in FiniteNats
         /\ \A A \in SUBSET Places(t, n, S) : A \in FiniteNats /\ IsFiniteSet(A) /\ Cardinality(A) \in Nat
<1>1. IsFiniteSet(1..(n - 1)) 
  BY FS_Interval
<1>2. Places(t, n, S) \in SUBSET (1..(n - 1)) /\ 1..(n - 1) \in SUBSET Nat
  BY DEF Places
<1>3. \A A \in SUBSET (1..(n - 1)) : IsFiniteSet(A)
  BY <1>1, FS_Subset
<1>4. \A A \in SUBSET (1..(n - 1)) : Cardinality(A) \in Nat
  BY <1>3, FS_CardinalityType
<1> QED BY <1>2, <1>3, <1>4 DEF FiniteNats

\* Rows, columns and what they are computed from
LEMMA SheetTypes ==
  ASSUME NEW t \in Texts, NEW n \in Nat
  PROVE  /\ LineOf(t, n) \in Nat /\ OffsetOf(t, n) \in Nat
         /\ RowsOf(t) \in Weights /\ LinesAbove(t, n) \in FiniteNats
         /\ BaseOf(t, n) \in Nat /\ RowOf(t, n) \in Nat /\ ColOf(t, n) \in ColNos
<1>1. LineOf(t, n) \in Nat
  BY PlacesFinite DEF LineOf
<1>2. \A m \in Nat : OffsetOf(t, m) \in Nat
  <2> TAKE m \in Nat
  <2>1. {i \in Places(t, m, Glyphs) : LineOf(t, i) = LineOf(t, m)} \in SUBSET Places(t, m, Glyphs)
    OBVIOUS
  <2> QED BY <2>1, PlacesFinite DEF OffsetOf
<1>3. RowsOf(t) \in Weights
  <2>1. \A m \in Nat : OffsetOf(t, m) \div SCR_COLS + 1 \in Nat
    BY <1>2, Rows
  <2> QED BY <2>1 DEF RowsOf, Weights
<1>4. LinesAbove(t, n) \in FiniteNats
  <2>1. LinesAbove(t, n) \in SUBSET Places(t, Len(t) + 1, {NL})
    BY DEF LinesAbove
  <2>2. Len(t) + 1 \in Nat
    BY DEF Texts
  <2> QED BY <2>1, <2>2, PlacesFinite
<1>5. BaseOf(t, n) \in Nat
  BY <1>3, <1>4, TotalNat DEF BaseOf
<1>6. OffsetOf(t, n) \div SCR_COLS \in Nat /\ ColOf(t, n) \in ColNos
  BY <1>2, Rows DEF ColOf
<1>7. RowOf(t, n) \in Nat
  BY <1>5, <1>6 DEF RowOf
<1> QED BY <1>1, <1>2, <1>3, <1>4, <1>5, <1>6, <1>7

\* The sheet of Screen is that of its text.
LEMMA SheetIs ==
  ASSUME text \in Texts, NEW n \in Nat
  PROVE  /\ Line(n) = LineOf(text, n) /\ Offset(n) = OffsetOf(text, n)
         /\ Base(n) = BaseOf(text, n)
<1>1. ASSUME NEW m \in Nat PROVE Line(m) = LineOf(text, m) /\ Offset(m) = OffsetOf(text, m)
  BY DEF Line, LineOf, Offset, OffsetOf, Before, Places
<1>2. {e \in LineEnds : Line(e) < Line(n)} = LinesAbove(text, n)
  BY DEF LineEnds, LinesAbove, Before, Places, Line, LineOf
<1> DEFINE S == LinesAbove(text, n)
           Iter(it) == it = [s \in SUBSET S |->
                               IF s = {} THEN 0
                               ELSE (Offset(CHOOSE x \in s : TRUE) \div SCR_COLS + 1)
                                      + it[s \ {CHOOSE x \in s : TRUE}]]
<1>3. Base(n) = (CHOOSE it : Iter(it))[S]
  BY <1>2, Zenon DEF Base, MapThenSumSet, MapThenFoldSet
<1>4. ASSUME NEW it PROVE Iter(it) <=> IsSum(it, RowsOf(text), S)
  <2> DEFINE A(s) == IF s = {} THEN 0 ELSE (Offset(CHOOSE x \in s : TRUE) \div SCR_COLS + 1)
                                      + it[s \ {CHOOSE x \in s : TRUE}]
             B(s) == IF s = {} THEN 0 ELSE RowsOf(text)[Pick(s)] + it[s \ {Pick(s)}]
  <2>1. \A s \in SUBSET S : A(s) = B(s)
    <3> SUFFICES ASSUME NEW s \in SUBSET S, s # {} PROVE A(s) = B(s)
      OBVIOUS
    <3>1. Pick(s) \in Nat
      <4>1. S \in FiniteNats
        BY SheetTypes
      <4> QED BY <4>1 DEF Pick, FiniteNats
    <3>2. RowsOf(text)[Pick(s)] = Offset(Pick(s)) \div SCR_COLS + 1
      BY <1>1, <3>1 DEF RowsOf
    <3> QED BY <3>2, Zenon DEF Pick
  <2>2. Iter(it) <=> it = [s \in SUBSET S |-> A(s)]
    OBVIOUS
  <2>3. IsSum(it, RowsOf(text), S) <=> it = [s \in SUBSET S |-> B(s)]
    BY DEF IsSum
  <2> HIDE DEF A, B
  <2> QED BY <2>1, <2>2, <2>3
<1> HIDE DEF Iter
<1>5. Base(n) = BaseOf(text, n)
  <2>1. (CHOOSE it : Iter(it)) = (CHOOSE it : IsSum(it, RowsOf(text), S))
    BY <1>4
  <2> QED BY <1>3, <2>1 DEF BaseOf, Total
<1> QED BY <1>1, <1>5

(***************************************************************************)
(* The sheet under one more character                                      *)
(***************************************************************************)
AnyChar == Glyphs \cup Controls \cup {NL}

\* A character at the end of a text
LEMMA TextGrows ==
  ASSUME NEW t \in Texts, NEW c \in AnyChar
  PROVE  /\ Len(t) \in Nat /\ Append(t, c) \in Texts /\ Len(Append(t, c)) = Len(t) + 1
         /\ \A i \in 1..Len(t) : Append(t, c)[i] = t[i]
         /\ Append(t, c)[Len(t) + 1] = c
<1> QED BY DEF Texts, AnyChar

\* A later place is on the same line or one below it; behind a line end it is
\* below.
LEMMA LinesMonotone ==
  ASSUME NEW t, NEW m \in Nat, NEW n \in Nat, m <= n
  PROVE  /\ LineOf(t, m) <= LineOf(t, n)
         /\ m # 0 /\ m < n /\ t[m] = NL => LineOf(t, m) < LineOf(t, n)
<1>1. Places(t, m, {NL}) \subseteq Places(t, n, {NL})
  BY DEF Places
<1>2. /\ IsFiniteSet(Places(t, n, {NL})) /\ IsFiniteSet(Places(t, m, {NL}))
      /\ Cardinality(Places(t, n, {NL})) \in Nat /\ Cardinality(Places(t, m, {NL})) \in Nat
  BY PlacesFinite
<1>3. Cardinality(Places(t, m, {NL})) <= Cardinality(Places(t, n, {NL}))
  BY <1>1, <1>2, FS_Subset
<1>4. ASSUME m # 0, m < n, t[m] = NL
      PROVE  Cardinality(Places(t, m, {NL})) # Cardinality(Places(t, n, {NL}))
  <2>1. m \in Places(t, n, {NL}) /\ m \notin Places(t, m, {NL})
    BY <1>4 DEF Places
  <2>2. Places(t, m, {NL}) # Places(t, n, {NL})
    BY <2>1
  <2> QED BY <1>1, <1>2, <2>2, FS_Subset
<1> QED BY <1>2, <1>3, <1>4 DEF LineOf

\* Nothing that is written moves.
LEMMA SheetStays ==
  ASSUME NEW t \in Texts, NEW c \in AnyChar, NEW n \in 1..(Len(t) + 1)
  PROVE  /\ LineOf(Append(t, c), n) = LineOf(t, n)
         /\ OffsetOf(Append(t, c), n) = OffsetOf(t, n)
         /\ LinesAbove(Append(t, c), n) = LinesAbove(t, n)
         /\ RowOf(Append(t, c), n) = RowOf(t, n)
         /\ ColOf(Append(t, c), n) = ColOf(t, n)
<1> DEFINE u == Append(t, c)
           e0 == Len(t) + 1
<1>1. /\ Len(t) \in Nat /\ e0 \in Nat /\ u \in Texts /\ Len(u) = e0 /\ n \in 1..e0
      /\ \A i \in Nat : i # 0 /\ i < e0 => u[i] = t[i]
  BY TextGrows
<1>2. Len(t) + 1 = e0
  OBVIOUS
<1> HIDE DEF u, e0
<1>3. \A m \in 1..e0 : \A S : Places(u, m, S) = Places(t, m, S)
  BY <1>1 DEF Places
<1>4. \A m \in 1..e0 : LineOf(u, m) = LineOf(t, m)
  BY <1>3 DEF LineOf
<1>5. ASSUME NEW m \in 1..e0 PROVE OffsetOf(u, m) = OffsetOf(t, m)
  <2>1. Places(t, m, Glyphs) \subseteq 1..e0
    BY <1>1 DEF Places
  <2>2. {i \in Places(u, m, Glyphs) : LineOf(u, i) = LineOf(u, m)}
          = {i \in Places(t, m, Glyphs) : LineOf(t, i) = LineOf(t, m)}
    BY <1>3, <1>4, <2>1
  <2> QED BY <2>2 DEF OffsetOf
<1>6. LinesAbove(u, n) = LinesAbove(t, n)
  <2>1. \A e \in 1..e0 : e \in Places(u, Len(u) + 1, {NL}) <=> e \in Places(t, e0, {NL}) \/ (e = e0 /\ u[e0] = NL)
    BY <1>1 DEF Places
  <2>2. Places(u, Len(u) + 1, {NL}) \subseteq 1..e0 /\ Places(t, e0, {NL}) \subseteq 1..e0
    BY <1>1 DEF Places
  <2>3. ~(LineOf(t, e0) < LineOf(t, n))
    <3>1. LineOf(t, n) <= LineOf(t, e0)
      BY <1>1, LinesMonotone
    <3>2. LineOf(t, n) \in Nat /\ LineOf(t, e0) \in Nat
      BY <1>1, SheetTypes
    <3> QED BY <3>1, <3>2
  <2>4. e0 \in 1..e0
    BY <1>1
  <2> QED BY <1>1, <1>2, <1>4, <2>1, <2>2, <2>3, <2>4 DEF LinesAbove
<1>7. BaseOf(u, n) = BaseOf(t, n)
  <2>1. \A e \in LinesAbove(t, n) : RowsOf(u)[e] = RowsOf(t)[e]
    <3>1. LinesAbove(t, n) \subseteq 1..e0
      BY <1>1, <1>2 DEF LinesAbove, Places
    <3> QED BY <1>1, <1>5, <3>1 DEF RowsOf
  <2>2. RowsOf(u) \in Weights /\ RowsOf(t) \in Weights /\ LinesAbove(t, n) \in FiniteNats
    BY <1>1, SheetTypes
  <2> QED BY <1>6, <2>1, <2>2, TotalSame DEF BaseOf
<1>8. /\ LineOf(u, n) = LineOf(t, n) /\ OffsetOf(u, n) = OffsetOf(t, n)
  BY <1>1, <1>4, <1>5
<1> QED BY <1>6, <1>7, <1>8 DEF RowOf, ColOf, u

\* Where the next glyph goes
NextPlace(r, k, c) ==
  IF c = NL THEN <<r + 1, 0>>
  ELSE IF c \in Glyphs THEN IF k + 1 >= SCR_COLS THEN <<r + 1, 0>> ELSE <<r, k + 1>>
  ELSE <<r, k>>

\* Rows and what is left determine the number.
LEMMA Division ==
  ASSUME NEW N \in Nat \ {0}, NEW q \in Nat, NEW r \in Nat, r < N
  PROVE  (q * N + r) \div N = q /\ (q * N + r) % N = r
<1> QED BY SMT

\* One more glyph, in a row of so many
LEMMA OneMore ==
  ASSUME NEW o \in Nat
  PROVE  <<(o + 1) \div SCR_COLS, (o + 1) % SCR_COLS>> =
           IF (o % SCR_COLS) + 1 >= SCR_COLS THEN <<o \div SCR_COLS + 1, 0>>
           ELSE <<o \div SCR_COLS, (o % SCR_COLS) + 1>>
<1> DEFINE N == SCR_COLS
<1>1. N \in Nat \ {0}
  BY GridAssumption
<1>2. PICK q \in Nat, r \in Nat : q = o \div N /\ r = o % N
  BY Rows DEF ColNos
<1> HIDE DEF N
<1>3. o = q * N + r /\ r < N
  BY <1>1, <1>2
<1>4. CASE r + 1 >= N
  <2> DEFINE p == q + 1
  <2>1. PICK z \in Nat : z = 0 /\ z < N /\ p \in Nat /\ o + 1 = p * N + z
    BY <1>1, <1>2, <1>3, <1>4
  <2> HIDE DEF p
  <2>2. (p * N + z) \div N = p /\ (p * N + z) % N = z
    BY <1>1, <2>1, Division
  <2>3. (o + 1) \div N = q + 1 /\ (o + 1) % N = 0
    BY <2>1, <2>2 DEF p
  <2> QED BY <1>2, <1>4, <2>3 DEF N
<1>5. CASE ~(r + 1 >= N)
  <2>1. o + 1 = q * N + (r + 1) /\ r + 1 < N
    BY <1>1, <1>2, <1>3, <1>5
  <2>2. (o + 1) \div N = q /\ (o + 1) % N = r + 1
    BY <1>1, <1>2, <2>1
  <2> QED BY <1>2, <1>5, <2>2 DEF N
<1> QED BY <1>4, <1>5

\* The end of the text moves as the cursor would without a last row.
LEMMA EndMoves ==
  ASSUME NEW t \in Texts, NEW c \in AnyChar
  PROVE  <<RowOf(Append(t, c), Len(t) + 2), ColOf(Append(t, c), Len(t) + 2)>>
           = NextPlace(RowOf(t, Len(t) + 1), ColOf(t, Len(t) + 1), c)
<1> DEFINE u == Append(t, c)
           e == Len(t) + 1
           d == Len(t) + 2
<1>1. /\ Len(t) \in Nat /\ e \in Nat /\ e # 0 /\ d = e + 1 /\ u \in Texts /\ Len(u) = e /\ u[e] = c
      /\ \A i \in Nat : i # 0 /\ i < e => u[i] = t[i]
  BY TextGrows
<1>2. \A n \in 1..e : LineOf(u, n) = LineOf(t, n) /\ OffsetOf(u, n) = OffsetOf(t, n)
  BY SheetStays
<1>3. Len(t) + 1 = e /\ Len(t) + 2 = d
  OBVIOUS
<1> HIDE DEF u, e, d
<1>4. \A S : Places(u, d, S) = IF c \in S THEN Places(t, e, S) \cup {e} ELSE Places(t, e, S)
  <2> TAKE S
  <2>1. \A i \in Nat : i # 0 /\ i < d <=> (i # 0 /\ i < e) \/ i = e
    BY <1>1
  <2>2. /\ \A i : i \in Places(u, d, S) <=> i \in Nat /\ i # 0 /\ i < d /\ u[i] \in S
        /\ \A i : i \in Places(t, e, S) <=> i \in Nat /\ i # 0 /\ i < e /\ t[i] \in S
    BY <1>1 DEF Places
  <2>3. \A i : i \in Places(t, e, S) => i # e
    BY <1>1, <2>2
  <2>4. \A i : i \in Places(u, d, S) <=> i \in Places(t, e, S) \/ (i = e /\ c \in S)
    BY <1>1, <2>1, <2>2
  <2> QED BY <2>4
<1>5. e \in 1..e /\ \A S : Places(t, e, S) \subseteq 1..e /\ e \notin Places(t, e, S)
  BY <1>1 DEF Places
<1>6. \A n \in 1..e : LineOf(t, n) \in Nat /\ LineOf(t, n) <= LineOf(t, e)
  <2> TAKE n \in 1..e
  <2>1. n \in Nat /\ n <= e
    BY <1>1
  <2> QED BY <1>1, <2>1, SheetTypes, LinesMonotone
<1>7. \A i \in Places(t, e, {NL}) : LineOf(t, i) < LineOf(t, e)
  <2> TAKE i \in Places(t, e, {NL})
  <2>1. i \in Nat /\ i # 0 /\ i < e /\ t[i] = NL
    BY <1>1 DEF Places
  <2> QED BY <1>1, <2>1, LinesMonotone
<1>8. LinesAbove(t, e) = Places(t, e, {NL})
  BY <1>3, <1>7 DEF LinesAbove
<1>9. /\ \A S : Places(t, e, S) \in FiniteNats
      /\ RowsOf(u) \in Weights /\ RowsOf(t) \in Weights
      /\ OffsetOf(t, e) \in Nat /\ BaseOf(t, e) \in Nat
  BY <1>1, PlacesFinite, SheetTypes
<1>10. \A i \in 1..e : RowsOf(u)[i] = RowsOf(t)[i]
  BY <1>1, <1>2 DEF RowsOf
<1>11. Total(RowsOf(u), Places(t, e, {NL})) = BaseOf(t, e)
  <2>1. \A i \in Places(t, e, {NL}) : RowsOf(u)[i] = RowsOf(t)[i]
    BY <1>5, <1>10
  <2>2. Places(t, e, {NL}) \in FiniteNats
    BY <1>9
  <2> HIDE DEF FiniteNats
  <2>3. Total(RowsOf(u), Places(t, e, {NL})) = Total(RowsOf(t), Places(t, e, {NL}))
    BY <1>9, <2>1, <2>2, TotalSame
  <2> QED BY <1>8, <2>3 DEF BaseOf
<1>12. LinesAbove(u, d) = {i \in Places(u, d, {NL}) : LineOf(u, i) < LineOf(u, d)}
  BY <1>1 DEF LinesAbove
<1>13. CASE c = NL
  <2>1. Places(u, d, {NL}) = Places(t, e, {NL}) \cup {e}
    BY <1>4, <1>13
  <2>2. LineOf(u, d) = LineOf(t, e) + 1
    BY <1>5, <1>9, <2>1, FS_AddElement DEF LineOf, FiniteNats
  <2>3. {i \in Places(u, d, Glyphs) : LineOf(u, i) = LineOf(u, d)} = {}
    <3>1. Places(u, d, Glyphs) = Places(t, e, Glyphs)
      BY <1>4, <1>13, GlyphAssumption
    <3>2. \A i \in 1..e : LineOf(u, i) # LineOf(u, d)
      BY <1>2, <1>5, <1>6, <2>2
    <3> QED BY <1>5, <3>1, <3>2
  <2>4. OffsetOf(u, d) = 0
    BY <2>3, FS_EmptySet DEF OffsetOf
  <2>5. LinesAbove(u, d) = Places(t, e, {NL}) \cup {e}
    <3>1. \A i \in 1..e : LineOf(u, i) < LineOf(u, d)
      BY <1>2, <1>5, <1>6, <2>2
    <3> QED BY <1>5, <1>12, <2>1, <3>1
  <2>6. BaseOf(u, d) = BaseOf(t, e) + RowsOf(u)[e]
    <3>1. Places(t, e, {NL}) \in FiniteNats /\ e \in Nat \ Places(t, e, {NL})
      BY <1>1, <1>5, <1>9
    <3>2. Total(RowsOf(u), Places(t, e, {NL}) \cup {e}) = Total(RowsOf(u), Places(t, e, {NL})) + RowsOf(u)[e]
      BY <1>9, <3>1, TotalAdd
    <3> QED BY <1>11, <2>5, <3>2 DEF BaseOf
  <2>7. RowsOf(u)[e] = OffsetOf(t, e) \div SCR_COLS + 1
    BY <1>1, <1>2, <1>5 DEF RowsOf
  <2>8. 0 \div SCR_COLS = 0 /\ 0 % SCR_COLS = 0
    BY GridAssumption
  <2>9. RowOf(u, d) = RowOf(t, e) + 1
    <3>1. PICK a \in Nat, b \in Nat : a = BaseOf(t, e) /\ b = OffsetOf(t, e) \div SCR_COLS
      BY <1>9, Rows
    <3>2. RowOf(u, d) = (a + (b + 1)) + 0 /\ RowOf(t, e) = a + b
      BY <2>4, <2>6, <2>7, <2>8, <3>1 DEF RowOf
    <3> QED BY <3>2
  <2> QED BY <1>3, <1>13, <2>4, <2>8, <2>9 DEF NextPlace, ColOf, u
<1>14. CASE c # NL
  <2>1. Places(u, d, {NL}) = Places(t, e, {NL})
    BY <1>4, <1>14
  <2>2. LineOf(u, d) = LineOf(t, e)
    BY <2>1 DEF LineOf
  <2>3. LinesAbove(u, d) = LinesAbove(t, e)
    BY <1>2, <1>5, <1>7, <1>8, <1>12, <2>1, <2>2
  <2>4. BaseOf(u, d) = BaseOf(t, e)
    BY <1>8, <1>11, <2>3 DEF BaseOf
  <2> DEFINE A == {i \in Places(t, e, Glyphs) : LineOf(t, i) = LineOf(t, e)}
  <2>5. OffsetOf(t, e) = Cardinality(A) /\ e \notin A /\ A \in FiniteNats
    BY <1>1, <1>5, PlacesFinite DEF OffsetOf
  <2>6. A = {i \in Places(t, e, Glyphs) : LineOf(u, i) = LineOf(u, d)} /\ LineOf(u, e) = LineOf(u, d)
    BY <1>2, <1>5, <2>2
  <2>7. CASE c \in Glyphs
    <3>1. {i \in Places(u, d, Glyphs) : LineOf(u, i) = LineOf(u, d)} = A \cup {e}
      BY <1>4, <2>6, <2>7
    <3>2. OffsetOf(u, d) = OffsetOf(t, e) + 1
      <4> HIDE DEF A
      <4> QED BY <2>5, <3>1, FS_AddElement DEF OffsetOf, FiniteNats
    <3>3. PICK a \in Nat, o \in Nat, b \in Nat, k \in ColNos :
            a = BaseOf(t, e) /\ o = OffsetOf(t, e) /\ b = o \div SCR_COLS /\ k = o % SCR_COLS
      BY <1>9, Rows
    <3>4. <<(o + 1) \div SCR_COLS, (o + 1) % SCR_COLS>> =
             IF k + 1 >= SCR_COLS THEN <<b + 1, 0>> ELSE <<b, k + 1>>
      BY <3>3, OneMore
    <3>5. RowOf(u, d) = a + (o + 1) \div SCR_COLS /\ ColOf(u, d) = (o + 1) % SCR_COLS
      BY <2>4, <3>2, <3>3 DEF RowOf, ColOf
    <3>6. RowOf(t, e) = a + b /\ ColOf(t, e) = k
      BY <3>3 DEF RowOf, ColOf
    <3>7. NextPlace(a + b, k, c) = IF k + 1 >= SCR_COLS THEN <<(a + b) + 1, 0>> ELSE <<a + b, k + 1>>
      BY <1>14, <2>7 DEF NextPlace
    <3>8. <<RowOf(u, d), ColOf(u, d)>> = NextPlace(a + b, k, c)
      BY <3>3, <3>4, <3>5, <3>7
    <3> QED BY <1>3, <3>6, <3>8 DEF u
  <2>8. CASE c \notin Glyphs
    <3>1. OffsetOf(u, d) = OffsetOf(t, e)
      BY <1>4, <2>5, <2>6, <2>8 DEF OffsetOf
    <3> QED BY <1>3, <1>14, <2>4, <2>8, <3>1 DEF NextPlace, RowOf, ColOf, u
  <2> QED BY <2>7, <2>8
<1> QED BY <1>13, <1>14

(***************************************************************************)
(* The grid as a window.  The glyphs of places P stand in rows r and       *)
(* columns k of the sheet; top is the row of the sheet in row 0 of the     *)
(* grid.                                                                   *)
(***************************************************************************)

TopAt(row) == IF row < SCR_ROWS THEN 0 ELSE row - SCR_ROWS + 1

Shown(g, top, P, r, k, v) ==
  /\ \A n \in P : r[n] >= top => g[r[n] - top][k[n]] = v[n]
  /\ \A i \in RowNos, j \in ColNos :
       (\A n \in P : ~(r[n] = top + i /\ k[n] = j)) => g[i][j] \in {NUL, Space}

\* The cursor is in the window, above nothing but blank cells.
LEMMA CursorRow ==
  ASSUME NEW row \in Nat
  PROVE  /\ TopAt(row) \in Nat /\ row - TopAt(row) \in RowNos /\ row = TopAt(row) + (row - TopAt(row))
         /\ row - TopAt(row) + 1 >= SCR_ROWS => TopAt(row + 1) = TopAt(row) + 1
         /\ ~(row - TopAt(row) + 1 >= SCR_ROWS) => TopAt(row + 1) = TopAt(row)
<1> QED BY GridAssumption DEF TopAt, RowNos

\* A row is scrolled out and an empty one in.
LEMMA ScrollShown ==
  ASSUME NEW g \in Grids, NEW c \in ColNos, NEW top \in Nat, NEW P \in SUBSET Nat,
         NEW r \in [Nat -> Nat], NEW k \in [Nat -> ColNos], NEW v,
         \A n \in P : r[n] <= top + (SCR_ROWS - 1),
         Shown(g, top, P, r, k, v)
  PROVE  Shown(scr_scroll(g, c).grid, top + 1, P, r, k, v)
<1> DEFINE h == scr_scroll(g, c).grid
<1>1. SCR_ROWS \in Nat \ {0}
  BY GridAssumption
<1>2. \A i \in RowNos : h[i] = IF i < SCR_ROWS - 1 THEN g[i + 1] ELSE BlankRow
  BY DEF scr_scroll, At
<1> HIDE DEF h
<1>3. ASSUME NEW n \in P, r[n] >= top + 1 PROVE h[r[n] - (top + 1)][k[n]] = v[n]
  <2>1. PICK a \in Nat : a = r[n]
    OBVIOUS
  <2>2. a >= top + 1 /\ a <= top + (SCR_ROWS - 1)
    BY <1>3, <2>1
  <2>3. /\ a - (top + 1) \in RowNos /\ a - (top + 1) < SCR_ROWS - 1
        /\ a - (top + 1) + 1 = a - top /\ a >= top
    BY <1>1, <2>2 DEF RowNos
  <2>4. h[a - (top + 1)] = g[a - top]
    BY <1>2, <2>3
  <2>5. g[a - top][k[n]] = v[n]
    BY <2>1, <2>3 DEF Shown
  <2> QED BY <2>1, <2>4, <2>5
<1>4. ASSUME NEW i \in RowNos, NEW j \in ColNos, \A n \in P : ~(r[n] = (top + 1) + i /\ k[n] = j)
      PROVE  h[i][j] \in {NUL, Space}
  <2>1. CASE i < SCR_ROWS - 1
    <3>1. i + 1 \in RowNos /\ (top + 1) + i = top + (i + 1)
      BY <1>1, <2>1 DEF RowNos
    <3>2. g[i + 1][j] \in {NUL, Space}
      BY <1>4, <3>1 DEF Shown
    <3> QED BY <1>2, <2>1, <3>2
  <2>2. CASE ~(i < SCR_ROWS - 1)
    BY <1>2, <2>2 DEF BlankRow
  <2> QED BY <2>1, <2>2
<1> QED BY <1>3, <1>4 DEF Shown, h

\* The cursor goes to the next row, in the grid or by a scroll.
LEMMA NextRowShown ==
  ASSUME NEW g \in Grids, NEW row \in Nat, NEW P \in SUBSET Nat,
         NEW r \in [Nat -> Nat], NEW k \in [Nat -> ColNos], NEW v,
         \A n \in P : r[n] <= row,
         Shown(g, TopAt(row), P, r, k, v)
  PROVE  LET s == NextRow(g, row - TopAt(row))
         IN  /\ s.row = (row + 1) - TopAt(row + 1) /\ s.col = 0
             /\ Shown(s.grid, TopAt(row + 1), P, r, k, v)
<1> DEFINE top == TopAt(row)
           y == row - top
<1>1. top \in Nat /\ y \in RowNos /\ row = top + y
  BY CursorRow
<1>2. 0 \in ColNos /\ SCR_ROWS \in Nat \ {0}
  BY GridAssumption DEF ColNos
<1>3. CASE y + 1 >= SCR_ROWS
  <2>1. TopAt(row + 1) = top + 1
    BY <1>3, CursorRow
  <2>2. y = SCR_ROWS - 1
    BY <1>1, <1>2, <1>3 DEF RowNos
  <2>3. NextRow(g, y) = scr_scroll(g, 0)
    BY <1>3 DEF NextRow
  <2> HIDE DEF y, top
  <2>4. Shown(scr_scroll(g, 0).grid, top + 1, P, r, k, v)
    <3>1. \A n \in P : r[n] <= top + (SCR_ROWS - 1)
      BY <1>1, <2>2
    <3> QED BY <1>1, <1>2, <3>1, ScrollShown DEF top
  <2>5. scr_scroll(g, 0).row = SCR_ROWS - 1 /\ scr_scroll(g, 0).col = 0
    BY DEF scr_scroll, At
  <2>6. SCR_ROWS - 1 = (row + 1) - (top + 1)
    BY <1>1, <1>2, <2>2
  <2> QED BY <2>1, <2>3, <2>4, <2>5, <2>6 DEF y, top
<1>4. CASE ~(y + 1 >= SCR_ROWS)
  <2>1. TopAt(row + 1) = top
    BY <1>4, CursorRow
  <2>2. NextRow(g, y) = At(g, y + 1, 0)
    BY <1>4 DEF NextRow
  <2>3. y + 1 = (row + 1) - top
    BY <1>1 DEF RowNos
  <2> HIDE DEF y, top
  <2> QED BY <2>1, <2>2, <2>3 DEF At, y, top
<1> QED BY <1>3, <1>4

\* A glyph under the cursor, where no other is
LEMMA StoreShown ==
  ASSUME NEW g \in Grids, NEW top \in Nat, NEW y \in RowNos, NEW x \in ColNos, NEW P \in SUBSET Nat,
         NEW r \in [Nat -> Nat], NEW k \in [Nat -> ColNos], NEW v, NEW e \in Nat \ P,
         r[e] = top + y, k[e] = x,
         \A n \in P : r[n] <= top + y, \A n \in P : ~(r[n] = r[e] /\ k[n] = k[e]),
         Shown(g, top, P, r, k, v)
  PROVE  Shown([g EXCEPT ![y][x] = v[e]], top, P \cup {e}, r, k, v)
<1> DEFINE h == [g EXCEPT ![y][x] = v[e]]
<1>1. \A i \in RowNos, j \in ColNos : h[i][j] = IF i = y /\ j = x THEN v[e] ELSE g[i][j]
  BY DEF Grids
<1>2. SCR_ROWS \in Nat \ {0}
  BY GridAssumption
<1> HIDE DEF h
<1>3. ASSUME NEW n \in P \cup {e}, r[n] >= top PROVE h[r[n] - top][k[n]] = v[n]
  <2>1. PICK a \in Nat, b \in ColNos : a = r[n] /\ b = k[n]
    OBVIOUS
  <2>2. a <= top + y
    BY <1>3, <2>1 DEF RowNos
  <2>3. a - top \in RowNos /\ (a - top = y <=> a = top + y)
    BY <1>2, <1>3, <2>1, <2>2 DEF RowNos
  <2>4. CASE n = e
    BY <1>1, <2>1, <2>3, <2>4
  <2>5. CASE n # e
    <3>1. ~(a - top = y /\ b = x)
      BY <1>3, <2>1, <2>3, <2>5
    <3>2. g[a - top][b] = v[n]
      BY <1>3, <2>1, <2>5 DEF Shown
    <3> QED BY <1>1, <2>1, <2>3, <3>1, <3>2
  <2> QED BY <2>4, <2>5
<1>4. ASSUME NEW i \in RowNos, NEW j \in ColNos, \A n \in P \cup {e} : ~(r[n] = top + i /\ k[n] = j)
      PROVE  h[i][j] \in {NUL, Space}
  <2>1. ~(i = y /\ j = x)
    BY <1>4
  <2>2. g[i][j] \in {NUL, Space}
    BY <1>4 DEF Shown
  <2> QED BY <1>1, <2>1, <2>2
<1> QED BY <1>3, <1>4 DEF Shown, h

(***************************************************************************)
(* The inductive invariant: every glyph stands before the cursor, no two   *)
(* in one place, and the grid shows those that have not scrolled out.      *)
(***************************************************************************)
RowsAt(t) == [n \in Nat |-> RowOf(t, n)]
ColsAt(t) == [n \in Nat |-> ColOf(t, n)]

InOrder(t, P, e) ==
  /\ \A n \in P : \/ RowOf(t, n) < RowOf(t, e)
                  \/ RowOf(t, n) = RowOf(t, e) /\ ColOf(t, n) < ColOf(t, e)
  /\ \A m, n \in P : RowOf(t, m) = RowOf(t, n) /\ ColOf(t, m) = ColOf(t, n) => m = n

Window(s, t) ==
  LET e == Len(t) + 1
      P == Places(t, e, Glyphs)
  IN  /\ s \in Screens /\ t \in Texts
      /\ s.row = RowOf(t, e) - TopAt(RowOf(t, e)) /\ s.col = ColOf(t, e)
      /\ InOrder(t, P, e)
      /\ Shown(s.grid, TopAt(RowOf(t, e)), P, RowsAt(t), ColsAt(t), t)

IInv == Window(scr, text)

\* The empty screen shows the empty text.
LEMMA FirstWindow == Window(EmptyScreen, <<>>)
<1> DEFINE t == <<>>
<1>1. t \in Texts /\ Len(t) = 0 /\ Len(t) + 1 = 1
  BY DEF Texts
<1>2. \A S : Places(t, 1, S) = {}
  BY DEF Places
<1>3. OffsetOf(t, 1) = 0
  <2>1. {i \in Places(t, 1, Glyphs) : LineOf(t, i) = LineOf(t, 1)} = {}
    BY <1>2
  <2> QED BY <2>1, FS_EmptySet DEF OffsetOf
<1>4. BaseOf(t, 1) = 0
  <2>1. LinesAbove(t, 1) = {}
    BY <1>1, <1>2 DEF LinesAbove
  <2>2. RowsOf(t) \in Weights /\ LinesAbove(t, 1) \in FiniteNats
    BY <1>1, SheetTypes
  <2> QED BY <2>1, <2>2, TotalIs DEF BaseOf
<1>5. 0 \div SCR_COLS = 0 /\ 0 % SCR_COLS = 0 /\ 0 \in RowNos /\ 0 \in ColNos /\ TopAt(0) = 0
  BY GridAssumption DEF RowNos, ColNos, TopAt
<1>6. RowOf(t, 1) = 0 /\ ColOf(t, 1) = 0
  BY <1>3, <1>4, <1>5 DEF RowOf, ColOf
<1>7. EmptyScreen \in Screens /\ EmptyScreen.row = 0 /\ EmptyScreen.col = 0
      /\ \A i \in RowNos, j \in ColNos : EmptyScreen.grid[i][j] = NUL
  BY <1>5 DEF EmptyScreen, Screens, At
<1>8. Shown(EmptyScreen.grid, 0, {}, RowsAt(t), ColsAt(t), t)
  BY <1>7 DEF Shown
<1> HIDE DEF t
<1>9. Places(t, Len(t) + 1, Glyphs) = {} /\ TopAt(RowOf(t, Len(t) + 1)) = 0 /\ ColOf(t, Len(t) + 1) = 0
      /\ EmptyScreen.row = RowOf(t, Len(t) + 1) - TopAt(RowOf(t, Len(t) + 1))
  BY <1>1, <1>2, <1>5, <1>6, <1>7
<1>10. InOrder(t, Places(t, Len(t) + 1, Glyphs), Len(t) + 1)
  BY <1>9 DEF InOrder
<1>11. Window(EmptyScreen, t)
  BY <1>1, <1>7, <1>8, <1>9, <1>10, Zenon DEF Window
<1> QED BY <1>11 DEF t

\* One character moves the window.
LEMMA WriteWindow ==
  ASSUME NEW s, NEW t, NEW c \in AnyChar, Window(s, t)
  PROVE  Window(scr_be_write(s, c), Append(t, c))
<1> DEFINE u == Append(t, c)
           e == Len(t) + 1
           d == Len(t) + 2
           P == Places(t, e, Glyphs)
           Q == Places(u, d, Glyphs)
           er == RowOf(t, e)
           ek == ColOf(t, e)
           r == RowsAt(u)
           k == ColsAt(u)
           w == scr_be_write(s, c)
<1>1. /\ s \in Screens /\ t \in Texts
      /\ s.row = er - TopAt(er) /\ s.col = ek
      /\ InOrder(t, P, e)
      /\ Shown(s.grid, TopAt(er), P, RowsAt(t), ColsAt(t), t)
  BY DEF Window
<1>2. /\ e \in Nat /\ e # 0 /\ d \in Nat /\ d = e + 1 /\ u \in Texts /\ Len(u) + 1 = d /\ u[e] = c
      /\ \A i \in 1..(e - 1) : u[i] = t[i]
  BY <1>1, TextGrows
<1>3. \A n \in 1..e : RowOf(u, n) = RowOf(t, n) /\ ColOf(u, n) = ColOf(t, n)
  BY <1>1, SheetStays
<1>4. <<RowOf(u, d), ColOf(u, d)>> = NextPlace(er, ek, c)
  BY <1>1, EndMoves
<1>5. s.grid \in Grids /\ s.row \in RowNos /\ s.col \in ColNos
  BY <1>1 DEF Screens, Grids
<1>6. er \in Nat /\ ek \in ColNos /\ TopAt(er) \in Nat /\ er = TopAt(er) + s.row
  BY <1>1, <1>2, SheetTypes, CursorRow
<1>7. r \in [Nat -> Nat] /\ k \in [Nat -> ColNos]
  BY <1>2, SheetTypes DEF RowsAt, ColsAt
<1>8. w \in Screens
  BY <1>1, WriteType
<1>9. /\ P \in SUBSET Nat /\ P \subseteq 1..(e - 1) /\ e \notin P
      /\ Q = IF c \in Glyphs THEN P \cup {e} ELSE P
  <2>1. P \subseteq 1..(e - 1) /\ P \in SUBSET Nat /\ e \notin P
    BY <1>2 DEF Places
  <2>2. \A i : i \in Q <=> (i \in 1..(e - 1) /\ u[i] \in Glyphs) \/ (i = e /\ u[e] \in Glyphs)
    BY <1>2 DEF Places
  <2>3. \A i : i \in P <=> i \in 1..(e - 1) /\ t[i] \in Glyphs
    BY DEF Places
  <2> HIDE DEF P, Q, u, e, d
  <2>4. \A i : i \in Q <=> i \in P \/ (i = e /\ c \in Glyphs)
    BY <1>2, <2>2, <2>3
  <2>5. Q = IF c \in Glyphs THEN P \cup {e} ELSE P
    BY <2>4
  <2> QED BY <2>1, <2>5
<1> HIDE DEF u, e, d, w
<1>10. \A n \in P \cup {e} : r[n] = RowOf(t, n) /\ k[n] = ColOf(t, n) /\ RowOf(u, n) = r[n] /\ ColOf(u, n) = k[n]
  <2>1. \A n \in P \cup {e} : n \in 1..e /\ n \in Nat
    BY <1>2, <1>9
  <2> QED BY <1>3, <2>1 DEF RowsAt, ColsAt
<1>11. Shown(s.grid, TopAt(er), P, r, k, u)
  <2>1. \A n \in P : RowsAt(t)[n] = r[n] /\ ColsAt(t)[n] = k[n] /\ u[n] = t[n]
    BY <1>2, <1>9, <1>10 DEF RowsAt, ColsAt
  <2> HIDE DEF P, r, k
  <2> QED BY <1>1, <2>1 DEF Shown
<1>12. r[e] = er /\ k[e] = ek
  BY <1>10
<1>13. \A n \in P : r[n] < er \/ (r[n] = er /\ k[n] < ek)
  BY <1>1, <1>10 DEF InOrder
<1>14. \A m, n \in P : r[m] = r[n] /\ k[m] = k[n] => m = n
  BY <1>1, <1>10 DEF InOrder
<1> HIDE DEF P, Q, r, k, er, ek
<1>15. \A n \in P : r[n] <= er /\ r[n] \in Nat /\ k[n] \in ColNos /\ ~(r[n] = er /\ k[n] = ek)
  <2> TAKE n \in P
  <2>1. r[n] \in Nat /\ k[n] \in ColNos /\ k[n] \in Nat /\ ek \in Nat
    BY <1>6, <1>7, <1>9 DEF ColNos
  <2> QED BY <1>6, <1>13, <2>1
<1> DEFINE Goal(nr, nk) ==
             /\ w.row = nr - TopAt(nr) /\ w.col = nk
             /\ \A n \in Q : r[n] < nr \/ (r[n] = nr /\ k[n] < nk)
             /\ \A m, n \in Q : r[m] = r[n] /\ k[m] = k[n] => m = n
             /\ Shown(w.grid, TopAt(nr), Q, r, k, u)
<1>16. ASSUME NEW nr, NEW nk, <<RowOf(u, d), ColOf(u, d)>> = <<nr, nk>>, Goal(nr, nk)
       PROVE  Window(w, u)
  <2>1. RowOf(u, d) = nr /\ ColOf(u, d) = nk
    BY <1>16
  <2>2. \A n \in Q : RowOf(u, n) = r[n] /\ ColOf(u, n) = k[n]
    BY <1>9, <1>10
  <2>3. InOrder(u, Q, d)
    BY <1>16, <2>1, <2>2 DEF InOrder
  <2> QED BY <1>2, <1>8, <1>16, <2>1, <2>3 DEF Window, Q, r, k
<1>20. SUFFICES Window(w, u)
  BY DEF w, u
<1>17. CASE c = NL
  <2>1. NextPlace(er, ek, c) = <<er + 1, 0>> /\ Q = P
    BY <1>9, <1>17, GlyphAssumption DEF NextPlace
  <2>2. w = NextRow(s.grid, s.row)
    BY <1>17 DEF scr_be_write, w
  <2>3. /\ w.row = (er + 1) - TopAt(er + 1) /\ w.col = 0
        /\ Shown(w.grid, TopAt(er + 1), P, r, k, u)
    BY <1>1, <1>5, <1>6, <1>7, <1>9, <1>11, <1>15, <2>2, NextRowShown
  <2>4. \A n \in P : r[n] < er + 1
    BY <1>6, <1>15
  <2>5. Goal(er + 1, 0)
    BY <1>14, <2>1, <2>3, <2>4
  <2> HIDE DEF Goal
  <2> QED BY <1>4, <1>16, <2>1, <2>5
<1>18. CASE c \in Glyphs
  <2> DEFINE g == [s.grid EXCEPT ![s.row][s.col] = c]
  <2>1. Q = P \cup {e} /\ c # NL
    BY <1>9, <1>18, GlyphAssumption
  <2>2. w = IF s.col + 1 >= SCR_COLS THEN NextRow(g, s.row) ELSE At(g, s.row, s.col + 1)
    BY <1>18, <2>1 DEF scr_be_write, PutGlyph, w
  <2>3. Shown(g, TopAt(er), Q, r, k, u)
    <3>1. \A n \in P : r[n] <= TopAt(er) + s.row
      BY <1>6, <1>15
    <3>2. \A n \in P : ~(r[n] = r[e] /\ k[n] = k[e])
      BY <1>12, <1>15
    <3>3. e \in Nat \ P /\ r[e] = TopAt(er) + s.row /\ k[e] = s.col
      BY <1>1, <1>2, <1>6, <1>9, <1>12
    <3>4. Shown([s.grid EXCEPT ![s.row][s.col] = u[e]], TopAt(er), P \cup {e}, r, k, u)
      BY <1>5, <1>6, <1>7, <1>9, <1>11, <3>1, <3>2, <3>3, StoreShown
    <3> QED BY <1>2, <2>1, <3>4
  <2>4. g \in Grids
    BY <1>5, <1>18 DEF Grids
  <2>5. \A n \in Q : r[n] <= er /\ r[n] \in Nat /\ k[n] \in ColNos /\ n \in Nat
    <3> TAKE n \in Q
    <3>1. CASE n = e
      BY <1>2, <1>6, <1>12, <3>1
    <3>2. CASE n # e
      <4>1. n \in P /\ n \in Nat
        BY <1>9, <2>1, <3>2
      <4> QED BY <1>15, <4>1
    <3> QED BY <3>1, <3>2
  <2>6. \A m, n \in Q : r[m] = r[n] /\ k[m] = k[n] => m = n
    BY <1>12, <1>14, <1>15, <2>1
  <2> HIDE DEF g
  <2>7. CASE ek + 1 >= SCR_COLS
    <3>1. NextPlace(er, ek, c) = <<er + 1, 0>> /\ w = NextRow(g, s.row)
      BY <1>1, <1>18, <2>1, <2>2, <2>7 DEF NextPlace, er, ek
    <3>2. /\ w.row = (er + 1) - TopAt(er + 1) /\ w.col = 0
          /\ Shown(w.grid, TopAt(er + 1), Q, r, k, u)
      <4>1. Q \in SUBSET Nat /\ \A n \in Q : r[n] <= er
        BY <2>5
      <4> QED BY <1>1, <1>6, <1>7, <2>3, <2>4, <3>1, <4>1, NextRowShown
    <3>3. \A n \in Q : r[n] < er + 1
      BY <1>6, <2>5
    <3>4. Goal(er + 1, 0)
      BY <2>6, <3>2, <3>3
    <3> HIDE DEF Goal
    <3> QED BY <1>4, <1>16, <3>1, <3>4
  <2>8. CASE ~(ek + 1 >= SCR_COLS)
    <3>1. NextPlace(er, ek, c) = <<er, ek + 1>> /\ w = At(g, s.row, ek + 1)
      BY <1>1, <1>18, <2>1, <2>2, <2>8 DEF NextPlace, er, ek
    <3>2. w.grid = g /\ w.row = er - TopAt(er) /\ w.col = ek + 1
      BY <1>1, <3>1 DEF At
    <3>3. \A n \in Q : r[n] < er \/ (r[n] = er /\ k[n] < ek + 1)
      <4> TAKE n \in Q
      <4>1. k[n] \in Nat /\ ek \in Nat /\ r[n] \in Nat
        BY <1>6, <2>5 DEF ColNos
      <4>2. CASE n = e
        BY <1>12, <4>1, <4>2
      <4>3. CASE n # e
        <5>1. r[n] < er \/ (r[n] = er /\ k[n] < ek)
          BY <1>13, <2>1, <4>3
        <5> QED BY <4>1, <5>1
      <4> QED BY <4>2, <4>3
    <3>4. Goal(er, ek + 1)
      BY <2>3, <2>6, <3>2, <3>3
    <3> HIDE DEF Goal
    <3> QED BY <1>4, <1>16, <3>1, <3>4
  <2> QED BY <2>7, <2>8
<1>19. CASE c # NL /\ c \notin Glyphs
  <2>1. NextPlace(er, ek, c) = <<er, ek>> /\ Q = P /\ w = s
    BY <1>9, <1>19 DEF NextPlace, scr_be_write, w
  <2>2. Goal(er, ek)
    BY <1>1, <1>11, <1>13, <1>14, <2>1 DEF er, ek
  <2> HIDE DEF Goal
  <2> QED BY <1>4, <1>16, <2>1, <2>2
<1> QED BY <1>17, <1>18, <1>19 DEF AnyChar

\* The cursor and the grid stay a window on the sheet (scr_be_write,
\* ui/text.c).
THEOREM ScreenInvariant == Spec => []IInv
<1>1. Init => IInv
  BY FirstWindow DEF Init, IInv
<1>2. IInv /\ [Next]_vars => IInv'
  <2> SUFFICES ASSUME IInv, [Next]_vars PROVE IInv'
    OBVIOUS
  <2>1. CASE UNCHANGED vars
    BY <2>1 DEF vars, IInv
  <2>2. CASE Next
    <3>1. PICK c \in AnyChar : Write(c)
      BY <2>2 DEF Next, AnyChar
    <3>2. Window(scr_be_write(scr, c), Append(text, c))
      BY <3>1, WriteWindow DEF IInv
    <3> QED BY <3>1, <3>2, Zenon DEF Write, IInv
  <2> QED BY <2>1, <2>2
<1> QED
  BY <1>1, <1>2, PTL DEF Spec

\* scr_be_write never leaves the cursor outside the grid, so that the next
\* character is stored inside it, for every text and every size.
THEOREM ScreenTypes == Spec => []TypeOK
<1>1. IInv => TypeOK
  BY DEF IInv, Window, TypeOK
<1> QED
  BY <1>1, ScreenInvariant, PTL

\* The window shows the last rows of the sheet.
LEMMA WindowShows == IInv => ShowsLastRows
<1> SUFFICES ASSUME IInv PROVE ShowsLastRows
  OBVIOUS
<1> DEFINE e == Len(text) + 1
           P == Places(text, e, Glyphs)
           r == RowsAt(text)
           k == ColsAt(text)
           er == RowOf(text, e)
           top == TopAt(er)
<1>1. /\ scr \in Screens /\ text \in Texts
      /\ scr.row = er - top /\ scr.col = ColOf(text, e)
      /\ InOrder(text, P, e)
      /\ Shown(scr.grid, top, P, r, k, text)
  BY DEF IInv, Window
<1>2. e \in Nat /\ P \in SUBSET Nat
  BY <1>1 DEF Texts, Places
<1>3. ASSUME NEW n \in Nat PROVE SheetRow(n) = RowOf(text, n) /\ SheetCol(n) = ColOf(text, n)
  BY <1>1, SheetIs DEF SheetRow, SheetCol, RowOf, ColOf
<1>4. End = e /\ Before(End, Glyphs) = P
  BY DEF End, Before, Places
<1>5. Top = top
  BY <1>2, <1>3, <1>4 DEF Top, TopAt
<1>6. scr.row = SheetRow(End) - Top /\ scr.col = SheetCol(End)
  BY <1>1, <1>2, <1>3, <1>4, <1>5
<1>7. er \in Nat /\ top \in Nat /\ r \in [Nat -> Nat] /\ k \in [Nat -> ColNos]
  BY <1>1, <1>2, SheetTypes, CursorRow DEF RowsAt, ColsAt
<1>8. ASSUME NEW i \in RowNos, NEW j \in ColNos
      PROVE  Written(i, j) = {n \in P : r[n] = top + i /\ k[n] = j}
  BY <1>2, <1>3, <1>4, <1>5 DEF Written, RowsAt, ColsAt
<1>9. \A m, n \in P : r[m] = r[n] /\ k[m] = k[n] => m = n
  BY <1>1, <1>2 DEF InOrder, RowsAt, ColsAt
<1> HIDE DEF e, P, r, k, er, top
<1>10. ASSUME NEW i \in RowNos, NEW j \in ColNos
       PROVE  IF Written(i, j) = {} THEN scr.grid[i][j] \in {NUL, Space}
              ELSE Written(i, j) = {CHOOSE n \in Written(i, j) : text[n] = scr.grid[i][j]}
  <2> DEFINE W == Written(i, j)
  <2>1. W = {n \in P : r[n] = top + i /\ k[n] = j}
    BY <1>8
  <2> HIDE DEF W
  <2>2. CASE W = {}
    <3>1. scr.grid[i][j] \in {NUL, Space}
      BY <1>1, <2>1, <2>2 DEF Shown
    <3> QED BY <2>2, <3>1 DEF W
  <2>3. CASE W # {}
    <3>1. PICK n \in P : r[n] = top + i /\ k[n] = j /\ n \in W
      BY <2>1, <2>3
    <3>2. W = {n}
      BY <1>9, <2>1, <3>1
    <3>3. scr.grid[i][j] = text[n]
      <4>1. i \in Nat /\ r[n] >= top /\ r[n] - top = i
        BY <1>7, <3>1 DEF RowNos
      <4> QED BY <1>1, <3>1, <4>1 DEF Shown
    <3>4. W = {CHOOSE m \in W : text[m] = scr.grid[i][j]}
      BY <3>2, <3>3
    <3> QED BY <2>3, <3>4 DEF W
  <2> QED BY <2>2, <2>3
<1> QED BY <1>6, <1>10 DEF ShowsLastRows

\* The grid is the last rows of the sheet and the cursor is where the text
\* ends: for every size of the grid and every text, wrapping and scrolling
\* lose, move or overwrite nothing.
THEOREM GridShowsLastRows == Spec => []ShowsLastRows
<1> QED
  BY WindowShows, ScreenInvariant, PTL

(***************************************************************************)
(* Folds over a text, which begin with its last character                  *)
(***************************************************************************)

\* A set of positions has a last one.
LEMMA LastPlace ==
  ASSUME NEW n \in Nat, NEW s \in SUBSET (1..n), s # {}
  PROVE  Max(s) \in s /\ \A y \in s : y <= Max(s)
<1> DEFINE T == {n - x : x \in s}
<1>0. \A x \in s : x \in Nat /\ x <= n /\ n - x \in Nat
  <2> TAKE x \in s
  <2>1. x \in 1..n
    OBVIOUS
  <2> QED BY <2>1
<1>1. T \in SUBSET Nat /\ T # {}
  BY <1>0
<1>2. PICK l \in T : \A y \in T : l <= y
  <2> HIDE DEF T
  <2> QED BY <1>1, Least
<1>3. PICK x \in s : l = n - x
  BY <1>2
<1>4. \A y \in s : x >= y
  <2> TAKE y \in s
  <2>1. l <= n - y
    BY <1>2
  <2> QED BY <1>0, <1>3, <2>1
<1>5. Max(s) \in s /\ \A y \in s : Max(s) >= y
  BY <1>4, Zenon DEF Max
<1>6. \A y \in s : y \in Nat /\ Max(s) \in Nat
  BY <1>0, <1>5
<1> QED BY <1>5, <1>6

\* Without its last position a set is smaller.
LEMMA Shorter ==
  ASSUME NEW n \in Nat, NEW s \in SUBSET (1..n), s # {}
  PROVE  /\ s \ {Max(s)} \in SUBSET (1..n)
         /\ Cardinality(s) \in Nat /\ Cardinality(s \ {Max(s)}) \in Nat
         /\ Cardinality(s \ {Max(s)}) < Cardinality(s)
<1>0. IsFiniteSet(1..n)
  BY FS_Interval
<1>1. IsFiniteSet(s)
  BY <1>0, FS_Subset
<1>2. Cardinality(s) \in Nat /\ Cardinality(s \ {Max(s)}) = Cardinality(s) - 1
      /\ Cardinality(s \ {Max(s)}) \in Nat
  <2>1. PICK x \in s : x = Max(s)
    BY LastPlace
  <2>2. IsFiniteSet(s \ {x}) /\ Cardinality(s \ {x}) = Cardinality(s) - 1
    BY <1>1, FS_RemoveElement
  <2> QED BY <1>1, <2>1, <2>2, FS_CardinalityType
<1>3. s \ {Max(s)} \in SUBSET (1..n)
  OBVIOUS
<1> QED BY <1>2, <1>3

\* What holds of the empty set of positions, and of a set if it holds without
\* the last position, holds of all.
LEMMA Unfold ==
  ASSUME NEW n \in Nat, NEW G \in SUBSET (SUBSET (1..n)), {} \in G,
         \A s \in SUBSET (1..n) : s # {} /\ s \ {Max(s)} \in G => s \in G
  PROVE  G = SUBSET (1..n)
<1> DEFINE Bad == (SUBSET (1..n)) \ G
           N == {Cardinality(s) : s \in Bad}
<1>1. \A s \in SUBSET (1..n) : Cardinality(s) \in Nat
  <2> TAKE s \in SUBSET (1..n)
  <2>1. IsFiniteSet(1..n)
    BY FS_Interval
  <2>2. IsFiniteSet(s)
    BY <2>1, FS_Subset
  <2> QED BY <2>2, FS_CardinalityType
<1>2. SUFFICES ASSUME Bad # {} PROVE FALSE
  OBVIOUS
<1>3. PICK s \in Bad : \A r \in Bad : Cardinality(s) <= Cardinality(r)
  <2>1. N \in SUBSET Nat /\ N # {}
    BY <1>1, <1>2
  <2> HIDE DEF Bad
  <2>2. PICK k \in N : \A m \in N : k <= m
    <3> HIDE DEF N
    <3> QED BY <2>1, Least
  <2> QED BY <2>2
<1>4. s \in SUBSET (1..n) /\ s # {} /\ s \ {Max(s)} \notin G
  OBVIOUS
<1>5. s \ {Max(s)} \in Bad
  BY <1>4
<1> HIDE DEF Bad
<1> QED BY <1>3, <1>4, <1>5, Shorter

\* The partial results of a fold by F from b over w
IsFold(it, F, b, w, n) ==
  it = [s \in SUBSET (1..n) |-> IF s = {} THEN b ELSE F[it[s \ {Max(s)}]][w[Max(s)]]]

\* Partial results are determined by the positions behind them.
LEMMA FoldsAgree ==
  ASSUME NEW n \in Nat, NEW it, NEW jt, it[{}] = jt[{}],
         \A s \in SUBSET (1..n) :
           s # {} /\ it[s \ {Max(s)}] = jt[s \ {Max(s)}] => it[s] = jt[s]
  PROVE  \A s \in SUBSET (1..n) : it[s] = jt[s]
<1> DEFINE G == {s \in SUBSET (1..n) : it[s] = jt[s]}
<1>1. \A s \in SUBSET (1..n) : s # {} /\ s \ {Max(s)} \in G => s \in G
  OBVIOUS
<1>2. {} \in G /\ G \in SUBSET (SUBSET (1..n))
  OBVIOUS
<1> HIDE DEF G
<1>3. G = SUBSET (1..n)
  BY <1>1, <1>2, Unfold
<1> QED BY <1>3 DEF G

\* A fold of a function has partial results.
LEMMA FoldExists ==
  ASSUME NEW n \in Nat, NEW S, NEW C, NEW F \in [S -> [C -> S]], NEW b \in S,
         NEW w \in [1..n -> C]
  PROVE  \E it \in [SUBSET (1..n) -> S] : IsFold(it, F, b, w, n)
<1> DEFINE Folds_(it, r) ==
             \A q \in SUBSET r : it[q] = IF q = {} THEN b ELSE F[it[q \ {Max(q)}]][w[Max(q)]]
           G == {r \in SUBSET (1..n) : \E it \in [SUBSET r -> S] : Folds_(it, r)}
<1>1. {} \in G
  <2>1. Folds_([q \in SUBSET {} |-> b], {}) /\ [q \in SUBSET {} |-> b] \in [SUBSET {} -> S]
    OBVIOUS
  <2> QED BY <2>1
<1>2. ASSUME NEW r \in SUBSET (1..n), r # {}, r \ {Max(r)} \in G PROVE r \in G
  <2> DEFINE x == Max(r)
             p == r \ {x}
  <2>1. PICK it \in [SUBSET p -> S] : Folds_(it, p)
    BY <1>2
  <2>2. x \in r /\ x \in 1..n /\ w[x] \in C
    BY <1>2, LastPlace
  <2> DEFINE g == [q \in SUBSET r |-> IF x \in q THEN F[it[q \ {x}]][w[x]] ELSE it[q]]
  <2>3. \A q \in SUBSET r : q \ {x} \in SUBSET p /\ (x \notin q => q \in SUBSET p)
    OBVIOUS
  <2>4. g \in [SUBSET r -> S]
    <3> HIDE DEF p, x
    <3>1. ASSUME NEW q \in SUBSET r PROVE (IF x \in q THEN F[it[q \ {x}]][w[x]] ELSE it[q]) \in S
      <4>1. it[q \ {x}] \in S /\ (x \notin q => it[q] \in S)
        BY <2>3
      <4>2. F[it[q \ {x}]][w[x]] \in S
        BY <2>2, <4>1
      <4> QED BY <4>1, <4>2
    <3> QED BY <3>1
  <2>5. ASSUME NEW q \in SUBSET r, x \in q PROVE Max(q) = x
    <3>1. q \in SUBSET (1..n) /\ q # {}
      BY <2>5
    <3>2. Max(q) \in q /\ x <= Max(q)
      BY <2>5, <3>1, LastPlace
    <3>3. Max(q) <= x
      BY <1>2, <3>2, LastPlace
    <3>4. Max(q) \in Nat /\ x \in Nat
      <4>1. Max(q) \in 1..n
        BY <3>1, <3>2
      <4> QED BY <2>2, <4>1
    <3> QED BY <3>2, <3>3, <3>4
  <2> HIDE DEF x, p
  <2>6. ASSUME NEW q \in SUBSET r
        PROVE  g[q] = IF q = {} THEN b ELSE F[g[q \ {Max(q)}]][w[Max(q)]]
    <3>1. CASE x \in q
      <4>1. x \notin q \ {x} /\ q \ {x} \in SUBSET r
        OBVIOUS
      <4>2. g[q \ {x}] = it[q \ {x}] /\ g[q] = F[it[q \ {x}]][w[x]]
        BY <3>1, <4>1
      <4> HIDE DEF g
      <4> QED BY <2>5, <3>1, <4>2
    <3>2. CASE x \notin q
      <4>1. q \in SUBSET p /\ g[q] = it[q]
        BY <2>3, <3>2
      <4>2. x \notin q \ {Max(q)} /\ q \ {Max(q)} \in SUBSET r
        BY <3>2
      <4>3. g[q \ {Max(q)}] = it[q \ {Max(q)}]
        BY <4>2
      <4>4. it[q] = IF q = {} THEN b ELSE F[it[q \ {Max(q)}]][w[Max(q)]]
        BY <2>1, <4>1
      <4> HIDE DEF g
      <4> QED BY <4>1, <4>3, <4>4
    <3> QED BY <3>1, <3>2
  <2> HIDE DEF g
  <2>7. \E jt \in [SUBSET r -> S] : Folds_(jt, r)
    BY <2>4, <2>6
  <2> QED BY <2>7
<1> HIDE DEF G
<1>3. G = SUBSET (1..n)
  <2>1. G \in SUBSET (SUBSET (1..n))
    BY DEF G
  <2> QED BY <1>1, <1>2, <2>1, Unfold
<1>4. PICK it \in [SUBSET (1..n) -> S] : Folds_(it, 1..n)
  <2>1. 1..n \in G
    BY <1>3
  <2> QED BY <2>1 DEF G
<1> DEFINE B(s) == IF s = {} THEN b ELSE F[it[s \ {Max(s)}]][w[Max(s)]]
<1>5. \A s \in SUBSET (1..n) : it[s] = B(s)
  BY <1>4
<1> HIDE DEF B
<1>6. it = [s \in SUBSET (1..n) |-> B(s)]
  BY <1>5
<1> QED BY <1>6 DEF IsFold, B

\* The first positions
LEMMA Firsts ==
  ASSUME NEW k \in Nat, k # 0
  PROVE  Max(1..k) = k /\ (1..k) \ {k} = 1..(k - 1) /\ 1..k # {}
<1>1. k \in 1..k
  OBVIOUS
<1>2. Max(1..k) \in 1..k /\ k <= Max(1..k)
  <2>1. 1..k \in SUBSET (1..k) /\ 1..k # {}
    BY <1>1
  <2> QED BY <1>1, <2>1, LastPlace
<1>3. Max(1..k) = k
  BY <1>2
<1>4. (1..k) \ {k} = 1..(k - 1)
  OBVIOUS
<1> QED BY <1>1, <1>3, <1>4

\* A text is printed character by character.
LEMMA PrintSteps ==
  ASSUME NEW s \in Screens, NEW m \in Texts
  PROVE  \E it : /\ it[{}] = s /\ FoldLeft(scr_be_write, s, m) = it[1..Len(m)]
                 /\ \A k \in 1..Len(m) : it[1..k] = scr_be_write(it[1..(k - 1)], m[k])
<1> DEFINE n == Len(m)
           F == [x \in Screens |-> [c \in AnyChar |-> scr_be_write(x, c)]]
           Iter(it) == it = [q \in SUBSET (1..n) |->
                               IF q = {} THEN s ELSE scr_be_write(it[q \ {Max(q)}], m[Max(q)])]
<1>1. n \in Nat /\ DOMAIN m = 1..n /\ m \in [1..n -> AnyChar]
  BY DEF Texts, AnyChar
<1>2. FoldLeft(scr_be_write, s, m) = (CHOOSE it : Iter(it))[1..n]
  BY <1>1, Zenon DEF FoldLeft, MapThenFoldSet
<1> HIDE DEF n
<1>3. F \in [Screens -> [AnyChar -> Screens]]
  BY WriteType
<1>4. PICK it \in [SUBSET (1..n) -> Screens] : IsFold(it, F, s, m, n)
  <2> HIDE DEF F
  <2> QED BY <1>1, <1>3, FoldExists
<1>5. Iter(it)
  <2> DEFINE A(q) == IF q = {} THEN s ELSE scr_be_write(it[q \ {Max(q)}], m[Max(q)])
             B(q) == IF q = {} THEN s ELSE F[it[q \ {Max(q)}]][m[Max(q)]]
  <2>1. ASSUME NEW q \in SUBSET (1..n) PROVE A(q) = B(q)
    <3>1. CASE q # {}
      <4>1. Max(q) \in 1..n /\ q \ {Max(q)} \in SUBSET (1..n)
        BY <1>1, <3>1, LastPlace
      <4>2. it[q \ {Max(q)}] \in Screens /\ m[Max(q)] \in AnyChar
        BY <1>1, <4>1
      <4> QED BY <4>2
    <3>2. CASE q = {}
      BY <3>2
    <3> QED BY <3>1, <3>2
  <2>2. it = [q \in SUBSET (1..n) |-> B(q)]
    BY <1>4 DEF IsFold
  <2> HIDE DEF A, B
  <2>3. it = [q \in SUBSET (1..n) |-> A(q)]
    BY <2>1, <2>2
  <2> QED BY <2>3 DEF A
<1>6. PICK jt : jt = (CHOOSE i : Iter(i)) /\ Iter(jt)
  <2> HIDE DEF Iter
  <2> QED BY <1>5
<1>7. ASSUME NEW q \in SUBSET (1..n)
      PROVE  jt[q] = IF q = {} THEN s ELSE scr_be_write(jt[q \ {Max(q)}], m[Max(q)])
  BY <1>6, Zenon
<1>8. ASSUME NEW k \in 1..n PROVE jt[1..k] = scr_be_write(jt[1..(k - 1)], m[k])
  <2>1. 1..k \in SUBSET (1..n) /\ k \in Nat /\ k # 0
    BY <1>1
  <2> QED BY <1>7, <2>1, Firsts
<1>9. jt[{}] = s
  BY <1>7
<1> QED BY <1>2, <1>6, <1>8, <1>9 DEF n

\* A text, character by character
LEMMA TextPrefix ==
  ASSUME NEW t \in Texts, NEW m \in Texts
  PROVE  /\ t \o SubSeq(m, 1, 0) = t /\ t \o SubSeq(m, 1, Len(m)) = t \o m
         /\ \A k \in 1..Len(m) :
              /\ m[k] \in AnyChar
              /\ t \o SubSeq(m, 1, k) = Append(t \o SubSeq(m, 1, k - 1), m[k])
<1> USE DEF Texts, AnyChar
<1>1. SubSeq(m, 1, 0) = <<>> /\ t \o <<>> = t
  OBVIOUS
<1>2. SubSeq(m, 1, Len(m)) = m
  OBVIOUS
<1>3. ASSUME NEW k \in 1..Len(m)
      PROVE  m[k] \in AnyChar /\ t \o SubSeq(m, 1, k) = Append(t \o SubSeq(m, 1, k - 1), m[k])
  <2>1. m[k] \in AnyChar
    OBVIOUS
  <2>2. SubSeq(m, 1, k - 1) \in Seq(AnyChar) /\ SubSeq(m, 1, k) = Append(SubSeq(m, 1, k - 1), m[k])
    OBVIOUS
  <2>3. t \o Append(SubSeq(m, 1, k - 1), m[k]) = Append(t \o SubSeq(m, 1, k - 1), m[k])
    BY <2>1, <2>2
  <2> QED BY <2>1, <2>2, <2>3
<1>4. t \o SubSeq(m, 1, 0) = t /\ t \o SubSeq(m, 1, Len(m)) = t \o m
  BY <1>1, <1>2, Zenon
<1> QED BY <1>3, <1>4, Zenon

\* Below the cursor nothing has been written since the machine started.
Untouched(s) == \A i \in RowNos, j \in ColNos : i > s.row => s.grid[i][j] = NUL

Ready(s, t) == Window(s, t) /\ Untouched(s)

\* A new row is the next one, or scrolled in where nothing lies below.
LEMMA NextRowUntouched ==
  ASSUME NEW g \in Grids, NEW r \in RowNos,
         \A i \in RowNos, j \in ColNos : i > r => g[i][j] = NUL
  PROVE  Untouched(NextRow(g, r))
<1>1. r \in Nat /\ SCR_ROWS \in Nat
  BY GridAssumption DEF RowNos
<1>2. CASE r + 1 >= SCR_ROWS
  <2>1. NextRow(g, r).row = SCR_ROWS - 1
    BY <1>2 DEF NextRow, scr_scroll, At
  <2> QED BY <1>1, <2>1 DEF Untouched, RowNos
<1>3. CASE ~(r + 1 >= SCR_ROWS)
  <2>1. NextRow(g, r).row = r + 1 /\ NextRow(g, r).grid = g
    BY <1>3 DEF NextRow, At
  <2>2. \A i \in RowNos : i > r + 1 => i > r
    BY <1>1 DEF RowNos
  <2> QED BY <2>1, <2>2 DEF Untouched
<1> QED BY <1>2, <1>3

\* A character is stored at the cursor, never below it.
LEMMA WriteUntouched ==
  ASSUME NEW s \in Screens, Untouched(s), NEW c
  PROVE  Untouched(scr_be_write(s, c))
<1>1. s.grid \in Grids /\ s.row \in RowNos /\ s.col \in ColNos /\ s.row \in Nat
  BY DEF Screens, Grids, RowNos
<1>2. CASE c = NL
  BY <1>1, <1>2, NextRowUntouched DEF Untouched, scr_be_write
<1>3. CASE c # NL /\ c \in Glyphs
  <2> DEFINE g == [s.grid EXCEPT ![s.row][s.col] = c]
  <2>1. scr_be_write(s, c) = IF s.col + 1 >= SCR_COLS THEN NextRow(g, s.row)
                             ELSE At(g, s.row, s.col + 1)
    BY <1>3 DEF scr_be_write, PutGlyph
  <2>2. g \in Grids /\ \A i \in RowNos : i # s.row => g[i] = s.grid[i]
    BY <1>1, <1>3 DEF Grids
  <2> HIDE DEF g
  <2>3. \A i \in RowNos, j \in ColNos : i > s.row => g[i][j] = NUL
    <3>1. \A i \in RowNos : i > s.row => i # s.row
      BY <1>1 DEF RowNos
    <3> QED BY <2>2, <3>1 DEF Untouched
  <2>4. CASE s.col + 1 >= SCR_COLS
    BY <1>1, <2>1, <2>2, <2>3, <2>4, NextRowUntouched
  <2>5. CASE ~(s.col + 1 >= SCR_COLS)
    <3>1. scr_be_write(s, c).row = s.row /\ scr_be_write(s, c).grid = g
      BY <2>1, <2>5 DEF At
    <3> QED BY <2>3, <3>1 DEF Untouched
  <2> QED BY <2>4, <2>5
<1>4. CASE c # NL /\ c \notin Glyphs
  BY <1>4 DEF scr_be_write
<1> QED BY <1>2, <1>3, <1>4

\* One character keeps the window, and what is below it untouched.
LEMMA WriteReady ==
  ASSUME NEW s, NEW t, NEW c \in AnyChar, Ready(s, t)
  PROVE  Ready(scr_be_write(s, c), Append(t, c))
<1>1. s \in Screens
  BY DEF Ready, Window
<1> QED BY <1>1, WriteWindow, WriteUntouched DEF Ready

\* A text moves the window to its end.
LEMMA PrintReady ==
  ASSUME NEW s \in Screens, NEW t \in Texts, NEW m \in Texts, Ready(s, t)
  PROVE  Ready(FoldLeft(scr_be_write, s, m), t \o m)
<1>1. PICK it : /\ it[{}] = s /\ FoldLeft(scr_be_write, s, m) = it[1..Len(m)]
                /\ \A k \in 1..Len(m) : it[1..k] = scr_be_write(it[1..(k - 1)], m[k])
  BY PrintSteps
<1> DEFINE W(k) == Ready(it[1..k], t \o SubSeq(m, 1, k))
           Bad == {k \in 0..Len(m) : ~W(k)}
<1>2. Len(m) \in Nat
  BY DEF Texts
<1>3. W(0)
  <2>1. 1..0 = {}
    OBVIOUS
  <2>2. it[1..0] = s
    BY <1>1, <2>1, Zenon
  <2>3. t \o SubSeq(m, 1, 0) = t
    BY TextPrefix, Zenon
  <2> QED BY <2>2, <2>3, Zenon
<1>4. ASSUME NEW k \in 1..Len(m), W(k - 1) PROVE W(k)
  <2>1. m[k] \in AnyChar /\ t \o SubSeq(m, 1, k) = Append(t \o SubSeq(m, 1, k - 1), m[k])
    BY TextPrefix, Zenon
  <2>2. it[1..k] = scr_be_write(it[1..(k - 1)], m[k])
    BY <1>1, Zenon
  <2>3. Ready(scr_be_write(it[1..(k - 1)], m[k]), Append(t \o SubSeq(m, 1, k - 1), m[k]))
    BY <1>4, <2>1, WriteReady, Zenon
  <2> QED BY <2>1, <2>2, <2>3, Zenon
<1> HIDE DEF W
<1>5. Bad = {}
  <2> SUFFICES ASSUME Bad # {} PROVE FALSE
    OBVIOUS
  <2>1. Bad \in SUBSET Nat
    OBVIOUS
  <2>2. PICK k \in Bad : \A j \in Bad : k <= j
    <3> HIDE DEF Bad
    <3> QED BY <2>1, Least
  <2>3. k \in Nat /\ k # 0 /\ k \in 1..Len(m) /\ k - 1 \in 0..Len(m)
    BY <1>2, <1>3
  <2>4. ~W(k - 1)
    BY <1>4, <2>3
  <2>5. k - 1 \in Bad
    BY <2>3, <2>4
  <2> QED BY <2>2, <2>3, <2>5
<1>6. W(Len(m))
  BY <1>2, <1>5
<1>7. t \o SubSeq(m, 1, Len(m)) = t \o m
  BY TextPrefix, Zenon
<1> QED BY <1>1, <1>6, <1>7, Zenon DEF W

(***************************************************************************)
(* Bytes and pixels                                                        *)
(***************************************************************************)
Mode == [width : Nat, height : Nat, bpp : {8, 24, 32}]
Buffers == [0..(fb_size - 1) -> 0..255]

\* The width of a pixel
LEMMA PixelBytes ==
  ASSUME fb \in Mode
  PROVE  /\ fb.width \in Nat /\ fb.height \in Nat /\ Bpp \in {1, 3, 4}
         /\ fb.bpp = 32 => Bpp = 4
         /\ fb.bpp = 8 => Bpp = 1
         /\ fb_size \in Nat
<1>1. fb.width \in Nat /\ fb.height \in Nat /\ fb.bpp \in {8, 24, 32}
  BY DEF Mode
<1>2. (fb.bpp = 8 => Bpp = 1) /\ (fb.bpp = 24 => Bpp = 3) /\ (fb.bpp = 32 => Bpp = 4)
  BY SMT DEF Bpp
<1>3. fb_size \in Nat
  BY <1>1, <1>2, SMT DEF fb_size
<1> QED BY <1>1, <1>2, <1>3

\* A byte of a colour is a byte.
LEMMA ByteType ==
  ASSUME NEW color \in Nat, NEW k \in 0..3
  PROVE  ByteOf(color, k) \in 0..255
<1>1. 256 ^ 0 = 1 /\ 256 ^ 1 = 256 /\ 256 ^ 2 = 65536 /\ 256 ^ 3 = 16777216
  BY SMT
<1>2. /\ (color \div 1) % 256 \in 0..255 /\ (color \div 256) % 256 \in 0..255
      /\ (color \div 65536) % 256 \in 0..255 /\ (color \div 16777216) % 256 \in 0..255
  BY SMT
<1>3. k = 0 \/ k = 1 \/ k = 2 \/ k = 3
  BY SMT
<1> QED BY <1>1, <1>2, <1>3, SMT DEF ByteOf

\* A pixel has its own bytes, all of them in the buffer.
LEMMA PixelPlace ==
  ASSUME fb \in Mode, NEW x \in Nat, NEW y \in Nat, Visible(x, y), NEW k \in 0..(Bpp - 1)
  PROVE  /\ offset(x, y) + k \in 0..(fb_size - 1)
         /\ (offset(x, y) + k) % Bpp = k /\ (offset(x, y) + k) \div Bpp = y * fb.width + x
         /\ (y * fb.width + x) % fb.width = x /\ (y * fb.width + x) \div fb.width = y
<1> DEFINE W == fb.width
           H == fb.height
           P == y * W + x
<1>1. W \in Nat /\ H \in Nat /\ Bpp \in {1, 3, 4} /\ x < W /\ y < H
  BY PixelBytes DEF Visible
<1>2. offset(x, y) = P * Bpp /\ fb_size = W * H * Bpp
  BY DEF offset, fb_size
<1> HIDE DEF W, H
<1>3. P % W = x /\ P \div W = y
  BY <1>1, Division
<1>4. P \in Nat /\ P + 1 <= W * H
  <2>1. PICK h \in Nat : H = y + 1 + h
    <3>1. H - (y + 1) \in Nat /\ H = y + 1 + (H - (y + 1))
      BY <1>1
    <3> QED BY <3>1
  <2>2. W * H = y * W + W + W * h /\ W * h \in Nat /\ y * W \in Nat
    BY <1>1, <2>1, SMT
  <2> QED BY <1>1, <2>2
<1>5. PICK p \in Nat, n \in Nat : p = P /\ n = W * H
  BY <1>1, <1>4, SMT
<1>6. k \in Nat /\ k < Bpp /\ Bpp \in Nat \ {0}
  BY <1>1
<1>7. p * Bpp + k \in 0..(n * Bpp - 1)
  <2>1. p + 1 <= n
    BY <1>4, <1>5
  <2> QED BY <1>1, <1>5, <1>6, <2>1
<1>8. (p * Bpp + k) % Bpp = k /\ (p * Bpp + k) \div Bpp = p
  BY <1>6, Division
<1> QED BY <1>2, <1>3, <1>5, <1>7, <1>8 DEF W

\* A pixel is in a set of pixels.
Hit(pixels, x, y) == \E p \in pixels : p[1] = x /\ p[2] = y

Touched(pixels) ==
  {offset(p[1], p[2]) + k : p \in {q \in pixels : Visible(q[1], q[2])}, k \in 0..(Bpp - 1)}

\* A pixel that putpixel does not clip has coordinates.
LEMMA VisibleNat ==
  ASSUME fb \in Mode, NEW x, NEW y, Visible(x, y)
  PROVE  x \in Nat /\ y \in Nat
<1> QED BY PixelBytes DEF Visible

\* putpixel stays in the buffer.
LEMMA TouchedInside ==
  ASSUME fb \in Mode, NEW pixels
  PROVE  Touched(pixels) \subseteq 0..(fb_size - 1)
<1> SUFFICES ASSUME NEW p \in pixels, Visible(p[1], p[2]), NEW k \in 0..(Bpp - 1)
             PROVE  offset(p[1], p[2]) + k \in 0..(fb_size - 1)
  BY DEF Touched
<1>1. p[1] \in Nat /\ p[2] \in Nat
  BY VisibleNat
<1> QED BY <1>1, PixelPlace

\* The bytes of a pixel are written when the pixel is, and then only.
LEMMA TouchedIs ==
  ASSUME fb \in Mode, NEW pixels, NEW x \in Nat, NEW y \in Nat, Visible(x, y), NEW k \in 0..(Bpp - 1)
  PROVE  offset(x, y) + k \in Touched(pixels) <=> Hit(pixels, x, y)
<1>1. ASSUME Hit(pixels, x, y) PROVE offset(x, y) + k \in Touched(pixels)
  BY <1>1 DEF Hit, Touched
<1>2. ASSUME offset(x, y) + k \in Touched(pixels) PROVE Hit(pixels, x, y)
  <2>1. PICK p \in pixels, l \in 0..(Bpp - 1) :
          Visible(p[1], p[2]) /\ offset(x, y) + k = offset(p[1], p[2]) + l
    BY <1>2 DEF Touched
  <2>2. p[1] \in Nat /\ p[2] \in Nat
    BY <2>1, VisibleNat
  <2>3. /\ (offset(x, y) + k) \div Bpp = y * fb.width + x
        /\ (y * fb.width + x) % fb.width = x /\ (y * fb.width + x) \div fb.width = y
    BY PixelPlace, Zenon
  <2>4. /\ (offset(p[1], p[2]) + l) \div Bpp = p[2] * fb.width + p[1]
        /\ (p[2] * fb.width + p[1]) % fb.width = p[1] /\ (p[2] * fb.width + p[1]) \div fb.width = p[2]
    BY <2>1, <2>2, PixelPlace, Zenon
  <2>5. p[2] * fb.width + p[1] = y * fb.width + x
    BY <2>1, <2>3, <2>4, Zenon
  <2>6. p[1] = x /\ p[2] = y
    BY <2>3, <2>4, <2>5, Zenon
  <2> QED BY <2>6 DEF Hit
<1> QED BY <1>1, <1>2

\* Whatever the pixels, a drawing function leaves a buffer of bytes.
LEMMA PaintType ==
  ASSUME fb \in Mode, NEW b \in Buffers, NEW pixels, NEW color \in Nat
  PROVE  Paint(b, pixels, color) \in Buffers
<1> DEFINE D == 0..(fb_size - 1)
           T == Touched(pixels)
<1>1. DOMAIN b = D /\ D \cup T = D /\ \A a \in D : b[a] \in 0..255
  BY TouchedInside DEF Buffers
<1>2. Paint(b, pixels, color) = [a \in D |-> IF a \in T THEN ByteOf(color, a % Bpp) ELSE b[a]]
  BY <1>1 DEF Paint, Touched
<1>3. \A a \in D : ByteOf(color, a % Bpp) \in 0..255
  <2> TAKE a \in D
  <2>1. a \in Nat /\ Bpp \in {1, 3, 4}
    BY PixelBytes
  <2>2. a % Bpp \in 0..3
    BY <2>1
  <2> QED BY <2>2, ByteType
<1> HIDE DEF D, T
<1>4. Paint(b, pixels, color) \in [D -> 0..255]
  BY <1>1, <1>2, <1>3
<1> QED BY <1>4 DEF Buffers, D

\* A drawing function changes the pixels it draws, to its colour.
LEMMA PaintAt ==
  ASSUME fb \in Mode, NEW b \in Buffers, NEW pixels, NEW color \in Nat,
         NEW x \in Nat, NEW y \in Nat, Visible(x, y), NEW k \in 0..(Bpp - 1)
  PROVE  Paint(b, pixels, color)[offset(x, y) + k] =
           IF Hit(pixels, x, y) THEN ByteOf(color, k) ELSE b[offset(x, y) + k]
<1> DEFINE D == 0..(fb_size - 1)
           T == Touched(pixels)
           a == offset(x, y) + k
<1>1. DOMAIN b = D /\ D \cup T = D
  BY TouchedInside DEF Buffers
<1>2. Paint(b, pixels, color) = [c \in D |-> IF c \in T THEN ByteOf(color, c % Bpp) ELSE b[c]]
  BY <1>1 DEF Paint, Touched
<1>3. a \in D /\ a % Bpp = k
  BY PixelPlace
<1>4. a \in T <=> Hit(pixels, x, y)
  BY TouchedIs
<1> HIDE DEF D, T, a
<1>5. Paint(b, pixels, color)[a] = IF a \in T THEN ByteOf(color, a % Bpp) ELSE b[a]
  BY <1>2, <1>3
<1> QED BY <1>3, <1>4, <1>5 DEF a

\* Two buffers show the same pixel.
Same(b, d, x, y) == \A k \in 0..(Bpp - 1) : b[offset(x, y) + k] = d[offset(x, y) + k]
Shows(b, x, y, color) == \A k \in 0..(Bpp - 1) : b[offset(x, y) + k] = ByteOf(color, k)

\* What is not drawn stays.
LEMMA PaintMisses ==
  ASSUME fb \in Mode, NEW b \in Buffers, NEW pixels, NEW color \in Nat,
         NEW x \in Nat, NEW y \in Nat, Visible(x, y), ~Hit(pixels, x, y)
  PROVE  Same(Paint(b, pixels, color), b, x, y)
<1> QED BY PaintAt DEF Same

PaintSquare(c, f, i) == Paint(c, Square(f, i), cols[i])

\* A square has a colour.
LEMMA SquareColor ==
  ASSUME NEW i \in 1..4
  PROVE  cols[i] \in Nat
<1>1. i = 1 \/ i = 2 \/ i = 3 \/ i = 4
  BY SMT
<1>2. \h60a5fa \in Nat /\ \h34d399 \in Nat /\ \hf472b6 \in Nat /\ \hfbbf24 \in Nat
  BY SMT
<1> QED BY <1>1, <1>2, SMT DEF cols

\* The orbit is four squares, one after the other.
LEMMA OrbitIs ==
  ASSUME fb \in Mode, NEW b \in Buffers, NEW f
  PROVE  demo_orbit(b, f) =
           PaintSquare(PaintSquare(PaintSquare(PaintSquare(b, f, 1), f, 2), f, 3), f, 4)
<1> DEFINE w == <<1, 2, 3, 4>>
           F == [c \in Buffers |-> [i \in 1..4 |-> PaintSquare(c, f, i)]]
           Iter(it) == it = [q \in SUBSET (1..4) |->
                               IF q = {} THEN b ELSE PaintSquare(it[q \ {Max(q)}], f, w[Max(q)])]
<1>1. DOMAIN w = 1..4 /\ w \in [1..4 -> 1..4] /\ \A i \in 1..4 : w[i] = i
  BY SMT
<1>2. demo_orbit(b, f) = (CHOOSE it : Iter(it))[1..4]
  BY <1>1, Zenon DEF demo_orbit, FoldLeft, MapThenFoldSet, PaintSquare
<1> HIDE DEF w
<1>3. F \in [Buffers -> [1..4 -> Buffers]]
  BY PaintType, SquareColor DEF PaintSquare
<1>4. PICK it \in [SUBSET (1..4) -> Buffers] : IsFold(it, F, b, w, 4)
  <2> HIDE DEF F
  <2>1. 4 \in Nat
    BY SMT
  <2> QED BY <1>1, <1>3, <2>1, FoldExists
<1>5. Iter(it)
  <2> DEFINE A(q) == IF q = {} THEN b ELSE PaintSquare(it[q \ {Max(q)}], f, w[Max(q)])
             B(q) == IF q = {} THEN b ELSE F[it[q \ {Max(q)}]][w[Max(q)]]
  <2>1. ASSUME NEW q \in SUBSET (1..4) PROVE A(q) = B(q)
    <3>1. CASE q # {}
      <4>1. Max(q) \in 1..4 /\ q \ {Max(q)} \in SUBSET (1..4)
        BY <3>1, LastPlace
      <4>2. it[q \ {Max(q)}] \in Buffers /\ w[Max(q)] \in 1..4
        BY <1>1, <4>1
      <4> QED BY <4>2, Zenon
    <3>2. CASE q = {}
      BY <3>2
    <3> QED BY <3>1, <3>2
  <2>2. it = [q \in SUBSET (1..4) |-> B(q)]
    BY <1>4 DEF IsFold
  <2> HIDE DEF A, B
  <2>3. it = [q \in SUBSET (1..4) |-> A(q)]
    BY <2>1, <2>2
  <2> QED BY <2>3 DEF A
<1>6. PICK jt : jt = (CHOOSE i : Iter(i)) /\ Iter(jt)
  <2> HIDE DEF Iter
  <2> QED BY <1>5
<1>7. ASSUME NEW q \in SUBSET (1..4)
      PROVE  jt[q] = IF q = {} THEN b ELSE PaintSquare(jt[q \ {Max(q)}], f, w[Max(q)])
  BY <1>6, Zenon
<1>8. ASSUME NEW k \in 1..4 PROVE jt[1..k] = PaintSquare(jt[1..(k - 1)], f, k)
  <2>1. 1..k \in SUBSET (1..4) /\ k \in Nat /\ k # 0 /\ w[k] = k
    BY <1>1
  <2>2. Max(1..k) = k /\ (1..k) \ {k} = 1..(k - 1) /\ 1..k # {}
    BY <2>1, Firsts
  <2> HIDE DEF Iter, F
  <2> QED BY <1>7, <2>1, <2>2, Zenon
<1>9. jt[1..0] = b
  <2>1. 1..0 = {} /\ {} \in SUBSET (1..4)
    BY SMT
  <2> QED BY <1>7, <2>1, Zenon
<1> HIDE DEF Iter, F
<1>10. /\ jt[1..1] = PaintSquare(jt[1..0], f, 1) /\ jt[1..2] = PaintSquare(jt[1..1], f, 2)
       /\ jt[1..3] = PaintSquare(jt[1..2], f, 3) /\ jt[1..4] = PaintSquare(jt[1..3], f, 4)
  <2>1. /\ 1 \in 1..4 /\ 2 \in 1..4 /\ 3 \in 1..4 /\ 4 \in 1..4
        /\ 1 - 1 = 0 /\ 2 - 1 = 1 /\ 3 - 1 = 2 /\ 4 - 1 = 3
    BY SMT
  <2>2. /\ jt[1..1] = PaintSquare(jt[1..(1 - 1)], f, 1) /\ jt[1..2] = PaintSquare(jt[1..(2 - 1)], f, 2)
        /\ jt[1..3] = PaintSquare(jt[1..(3 - 1)], f, 3) /\ jt[1..4] = PaintSquare(jt[1..(4 - 1)], f, 4)
    BY <1>8, <2>1, Zenon
  <2> QED BY <2>1, <2>2, Zenon
<1> QED BY <1>2, <1>6, <1>9, <1>10, Zenon

\* The orbit leaves a buffer of bytes, and what its squares do not cover.
LEMMA OrbitDraws ==
  ASSUME fb \in Mode, NEW b \in Buffers, NEW f
  PROVE  /\ demo_orbit(b, f) \in Buffers
         /\ \A x, y \in Nat :
              Visible(x, y) /\ (\A i \in 1..4 : ~Hit(Square(f, i), x, y))
                => Same(demo_orbit(b, f), b, x, y)
<1> DEFINE b1 == PaintSquare(b, f, 1)
           b2 == PaintSquare(b1, f, 2)
           b3 == PaintSquare(b2, f, 3)
           b4 == PaintSquare(b3, f, 4)
<1>1. demo_orbit(b, f) = b4
  BY OrbitIs
<1>2. 1 \in 1..4 /\ 2 \in 1..4 /\ 3 \in 1..4 /\ 4 \in 1..4
  BY SMT
<1>3. \A c \in Buffers, i \in 1..4 : PaintSquare(c, f, i) \in Buffers
  BY PaintType, SquareColor DEF PaintSquare
<1>4. b1 \in Buffers /\ b2 \in Buffers /\ b3 \in Buffers /\ b4 \in Buffers
  BY <1>2, <1>3
<1>5. ASSUME NEW x \in Nat, NEW y \in Nat, Visible(x, y), \A i \in 1..4 : ~Hit(Square(f, i), x, y)
      PROVE  Same(b4, b, x, y)
  <2>1. \A c \in Buffers, i \in 1..4 : Same(PaintSquare(c, f, i), c, x, y)
    BY <1>5, PaintMisses, SquareColor DEF PaintSquare
  <2> HIDE DEF Same
  <2>2. Same(b1, b, x, y) /\ Same(b2, b1, x, y) /\ Same(b3, b2, x, y) /\ Same(b4, b3, x, y)
    BY <1>2, <1>4, <2>1
  <2> HIDE DEF b1, b2, b3, b4
  <2> QED BY <2>2 DEF Same
<1> QED BY <1>1, <1>4, <1>5

(***************************************************************************)
(* The parts of a frame                                                    *)
(***************************************************************************)

\* d is drawn from b without a change above the strip.
Below(b, d) ==
  /\ d \in Buffers
  /\ \A x, y \in Nat : Visible(x, y) /\ y < StripTop => Same(d, b, x, y)

Low(pixels) == \A p \in pixels : p[2] \in Int /\ p[2] >= StripTop

\* What is drawn in the strip changes nothing above it.
LEMMA PaintBelow ==
  ASSUME fb \in Mode, NEW b \in Buffers, NEW pixels, Low(pixels), NEW color \in Nat
  PROVE  Below(b, Paint(b, pixels, color))
<1>1. Paint(b, pixels, color) \in Buffers
  BY PaintType
<1>2. StripTop \in Int
  BY PixelBytes, LayoutAssumption DEF StripTop
<1>3. ASSUME NEW x \in Nat, NEW y \in Nat, Visible(x, y), y < StripTop
      PROVE  Same(Paint(b, pixels, color), b, x, y)
  <2>1. ~Hit(pixels, x, y)
    BY <1>2, <1>3 DEF Low, Hit
  <2> QED BY <1>3, <2>1, PaintMisses
<1> QED BY <1>1, <1>3 DEF Below

\* Drawing once more in the strip
LEMMA BelowTwice ==
  ASSUME NEW b, NEW c, NEW d, Below(b, c), Below(c, d)
  PROVE  Below(b, d)
<1> QED BY DEF Below, Same

\* A rectangle that begins in the strip lies in it.
LEMMA RectLow ==
  ASSUME NEW x, NEW y \in Int, NEW w, NEW h \in Int, y >= StripTop, fb \in Mode
  PROVE  Low((x..(x + w - 1)) \X (y..(y + h - 1)))
<1>1. StripTop \in Int
  BY PixelBytes, LayoutAssumption DEF StripTop
<1>2. \A q \in y..(y + h - 1) : q \in Int /\ q >= StripTop
  BY <1>1
<1>3. \A p \in (x..(x + w - 1)) \X (y..(y + h - 1)) : p[2] \in y..(y + h - 1)
  OBVIOUS
<1> QED BY <1>2, <1>3 DEF Low

\* A glyph has no pixel above the place where it is drawn.
LEMMA GlyphLow ==
  ASSUME NEW x, NEW y \in Int, NEW c, NEW sz \in Nat, y >= StripTop, fb \in Mode
  PROVE  Low(GlyphPixels(x, y, c, sz))
<1> DEFINE ch == IF c \in DOMAIN Font THEN c ELSE QuestionMark
<1>1. StripTop \in Int /\ FONT_HEIGHT \in Nat
  BY PixelBytes, LayoutAssumption DEF StripTop
<1>2. ch \in DOMAIN Font
  BY FontAssumption
<1>3. Font[ch] \subseteq (0..(FONT_WIDTH - 1)) \X (0..(FONT_HEIGHT - 1))
  BY <1>2, FontAssumption
<1> HIDE DEF ch
<1>4. ASSUME NEW p \in GlyphPixels(x, y, c, sz) PROVE p[2] \in Int /\ p[2] >= StripTop
  <2>1. PICK dot \in Font[ch], d \in (0..(sz - 1)) \X (0..(sz - 1)) :
          p = <<x + dot[1] * sz + d[1], y + dot[2] * sz + d[2]>>
    BY DEF GlyphPixels, ch
  <2>2. dot[2] \in Nat /\ d[2] \in Nat
    <3>1. dot \in (0..(FONT_WIDTH - 1)) \X (0..(FONT_HEIGHT - 1))
      BY <1>3
    <3>2. dot[2] \in 0..(FONT_HEIGHT - 1) /\ d[2] \in 0..(sz - 1)
      BY <3>1
    <3> QED BY <1>1, <3>2
  <2>3. PICK m \in Nat : m = dot[2] * sz
    BY <2>2
  <2>4. p[2] = y + m + d[2]
    BY <2>1, <2>3
  <2> QED BY <1>1, <2>2, <2>3, <2>4
<1> QED BY <1>4 DEF Low

\* Nor has a line of text.
LEMMA TextLow ==
  ASSUME fb \in Mode, NEW b \in Buffers, NEW x, NEW y \in Int, NEW str, NEW color \in Nat,
         NEW sz \in Nat, y >= StripTop
  PROVE  Below(b, draw_str(b, x, y, str, color, sz))
<1> DEFINE G(i) == GlyphPixels(x + (i - 1) * FONT_WIDTH * sz, y, str[i], sz)
           pixels == UNION {G(i) : i \in 1..Len(str)}
<1>1. \A i \in 1..Len(str) : Low(G(i))
  BY GlyphLow
<1>2. draw_str(b, x, y, str, color, sz) = Paint(b, pixels, color)
  BY DEF draw_str
<1> HIDE DEF G
<1>3. Low(pixels)
  BY <1>1 DEF Low
<1> HIDE DEF pixels
<1> QED BY <1>2, <1>3, PaintBelow

\* The bar changes the strip only: its rectangles and its text begin at the
\* strip's top or below.
LEMMA BarBelow ==
  ASSUME fb \in Mode, NEW b \in Buffers, NEW pct, NEW txt
  PROVE  Below(b, draw_bar(b, pct, txt))
<1> DEFINE by == StripTop
           fw == fb.width - 2 * PAD
           fh == BAR_H - 2 * PAD
           fill == (fw * pct) \div Full
           ch == FONT_HEIGHT * TXT_SZ
           cw == FONT_WIDTH * TXT_SZ
           ty == by + ((BAR_H - ch) \div 2)
           label == <<Digits[pct \div TEN], Digits[pct % TEN], Percent>>
           pctx == fw - 3 * cw - PAD
           infow == pctx - 2 * PAD
           b1 == fill_rect(b, 0, by, fb.width, BAR_H, BAR_C)
           b2 == fill_rect(b1, PAD, by + PAD, fill, fh \div 2, INF_C)
           b3 == fill_rect(b2, PAD, by + PAD + (fh \div 2), fill, fh - (fh \div 2), FILL_C)
           b4 == draw_str(b3, pctx + 1, ty + 1, label, BACK, TXT_SZ)
           b5 == draw_str(b4, pctx, ty, label, TXT_C, TXT_SZ)
           b6 == IF infow > 0
                 THEN fill_rect(b5, PAD, ty + 1, infow + 1, ch + 1, BAR_C) ELSE b5
           b7 == draw_str(b6, PAD + 1, ty + 1, txt, BACK, TXT_SZ)
           b8 == draw_str(b7, PAD, ty, txt, INF_C, TXT_SZ)
<1>1. draw_bar(b, pct, txt) = b8
  BY SMT DEF draw_bar
<1>2. by \in Int /\ PAD \in Nat /\ BAR_H \in Nat /\ TXT_SZ \in Nat /\ ch \in Nat /\ ch <= BAR_H
  <2>1. FONT_HEIGHT \in Nat /\ TXT_SZ \in Nat /\ FONT_HEIGHT * TXT_SZ <= BAR_H
    BY LayoutAssumption
  <2> QED BY <2>1, PixelBytes, LayoutAssumption DEF StripTop
<1>3. fh \in Nat /\ fh \div 2 \in Nat /\ fh - (fh \div 2) \in Int
  BY <1>2, LayoutAssumption
<1> HIDE DEF fh
<1>4. ty \in Int /\ ty >= by
  <2> HIDE DEF ch
  <2>1. (BAR_H - ch) \div 2 \in Nat
    BY <1>2
  <2> QED BY <1>2, <2>1
<1>5. BAR_C \in Nat /\ INF_C \in Nat /\ FILL_C \in Nat /\ TXT_C \in Nat /\ BACK \in Nat
  BY SMT DEF BAR_C, INF_C, FILL_C, TXT_C, BACK
<1> HIDE DEF ty, fw, fill, ch, cw, label, pctx, infow
<1>6. ASSUME NEW c \in Buffers, NEW x, NEW y \in Int, NEW w, NEW h \in Int, NEW color \in Nat, y >= by
      PROVE  Below(c, fill_rect(c, x, y, w, h, color))
  BY <1>2, <1>6, RectLow, PaintBelow DEF fill_rect
<1>7. \A c, d : Below(c, d) => d \in Buffers
  BY DEF Below
<1>8. by + PAD \in Int /\ by + PAD >= by /\ fh \div 2 \in Int /\ ty + 1 \in Int /\ ty + 1 >= by
      /\ by + PAD + (fh \div 2) \in Int /\ by + PAD + (fh \div 2) >= by /\ by >= by
      /\ ch + 1 \in Int /\ BAR_H \in Int
  BY <1>2, <1>3, <1>4
<1> HIDE DEF by
<1>10. Below(b, b1) /\ b1 \in Buffers
  BY <1>2, <1>5, <1>6, <1>7, <1>8
<1> HIDE DEF b1
<1>11. Below(b1, b2) /\ b2 \in Buffers
  BY <1>3, <1>5, <1>6, <1>7, <1>8, <1>10
<1> HIDE DEF b2
<1>12. Below(b2, b3) /\ b3 \in Buffers
  BY <1>3, <1>5, <1>6, <1>7, <1>8, <1>11
<1> HIDE DEF b3
<1>13. Below(b3, b4) /\ b4 \in Buffers
  BY <1>2, <1>5, <1>7, <1>8, <1>12, TextLow DEF by
<1> HIDE DEF b4
<1>14. Below(b4, b5) /\ b5 \in Buffers
  BY <1>2, <1>4, <1>5, <1>7, <1>13, TextLow DEF by
<1> HIDE DEF b5
<1>15. Below(b4, b6) /\ b6 \in Buffers
  <2>1. CASE infow > 0
    <3>1. Below(b5, b6)
      BY <1>5, <1>6, <1>8, <1>14, <2>1
    <3> HIDE DEF b6
    <3> QED BY <1>7, <1>14, <3>1, BelowTwice
  <2>2. CASE ~(infow > 0)
    BY <1>14, <2>2
  <2> QED BY <2>1, <2>2
<1> HIDE DEF b6
<1>16. Below(b6, b7) /\ b7 \in Buffers
  BY <1>2, <1>5, <1>7, <1>8, <1>15, TextLow DEF by
<1> HIDE DEF b7
<1>17. Below(b7, b8)
  BY <1>2, <1>4, <1>5, <1>16, TextLow DEF by
<1> HIDE DEF b8
<1>18. Below(b, b2) /\ Below(b2, b4) /\ Below(b4, b7) /\ Below(b4, b8)
  BY <1>10, <1>11, <1>12, <1>13, <1>15, <1>16, <1>17, BelowTwice
<1>19. Below(b, b4)
  BY <1>18, BelowTwice
<1>20. Below(b, b8)
  BY <1>18, <1>19, BelowTwice
<1> QED BY <1>1, <1>20

\* Clearing the screen paints every pixel, but in a mode of 24 bits, where
\* rep stosb stores the lowest byte of the colour three times.
LEMMA ClearShows ==
  ASSUME fb \in Mode, NEW b \in Buffers, NEW color \in Nat
  PROVE  /\ clear(b, color) \in Buffers
         /\ fb.bpp # 24 =>
              \A x, y \in Nat : Visible(x, y) => Shows(clear(b, color), x, y, color)
<1> DEFINE D == 0..(fb_size - 1)
<1>1. DOMAIN b = D /\ fb_size \in Nat
  BY PixelBytes DEF Buffers
<1>2. clear(b, color) =
        [a \in D |-> IF fb.bpp = 32 THEN ByteOf(color, a % 4) ELSE ByteOf(color, 0)]
  <2> DEFINE A(a) == IF a >= fb_size THEN b[a]
                     ELSE IF fb.bpp = 32 THEN ByteOf(color, a % 4) ELSE ByteOf(color, 0)
             B(a) == IF fb.bpp = 32 THEN ByteOf(color, a % 4) ELSE ByteOf(color, 0)
  <2>1. \A a \in D : A(a) = B(a)
    BY <1>1
  <2>2. clear(b, color) = [a \in D |-> A(a)]
    BY <1>1, Zenon DEF clear
  <2> HIDE DEF A, B, D
  <2>3. [a \in D |-> A(a)] = [a \in D |-> B(a)]
    BY <2>1
  <2> QED BY <2>2, <2>3 DEF B
<1>3. \A a \in D : ByteOf(color, a % 4) \in 0..255 /\ ByteOf(color, 0) \in 0..255
  <2> TAKE a \in D
  <2>1. a % 4 \in 0..3 /\ 0 \in 0..3
    BY <1>1
  <2> QED BY <2>1, ByteType
<1>4. clear(b, color) \in Buffers
  <2> HIDE DEF D
  <2>1. clear(b, color) \in [D -> 0..255]
    BY <1>2, <1>3
  <2> QED BY <2>1 DEF Buffers, D
<1>5. ASSUME fb.bpp # 24, NEW x \in Nat, NEW y \in Nat, Visible(x, y), NEW k \in 0..(Bpp - 1)
      PROVE  clear(b, color)[offset(x, y) + k] = ByteOf(color, k)
  <2>1. offset(x, y) + k \in D /\ (offset(x, y) + k) % Bpp = k
    BY <1>5, PixelPlace
  <2>2. fb.bpp \in {8, 24, 32}
    BY DEF Mode
  <2>3. CASE fb.bpp = 32
    <3>1. Bpp = 4
      BY <2>3, PixelBytes
    <3> HIDE DEF D
    <3> QED BY <1>2, <2>1, <2>3, <3>1
  <2>4. CASE fb.bpp = 8
    <3>1. k = 0
      BY <2>4, PixelBytes
    <3> HIDE DEF D
    <3> QED BY <1>2, <2>1, <2>4, <3>1
  <2> QED BY <1>5, <2>2, <2>3, <2>4
<1> QED BY <1>4, <1>5 DEF Shows

FlushedPixels(s) == UNION {CellPixels(s, i, j) : i \in FlushedRows(s), j \in ColNos}

\* What is drawn of the rows down to the cursor's is all there is.
LEMMA FlushedIs ==
  ASSUME fb \in Mode, NEW s \in Screens, Untouched(s)
  PROVE  FlushedPixels(s) = TextPixels(s)
<1>1. s.row \in Nat /\ \A i \in RowNos : i \in Nat
  BY GridAssumption DEF Screens, RowNos
<1>2. \A i \in RowNos, j \in ColNos : ~(i <= s.row) => CellPixels(s, i, j) = {}
  BY <1>1 DEF Untouched, CellPixels
<1>3. FlushedRows(s) = {i \in RowNos : i <= s.row /\ RowFits(i)}
  BY DEF FlushedRows
<1> QED BY <1>2, <1>3 DEF TextPixels, FlushedPixels

\* The pixels of a text are pairs.
LEMMA TextHit ==
  ASSUME NEW s, NEW x, NEW y
  PROVE  Hit(TextPixels(s), x, y) <=> <<x, y>> \in TextPixels(s)
<1>1. \A p \in TextPixels(s) : p = <<p[1], p[2]>>
  <2> TAKE p \in TextPixels(s)
  <2>1. PICK i \in RowNos, j \in ColNos : p \in CellPixels(s, i, j)
    BY DEF TextPixels
  <2>2. PICK a, b, c : p \in GlyphPixels(a, b, c, 1)
    BY <2>1 DEF CellPixels
  <2>3. \E u, v : p = <<u, v>>
    BY <2>2 DEF GlyphPixels
  <2> QED BY <2>3
<1> QED BY <1>1 DEF Hit

\* On a cleared buffer the flush shows the text and nothing else.
LEMMA FlushShows ==
  ASSUME fb \in Mode, NEW b \in Buffers, NEW s \in Screens, Untouched(s)
  PROVE  /\ scr_be_flush(b, s) \in Buffers
         /\ \A x, y \in Nat :
              Visible(x, y) /\ Shows(b, x, y, BACK) =>
                Shows(scr_be_flush(b, s), x, y, IF <<x, y>> \in TextPixels(s) THEN WHITE ELSE BACK)
<1>1. scr_be_flush(b, s) = Paint(b, TextPixels(s), WHITE)
  <2>1. scr_be_flush(b, s) = Paint(b, FlushedPixels(s), WHITE)
    BY DEF scr_be_flush, FlushedPixels
  <2> QED BY <2>1, FlushedIs
<1>2. WHITE \in Nat
  BY SMT DEF WHITE
<1>3. ASSUME NEW x \in Nat, NEW y \in Nat, Visible(x, y), Shows(b, x, y, BACK)
      PROVE  Shows(Paint(b, TextPixels(s), WHITE), x, y,
                   IF <<x, y>> \in TextPixels(s) THEN WHITE ELSE BACK)
  BY <1>2, <1>3, PaintAt, TextHit DEF Shows
<1>4. Paint(b, TextPixels(s), WHITE) \in Buffers
  BY <1>2, PaintType
<1> QED BY <1>1, <1>3, <1>4

\* What the picture of frame f shows, of screen s in buffer b
Picture(b, s, f) ==
  \A x \in 0..(fb.width - 1), y \in 0..(StripTop - 1) :
    (\A i \in 1..4 : <<x, y>> \notin Square(f, i)) =>
      Shows(b, x, y, IF <<x, y>> \in TextPixels(s) THEN WHITE ELSE BACK)

Frame(b, s, f, pct, txt) ==
  draw_bar(demo_orbit(scr_be_flush(clear(b, BACK), s), f), pct, txt)

\* A frame shows the text, whatever the buffer held before.
LEMMA FrameShows ==
  ASSUME fb \in Mode, NEW b \in Buffers, NEW s \in Screens, Untouched(s), NEW f, NEW pct, NEW txt
  PROVE  /\ Frame(b, s, f, pct, txt) \in Buffers
         /\ fb.bpp # 24 => Picture(Frame(b, s, f, pct, txt), s, f)
<1> DEFINE c == clear(b, BACK)
           d == scr_be_flush(c, s)
           e == demo_orbit(d, f)
           g == draw_bar(e, pct, txt)
<1>1. BACK \in Nat
  BY SMT DEF BACK
<1>2. c \in Buffers /\ (fb.bpp # 24 => \A x, y \in Nat : Visible(x, y) => Shows(c, x, y, BACK))
  BY <1>1, ClearShows
<1> HIDE DEF c
<1>3. /\ d \in Buffers
      /\ \A x, y \in Nat :
           Visible(x, y) /\ Shows(c, x, y, BACK) =>
             Shows(d, x, y, IF <<x, y>> \in TextPixels(s) THEN WHITE ELSE BACK)
  BY <1>2, FlushShows
<1> HIDE DEF d
<1>4. /\ e \in Buffers
      /\ \A x, y \in Nat :
           Visible(x, y) /\ (\A i \in 1..4 : ~Hit(Square(f, i), x, y)) => Same(e, d, x, y)
  BY <1>3, OrbitDraws
<1> HIDE DEF e
<1>5. Below(e, g)
  BY <1>4, BarBelow
<1> HIDE DEF g
<1>6. ASSUME fb.bpp # 24, NEW x \in 0..(fb.width - 1), NEW y \in 0..(StripTop - 1),
             \A i \in 1..4 : <<x, y>> \notin Square(f, i)
      PROVE  Shows(g, x, y, IF <<x, y>> \in TextPixels(s) THEN WHITE ELSE BACK)
  <2> DEFINE color == IF <<x, y>> \in TextPixels(s) THEN WHITE ELSE BACK
  <2>1. x \in Nat /\ y \in Nat /\ Visible(x, y) /\ y < StripTop
    BY PixelBytes, LayoutAssumption DEF Visible, StripTop
  <2>2. \A i \in 1..4 : ~Hit(Square(f, i), x, y)
    <3> TAKE i \in 1..4
    <3>1. \A p \in Square(f, i) : p = <<p[1], p[2]>>
      BY DEF Square
    <3> QED BY <1>6, <3>1 DEF Hit
  <2>3. Shows(d, x, y, color)
    BY <1>2, <1>3, <1>6, <2>1
  <2>4. Same(e, d, x, y) /\ Same(g, e, x, y)
    BY <1>4, <1>5, <2>1, <2>2 DEF Below
  <2> HIDE DEF color
  <2>5. Shows(g, x, y, color)
    BY <2>3, <2>4 DEF Shows, Same
  <2> QED BY <2>5 DEF color
<1>7. g \in Buffers
  BY <1>5 DEF Below
<1> QED BY <1>6, <1>7 DEF Frame, Picture, c, d, e, g

(***************************************************************************)
(* The progress bar's walk keeps its type.                                 *)
(***************************************************************************)

\* Fields of a record of the bar's shape are updated on their own.
LEMMA FieldType ==
  ASSUME NEW P, NEW B, NEW N, NEW T, NEW Q,
         NEW b \in [phase : P, progress_done : B, cur_pct : N, cur_txt : T],
         NEW q \in Q, NEW d \in B, NEW n \in N, NEW t \in T
  PROVE  /\ b.phase \in P /\ b.cur_pct \in N
         /\ [b EXCEPT !.phase = q] \in [phase : Q, progress_done : B, cur_pct : N, cur_txt : T]
         /\ [b EXCEPT !.phase = q, !.progress_done = d]
              \in [phase : Q, progress_done : B, cur_pct : N, cur_txt : T]
         /\ [b EXCEPT !.cur_pct = n] \in [phase : P, progress_done : B, cur_pct : N, cur_txt : T]
         /\ [b EXCEPT !.cur_txt = t] \in [phase : P, progress_done : B, cur_pct : N, cur_txt : T]
         /\ [b EXCEPT !.cur_pct = n].phase = b.phase
         /\ [b EXCEPT !.phase = q].phase = q
<1> QED OBVIOUS

\* Bars whose phase is any number
Walks == [phase : Nat, progress_done : BOOLEAN, cur_pct : 0..Full, cur_txt : {"", "done"}]

\* What the functions of the bar store keeps its type.
LEMMA BarFields ==
  ASSUME NEW b \in Walks, NEW p \in Nat, NEW q \in 0..Full, NEW n \in 0..Full,
         NEW t \in {"", "done"}
  PROVE  /\ b.phase \in Nat
         /\ [b EXCEPT !.phase = p] \in Walks /\ [b EXCEPT !.phase = p].phase = p
         /\ [b EXCEPT !.phase = q] \in Bars
         /\ [b EXCEPT !.phase = q, !.progress_done = TRUE] \in Bars
         /\ [b EXCEPT !.cur_pct = n] \in Walks /\ [b EXCEPT !.cur_pct = n].phase = b.phase
         /\ [b EXCEPT !.cur_txt = t] \in Walks
<1>1. TRUE \in BOOLEAN
  OBVIOUS
<1> QED BY <1>1, FieldType, Zenon DEF Bars, Walks

\* A walk whose phase is a percentage is a bar.
LEMMA WalkIsBar ==
  ASSUME NEW b \in Walks
  PROVE  b.phase \in 0..Full <=> b \in Bars
<1>1. ASSUME NEW P, NEW B, NEW N, NEW T, NEW Q,
             NEW c \in [phase : P, progress_done : B, cur_pct : N, cur_txt : T]
      PROVE  c.phase \in Q <=> c \in [phase : Q, progress_done : B, cur_pct : N, cur_txt : T]
  OBVIOUS
<1> QED BY <1>1, Zenon DEF Walks, Bars

\* A bar is one of them.
LEMMA BarIsWalk == Bars \subseteq Walks
<1>1. ASSUME NEW P, NEW B, NEW N, NEW T, NEW Q, P \subseteq Q
      PROVE  [phase : P, progress_done : B, cur_pct : N, cur_txt : T]
               \subseteq [phase : Q, progress_done : B, cur_pct : N, cur_txt : T]
  BY <1>1
<1>2. 0..Full \subseteq Nat
  BY FullAssumption
<1> QED BY <1>1, <1>2, Zenon DEF Walks, Bars

\* demo_progress, whatever the phase, leaves a bar.
LEMMA BarType ==
  ASSUME NEW b \in Bars
  PROVE  NextBar(b) \in Bars
<1> DEFINE c == progress_set(b, b.phase)
           next == [c EXCEPT !.phase = @ + 1]
<1>1. Full \in Nat \ {0} /\ 0 \in 0..Full /\ 1 \in 0..Full /\ Full \in 0..Full
      /\ "" \in {"", "done"} /\ "done" \in {"", "done"}
  BY FullAssumption
<1>2. b \in Walks /\ b.phase \in 0..Full
  BY BarIsWalk, WalkIsBar
<1>3. ASSUME NEW p \in 0..Full
      PROVE  progress_set(b, p) \in Walks /\ progress_set(b, p).phase = b.phase
  <2>1. ~(p > Full)
    BY <1>1
  <2>2. progress_set(b, p) = [b EXCEPT !.cur_pct = p]
    BY <2>1, Zenon DEF progress_set
  <2>3. 0 \in Nat
    OBVIOUS
  <2>4. [b EXCEPT !.cur_pct = p] \in Walks /\ [b EXCEPT !.cur_pct = p].phase = b.phase
    BY <1>1, <1>2, <2>3, BarFields, Zenon
  <2> QED BY <2>2, <2>4, Zenon
<1>4. progress_set(b, Full) \in Bars
  BY <1>1, <1>2, <1>3, WalkIsBar
<1>5. c \in Walks /\ c.phase = b.phase
  BY <1>2, <1>3
<1> HIDE DEF c
<1>6. [progress_init(b) EXCEPT !.phase = 1] \in Bars
  <2>1. 0 \in Nat
    OBVIOUS
  <2>2. [b EXCEPT !.cur_pct = 0] \in Walks
    BY <1>1, <1>2, <2>1, BarFields, Zenon
  <2>3. progress_init(b) = [[b EXCEPT !.cur_pct = 0] EXCEPT !.cur_txt = ""]
    BY DEF progress_init
  <2>4. progress_init(b) \in Walks
    BY <1>1, <2>1, <2>2, <2>3, BarFields, Zenon
  <2> QED BY <1>1, <2>1, <2>4, BarFields, Zenon
<1>7. next \in Walks /\ next.phase = b.phase + 1
  <2>1. next = [c EXCEPT !.phase = b.phase + 1]
    BY <1>5, Zenon
  <2>2. b.phase + 1 \in Nat
    BY <1>1, <1>2
  <2> HIDE DEF next
  <2> QED BY <1>1, <1>5, <2>1, <2>2, BarFields, Zenon
<1> HIDE DEF next
<1>8. [progress_text(next, "done") EXCEPT !.phase = 0, !.progress_done = TRUE] \in Bars
  <2>1. 0 \in Nat
    OBVIOUS
  <2>2. progress_text(next, "done") \in Walks
    BY <1>1, <1>7, <2>1, BarFields, Zenon DEF progress_text
  <2> QED BY <1>1, <2>1, <2>2, BarFields, Zenon
<1>9. ~(next.phase > Full) => next \in Bars
  BY <1>1, <1>2, <1>7, WalkIsBar
<1>10. demo_progress(b) =
         IF b.phase = 0 THEN [progress_init(b) EXCEPT !.phase = 1]
         ELSE IF next.phase > Full
              THEN [progress_text(next, "done") EXCEPT !.phase = 0, !.progress_done = TRUE]
              ELSE next
  BY Zenon DEF demo_progress, next, c
<1>11. demo_progress(b) \in Bars
  BY <1>6, <1>8, <1>9, <1>10, Zenon
<1> QED BY <1>4, <1>11, Zenon DEF NextBar

(***************************************************************************)
(* Frames and characters                                                   *)
(***************************************************************************)
DrawIInv ==
  /\ fb \in Mode /\ draw_buf \in Buffers /\ bar \in Bars /\ frame \in Nat
  /\ Ready(scr, text)
  /\ shown = <<>> \/ \E s \in Screens : shown = <<s>>
  /\ fb.bpp # 24 => PictureShowsText

\* Whatever the boot loader has left and the bus answers, a mode is found.
LEMMA InitMode ==
  ASSUME NEW boot \in {<<>>} \cup {<<mode>> : mode \in BootModes}, NEW devices, NEW vbe_answers
  PROVE  init(boot, devices, vbe_answers) \in Mode
<1>1. BootModes \cup {VbeMode, Mode13} \subseteq Mode
  BY ModeAssumption DEF Mode
<1>2. boot # <<>> => Head(boot) \in BootModes
  OBVIOUS
<1> QED BY <1>1, <1>2 DEF init

\* At boot nothing has been drawn or written.
LEMMA DrawStarts == DrawInit => DrawIInv
<1> SUFFICES ASSUME DrawInit PROVE DrawIInv
  OBVIOUS
<1>1. fb \in Mode
  BY InitMode DEF DrawInit
<1>2. draw_buf \in Buffers
  BY MemoryAssumption DEF DrawInit, Buffers
<1>3. bar \in Bars
  <2>1. ASSUME NEW B, NEW d \in B
        PROVE  [phase |-> 0, progress_done |-> d, cur_pct |-> 0, cur_txt |-> ""]
                 \in [phase : 0..Full, progress_done : B, cur_pct : 0..Full, cur_txt : {"", "done"}]
    BY <2>1, FullAssumption
  <2>2. FALSE \in BOOLEAN
    OBVIOUS
  <2> QED BY <2>1, <2>2, Zenon DEF DrawInit, FirstBar, Bars
<1>4. Ready(scr, text)
  <2>1. EmptyScreen.row = 0 /\ \A i \in RowNos, j \in ColNos : EmptyScreen.grid[i][j] = NUL
    BY DEF EmptyScreen, At
  <2> QED BY <2>1, FirstWindow DEF Ready, Untouched, DrawInit, Init
<1>5. frame \in Nat /\ shown = <<>>
  BY DEF DrawInit
<1>6. PictureShowsText
  BY <1>5 DEF PictureShowsText
<1> QED BY <1>1, <1>2, <1>3, <1>4, <1>5, <1>6 DEF DrawIInv

\* The text on the rows r
RowsPixels(r, s) == UNION {CellPixels(s, i, j) : i \in r, j \in ColNos}
FittingRows == {i \in RowNos : RowFits(i)}

\* The next picture, in terms of the frame drawn
LEMMA NextPicture ==
  ASSUME fb' = fb, NEW s \in Screens, shown' = <<s>>, NEW f, frame' - 1 = f,
         Picture(draw_buf', s, f)
  PROVE  PictureShowsText'
<1>1. Head(shown') = s
  OBVIOUS
<1>2. TextPixels(Head(shown))' = TextPixels(s)
  <2>1. TextPixels(s) = RowsPixels(FittingRows, s)
    BY DEF TextPixels, RowsPixels, FittingRows
  <2>2. TextPixels(Head(shown))' = RowsPixels(FittingRows', Head(shown'))
    BY DEF TextPixels, RowsPixels, FittingRows
  <2>3. FittingRows' = FittingRows
    BY DEF FittingRows, RowFits
  <2> QED BY <1>1, <2>1, <2>2, <2>3
<1>3. ASSUME NEW x, NEW y
      PROVE  <<x, y>> \notin Covered' <=> \A i \in 1..4 : <<x, y>> \notin Square(f, i)
  BY DEF Covered
<1>4. Bpp' = Bpp /\ StripTop' = StripTop
  BY DEF Bpp, StripTop
<1> QED BY <1>2, <1>3, <1>4 DEF PictureShowsText, Picture, Shows, offset

\* A character on the console leaves the picture.
LEMMA PictureStays ==
  PictureShowsText /\ UNCHANGED drawing => PictureShowsText'
<1> SUFFICES ASSUME PictureShowsText, UNCHANGED drawing PROVE PictureShowsText'
  OBVIOUS
<1>1. fb' = fb /\ draw_buf' = draw_buf /\ frame' = frame /\ shown' = shown
  BY DEF drawing
<1>2. Covered' = Covered
  BY <1>1 DEF Covered
<1>3. Bpp' = Bpp /\ StripTop' = StripTop
  BY <1>1 DEF Bpp, StripTop
<1>4. TextPixels(Head(shown))' = TextPixels(Head(shown))
  <2>1. TextPixels(Head(shown)) = RowsPixels(FittingRows, Head(shown))
    BY DEF TextPixels, RowsPixels, FittingRows
  <2>2. TextPixels(Head(shown))' = RowsPixels(FittingRows', Head(shown'))
    BY DEF TextPixels, RowsPixels, FittingRows
  <2>3. FittingRows' = FittingRows
    BY <1>1 DEF FittingRows, RowFits
  <2> QED BY <1>1, <2>1, <2>2, <2>3
<1> QED BY <1>1, <1>2, <1>3, <1>4 DEF PictureShowsText

\* A frame is drawn of the screen as it is, before the message is printed.
LEMMA FrameKeeps == DrawIInv /\ DrawFrame => DrawIInv'
<1> SUFFICES ASSUME DrawIInv, DrawFrame PROVE DrawIInv'
  OBVIOUS
<1> DEFINE message == IF NextBar(bar).progress_done /\ ~bar.progress_done THEN Message ELSE <<>>
           txt == IF bar'.cur_txt = "done" THEN DoneText ELSE <<>>
<1>1. /\ fb \in Mode /\ draw_buf \in Buffers /\ bar \in Bars /\ frame \in Nat
      /\ Ready(scr, text) /\ scr \in Screens /\ text \in Texts /\ Untouched(scr)
  BY DEF DrawIInv, Ready, Window
<1>2. /\ fb' = fb /\ bar' = NextBar(bar) /\ frame' = frame + 1 /\ shown' = <<scr>>
      /\ draw_buf' = Frame(draw_buf, scr, frame, bar'.cur_pct, txt)
      /\ scr' = FoldLeft(scr_be_write, scr, message) /\ text' = text \o message
  BY Zenon DEF DrawFrame, Frame
<1>3. message \in Texts
  <2>1. Message \in Texts /\ <<>> \in Texts
    BY MessageAssumption DEF Texts
  <2> QED BY <2>1, Zenon
<1> HIDE DEF message, txt
<1>4. Ready(scr, text)'
  <2>1. Ready(FoldLeft(scr_be_write, scr, message), text \o message)
    BY <1>1, <1>3, PrintReady
  <2> QED BY <1>2, <2>1
<1>5. bar' \in Bars /\ frame' \in Nat
  BY <1>1, <1>2, BarType
<1>6. draw_buf' \in Buffers /\ (fb.bpp # 24 => Picture(draw_buf', scr, frame))
  BY <1>1, <1>2, FrameShows
<1>7. fb' \in Mode /\ (draw_buf \in Buffers)'
  BY <1>1, <1>2, <1>6 DEF Buffers, fb_size, Bpp
<1>8. \E s \in Screens : shown' = <<s>>
  BY <1>1, <1>2
<1>9. fb'.bpp # 24 => PictureShowsText'
  <2> SUFFICES ASSUME fb.bpp # 24 PROVE PictureShowsText'
    BY <1>2
  <2>1. Picture(draw_buf', scr, frame)
    BY <1>6
  <2>2. frame' - 1 = frame
    BY <1>1, <1>2
  <2> QED BY <1>1, <1>2, <2>1, <2>2, NextPicture
<1> QED BY <1>2, <1>4, <1>5, <1>7, <1>8, <1>9 DEF DrawIInv

\* So does a character.
LEMMA CharacterKeeps ==
  ASSUME NEW c \in AnyChar
  PROVE  DrawIInv /\ WriteChar(c) => DrawIInv'
<1> SUFFICES ASSUME DrawIInv, WriteChar(c) PROVE DrawIInv'
  OBVIOUS
<1>1. UNCHANGED drawing /\ fb' = fb /\ draw_buf' = draw_buf /\ bar' = bar /\ frame' = frame
      /\ shown' = shown
  BY DEF WriteChar, drawing
<1>2. scr' = scr_be_write(scr, c) /\ text' = Append(text, c)
  BY DEF WriteChar, Write
<1>3. Ready(scr, text)'
  <2>1. Ready(scr_be_write(scr, c), Append(text, c))
    BY WriteReady DEF DrawIInv
  <2> QED BY <1>2, <2>1
<1>4. (fb.bpp # 24 => PictureShowsText) => (fb'.bpp # 24 => PictureShowsText')
  BY <1>1, PictureStays
<1>5. (draw_buf \in Buffers)'
  BY <1>1 DEF DrawIInv, Buffers, fb_size, Bpp
<1> QED BY <1>1, <1>3, <1>4, <1>5 DEF DrawIInv

\* Between any two characters and frames the buffer, the bar and the screen
\* are what the drawing functions (ui/text.c, ui/ui.c, silx/x86/vga.c) expect,
\* and the last frame still shows the text it was drawn of.
THEOREM DrawInvariant == DrawSpec => []DrawIInv
<1>1. DrawIInv /\ [DrawNext]_<<vars, drawing>> => DrawIInv'
  <2> SUFFICES ASSUME DrawIInv, [DrawNext]_<<vars, drawing>> PROVE DrawIInv'
    OBVIOUS
  <2>1. CASE UNCHANGED <<vars, drawing>>
    <3>1. fb' = fb /\ draw_buf' = draw_buf /\ bar' = bar /\ frame' = frame
          /\ shown' = shown /\ scr' = scr /\ text' = text /\ UNCHANGED drawing
      BY <2>1 DEF vars, drawing
    <3>2. (draw_buf \in Buffers)'
      BY <3>1 DEF DrawIInv, Buffers, fb_size, Bpp
    <3>3. (fb.bpp # 24 => PictureShowsText) => (fb'.bpp # 24 => PictureShowsText')
      BY <3>1, PictureStays
    <3> QED BY <3>1, <3>2, <3>3 DEF DrawIInv
  <2>2. CASE DrawFrame
    BY <2>2, FrameKeeps
  <2>3. ASSUME NEW c \in Glyphs \cup Controls \cup {NL}, WriteChar(c) PROVE DrawIInv'
    BY <2>3, CharacterKeeps DEF AnyChar
  <2> QED BY <2>1, <2>2, <2>3 DEF DrawNext
<1> QED
  BY <1>1, DrawStarts, PTL DEF DrawSpec

\* putpixel, fill_rect, clear and the functions that draw through them never
\* write outside the buffer nor anything but bytes, and the bar's percentage
\* stays within its scale, for every mode, font, layout and text.
THEOREM DrawTypes == DrawSpec => []DrawTypeOK
<1>1. DrawIInv => DrawTypeOK
  <2> SUFFICES ASSUME DrawIInv PROVE DrawTypeOK
    OBVIOUS
  <2>1. TypeOK
    BY DEF DrawIInv, Ready, Window, TypeOK
  <2>2. shown = <<>> \/ Head(shown) \in Screens
    BY DEF DrawIInv
  <2> QED BY <2>1, <2>2 DEF DrawIInv, DrawTypeOK, Buffers
<1> QED
  BY <1>1, DrawInvariant, PTL

\* The message of the demo, printed from inside a frame, and the characters
\* between the frames leave the grid a window on the last rows of the text.
THEOREM DrawnGridShowsLastRows == DrawSpec => []ShowsLastRows
<1>1. DrawIInv => IInv
  BY DEF DrawIInv, Ready, IInv
<1> QED
  BY <1>1, DrawInvariant, WindowShows, PTL

\* In every mode that is not of 24 bits, each frame shows the text of the grid
\* above the strip and off the squares, and nothing of an earlier frame: the
\* clear reaches every pixel, the flush draws every row that holds something,
\* the bar stays in its strip.  (In a mode of 24 bits clear stores the lowest
\* byte of the colour in all three bytes of a pixel.)
THEOREM FramesShowText == DrawSpec => [](fb.bpp # 24 => PictureShowsText)
<1>1. DrawIInv => (fb.bpp # 24 => PictureShowsText)
  BY DEF DrawIInv
<1> QED
  BY <1>1, DrawInvariant, PTL
=============================================================================

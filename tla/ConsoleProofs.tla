--------------------------- MODULE ConsoleProofs ---------------------------
(***************************************************************************)
(* Theorems about Console, for every size of the ring, every number of     *)
(* backends, all texts, and as many calls and aborts as one likes: what    *)
(* the ring holds, what each backend has shown, and where the timestamps   *)
(* are.                                                                    *)
(***************************************************************************)
EXTENDS Console, SequenceTheorems, TLAPS

(***************************************************************************)
(* The inductive invariant                                                 *)
(***************************************************************************)

\* The ring.  Its cells, read from con_start, are the end of the log.
At(s, i) == (s + i - 1) % CON_BUF_SIZE
Cell(i) == con_buf[At(con_start, i)]
RingOK ==
  /\ con_buf \in [0..(CON_BUF_SIZE - 1) -> Chars \cup {NUL}]
  /\ con_start \in 0..(CON_BUF_SIZE - 1)
  /\ log \in Seq(Chars) /\ said \in Seq(Chars)
  /\ con_len = IF Len(log) < CON_BUF_SIZE THEN Len(log) ELSE CON_BUF_SIZE
  /\ con_overflow \in BOOLEAN /\ (con_overflow = TRUE <=> Len(log) > CON_BUF_SIZE)
  /\ con_len < CON_BUF_SIZE => con_start = 0
  /\ \A i \in 1..con_len : Cell(i) = log[Len(log) - con_len + i]

\* The calls in progress: a call nests in another for an abort only, and that
\* abort has been asked for.
Call_ == [raw : BOOLEAN, todo : Seq(Chars), stamped : BOOLEAN, tour : Seq(Chars),
          next : Nat \ {0}]
StackOK ==
  /\ at_line_start \in BOOLEAN /\ aborting \in BOOLEAN
  /\ aborts \in Nat /\ dropped \in Nat
  /\ stack \in Seq(Call_)
  /\ Len(stack) <= 1 + dropped
  /\ dropped + (IF aborting THEN 1 ELSE 0) <= aborts

\* The backends: serial comes first, and none comes twice.
BackendsOK ==
  /\ backends \in Seq(Backends) /\ Len(backends) <= MAX_BE
  /\ \A i, j \in 1..Len(backends) : backends[i] = backends[j] => i = j
  /\ backends # <<>> => backends[1] = Serial
  /\ backends = <<>> => dropped = 0
  /\ stack # <<>> => backends # <<>>
  /\ shown \in [Backends -> Seq(Chars \cup {MARK})]
  /\ joined \in [Backends -> Nat] /\ \A b \in Backends : joined[b] <= Len(log)

\* One character is on tour, or none; a call that waits for a nested one is
\* past serial.
Touring(f) ==
  /\ f.tour = <<>> => f.next = 1
  /\ f.tour # <<>> => Len(f.tour) = 1 /\ f.next <= Len(backends)
PastSerial(f) ==
  IF Len(backends) = 1 THEN f.tour = <<>> ELSE f.next = 2 /\ f.tour # <<>>
ToursOK ==
  /\ \A i \in 1..Len(stack) : Touring(stack[i])
  /\ \A i \in 2..Len(stack) : PastSerial(stack[i])

\* What a backend lacks, in characters: serial one for each abort, the others
\* one for each call that waits.
Waiting == IF stack = <<>> THEN 0 ELSE Len(stack) - 1
CountOK ==
  \A k \in 1..Len(backends) :
    LET b == backends[k] IN
      Len(shown[b]) + Len(StillToCome(k)) + (IF k = 1 THEN dropped ELSE Waiting) + joined[b]
        = Len(Opening(joined[b])) + Len(log)

\* The state of a line, before an abort prints in it.
Stamped == stack # <<>> /\ Top.stamped = TRUE
StartsLine(s) == s = <<>> \/ s[Len(s)] = NL
LineOK ==
  dropped = 0 =>
    /\ stack # <<>> /\ Top.raw = FALSE => Top.todo \in Seq(Chars \ {TS})
    /\ Stamped => /\ at_line_start = TRUE /\ Top.raw = FALSE
                  /\ Top.todo # <<>> /\ Head(Top.todo) # NL
                  /\ said # <<>> /\ said[Len(said)] = TS
    /\ ~Stamped => (at_line_start = TRUE <=> StartsLine(said))

IInv ==
  /\ RingOK /\ StackOK /\ BackendsOK /\ ToursOK
  /\ BackendsInStep /\ CountOK
  /\ LineOK /\ LinesAreStamped

(***************************************************************************)
(* The ring                                                                *)
(***************************************************************************)

\* An index that has gone round at most once
LEMMA Round ==
  ASSUME NEW s \in 0..(CON_BUF_SIZE - 1), NEW i \in 1..(CON_BUF_SIZE + 1)
  PROVE  At(s, i) = IF s + i - 1 < CON_BUF_SIZE THEN s + i - 1 ELSE s + i - 1 - CON_BUF_SIZE
<1> DEFINE N == CON_BUF_SIZE
           x == s + i - 1
<1>1. N \in Nat \ {0} /\ x \in 0..(2 * N - 1)
  BY RingAssumption
<1> HIDE DEF N, x
<1>2. x % N = IF x < N THEN x ELSE x - N
  <2>1. CASE x < N
    BY <1>1, <2>1
  <2>2. CASE x >= N
    <3> DEFINE r == x - N
    <3>1. r \in 0..(N - 1) /\ x = 1 * N + r
      BY <1>1, <2>2
    <3> HIDE DEF r
    <3>2. (1 * N + r) % N = r
      BY <1>1, <3>1
    <3>3. x % N = r
      BY <3>1, <3>2
    <3> QED BY <1>1, <2>2, <3>3 DEF r
  <2> QED BY <1>1, <2>1, <2>2
<1>3. At(s, i) = x % N
  BY DEF At, N, x
<1>4. At(s, i) = IF x < N THEN x ELSE x - N
  BY <1>2, <1>3
<1>5. x = s + i - 1 /\ N = CON_BUF_SIZE
  BY DEF x, N
<1> QED BY <1>1, <1>4, <1>5

\* Cells of the ring
LEMMA CellAt ==
  ASSUME RingOK, NEW i \in 1..CON_BUF_SIZE
  PROVE  Cell(i) = con_buf[IF con_start + i - 1 < CON_BUF_SIZE THEN con_start + i - 1
                           ELSE con_start + i - 1 - CON_BUF_SIZE]
<1>1. con_start \in 0..(CON_BUF_SIZE - 1) /\ i \in 1..(CON_BUF_SIZE + 1)
  BY RingAssumption DEF RingOK
<1> QED BY <1>1, Round DEF Cell

\* buf_put keeps the ring the end of the log.
LEMMA PutRing ==
  ASSUME RingOK, NEW c \in Chars, buf_put(c), said' \in Seq(Chars)
  PROVE  RingOK' /\ log' = Append(log, c)
<1> DEFINE N == CON_BUF_SIZE
           L == Len(log)
<1>1. N \in Nat \ {0} /\ L \in Nat
  BY RingAssumption DEF RingOK
<1>2. /\ log' = Append(log, c) /\ log' \in Seq(Chars) /\ Len(log') = L + 1
      /\ log'[L + 1] = c /\ \A i \in 1..L : log'[i] = log[i]
  BY DEF RingOK, buf_put
<1>3. CASE con_len < N
  <2>1. con_len = L /\ con_start = 0
    BY <1>1, <1>3 DEF RingOK
  <2>2. con_buf' = [con_buf EXCEPT ![L] = c] /\ con_len' = L + 1 /\ con_start' = 0
        /\ con_overflow' = con_overflow
    <3>1. (con_start + con_len) % CON_BUF_SIZE = L
      BY <1>1, <1>3, <2>1
    <3> QED BY <1>1, <1>3, <2>1, <3>1 DEF buf_put
  <2>3. ASSUME NEW i \in 1..(L + 1) PROVE Cell(i)' = log'[i]
    <3>1. con_start' \in 0..(N - 1) /\ i \in 1..N /\ con_start' = 0
      BY <1>1, <1>3, <2>1, <2>2
    <3>2. Cell(i)' = con_buf'[i - 1]
      <4>1. At(con_start', i) = i - 1
        <5>1. i \in 1..(N + 1) /\ con_start' + i - 1 < N
          BY <1>1, <3>1
        <5> QED BY <3>1, <5>1, Round
      <4> QED BY <4>1 DEF Cell
    <3>3. CASE i = L + 1
      BY <1>1, <1>2, <1>3, <2>1, <2>2, <3>2, <3>3 DEF RingOK
    <3>4. CASE i \in 1..L
      <4>1. con_buf'[i - 1] = con_buf[i - 1]
        BY <1>1, <1>3, <2>1, <2>2, <3>4 DEF RingOK
      <4>2. Cell(i) = con_buf[i - 1]
        <5>1. con_start + i - 1 = i - 1 /\ con_start + i - 1 < N
          BY <1>1, <2>1, <3>1
        <5> QED BY <3>1, <5>1, CellAt
      <4>3. Cell(i) = log[L - L + i] /\ L - L + i = i
        BY <1>1, <2>1, <3>4 DEF RingOK
      <4> QED BY <1>2, <3>2, <3>4, <4>1, <4>2, <4>3
    <3> QED BY <1>1, <3>3, <3>4
  <2>4. \A i \in 1..con_len' : Cell(i)' = log'[Len(log') - con_len' + i]
    BY <1>1, <1>2, <2>2, <2>3
  <2>5. con_buf' \in [0..(N - 1) -> Chars \cup {NUL}]
    BY <2>2 DEF RingOK
  <2>6. con_len' = IF Len(log') < N THEN Len(log') ELSE N
    BY <1>1, <1>2, <1>3, <2>1, <2>2
  <2>7. con_start' \in 0..(N - 1) /\ con_overflow' \in BOOLEAN
        /\ (con_overflow' = TRUE <=> Len(log') > N)
    BY <1>1, <1>2, <1>3, <2>1, <2>2 DEF RingOK
  <2> QED BY <1>2, <2>2, <2>4, <2>5, <2>6, <2>7 DEF RingOK
<1>4. CASE con_len >= N
  <2>1. con_len = N /\ L >= N
    BY <1>1, <1>4 DEF RingOK
  <2>2. con_buf' = [con_buf EXCEPT ![con_start] = c] /\ con_len' = N
        /\ con_start' = (con_start + 1) % N /\ con_overflow' = TRUE
    BY <1>1, <2>1 DEF buf_put
  <2>3. con_start \in 0..(N - 1) /\ con_start' \in 0..(N - 1)
        /\ con_start' = IF con_start + 1 < N THEN con_start + 1 ELSE con_start + 1 - N
    <3>1. con_start \in 0..(N - 1) /\ 2 \in 1..(N + 1) /\ con_start + 2 - 1 = con_start + 1
      BY <1>1 DEF RingOK
    <3>2. con_start' = At(con_start, 2)
      BY <2>2, <3>1 DEF At
    <3> QED BY <1>1, <3>1, <3>2, Round
  <2>4. con_buf'[con_start] = c /\ \A j \in 0..(N - 1) : j # con_start => con_buf'[j] = con_buf[j]
    BY <2>2, <2>3 DEF RingOK
  <2>5. ASSUME NEW i \in 1..N PROVE Cell(i)' = log'[L + 1 - N + i]
    <3>1. At(con_start', i)
            = IF con_start' + i - 1 < N THEN con_start' + i - 1 ELSE con_start' + i - 1 - N
      BY <1>1, <2>3, Round
    <3>2. CASE i = N
      <4>1. At(con_start', i) = con_start
        BY <1>1, <2>3, <3>1, <3>2
      <4> QED BY <1>1, <1>2, <2>1, <2>4, <3>2, <4>1 DEF Cell
    <3>3. CASE i < N
      <4> DEFINE x == At(con_start', i)
      <4>1. i + 1 \in 1..N
        BY <1>1, <3>3
      <4>2. x = IF con_start + (i + 1) - 1 < N THEN con_start + (i + 1) - 1
                ELSE con_start + (i + 1) - 1 - N
        BY <1>1, <2>3, <3>1, <3>3
      <4>3. x \in 0..(N - 1) /\ x # con_start
        BY <1>1, <2>3, <3>3, <4>2
      <4>4. Cell(i + 1) = con_buf[x] /\ Cell(i)' = con_buf'[x]
        BY <4>1, <4>2, CellAt DEF Cell
      <4> HIDE DEF x
      <4>5. Cell(i)' = Cell(i + 1)
        BY <2>4, <4>3, <4>4
      <4>6. Cell(i + 1) = log[L - N + (i + 1)]
        BY <2>1, <4>1 DEF RingOK
      <4>7. L - N + (i + 1) = L + 1 - N + i /\ L + 1 - N + i \in 1..L
        BY <1>1, <2>1, <3>3
      <4> QED BY <1>2, <4>5, <4>6, <4>7
    <3> QED BY <1>1, <3>2, <3>3
  <2>6. \A i \in 1..con_len' : Cell(i)' = log'[Len(log') - con_len' + i]
    <3>1. con_len' = N /\ Len(log') - con_len' = L + 1 - N
      BY <1>1, <1>2, <2>2
    <3> QED BY <2>5, <3>1
  <2>7. con_buf' \in [0..(N - 1) -> Chars \cup {NUL}]
    BY <2>2 DEF RingOK
  <2>8. con_len' = IF Len(log') < N THEN Len(log') ELSE N
    BY <1>1, <1>2, <2>1, <2>2
  <2>9. con_overflow' \in BOOLEAN /\ (con_overflow' = TRUE <=> Len(log') > N)
        /\ (con_len' < N => con_start' = 0)
    BY <1>1, <1>2, <2>1, <2>2
  <2> QED BY <1>2, <2>3, <2>6, <2>7, <2>8, <2>9 DEF RingOK
<1>5. con_len < N \/ con_len >= N
  BY <1>1 DEF RingOK
<1> QED BY <1>3, <1>4, <1>5

\* The ring, read from con_start, is the end of the log.
Contents == [i \in 1..con_len |-> con_buf[(con_start + i - 1) % CON_BUF_SIZE]]
LEMMA RingRead ==
  ASSUME RingOK
  PROVE  /\ con_len \in 0..Len(log) /\ Contents \in Seq(Chars)
         /\ Contents = SubSeq(log, Len(log) - con_len + 1, Len(log))
<1> DEFINE L == Len(log)
           tail == SubSeq(log, L - con_len + 1, L)
<1>1. L \in Nat /\ con_len \in 0..L /\ con_len \in Nat /\ log \in Seq(Chars)
  BY RingAssumption DEF RingOK
<1>2. /\ tail \in Seq(Chars) /\ Len(tail) = con_len
      /\ \A i \in 1..con_len : tail[i] = log[L - con_len + i]
  <2>1. (L - con_len + 1)..L \subseteq 1..L /\ L - con_len + 1 \in 1..(L + 1)
    BY <1>1
  <2>2. /\ tail \in Seq(Chars)
        /\ Len(tail) = IF L - con_len + 1 <= L THEN L - (L - con_len + 1) + 1 ELSE 0
        /\ \A i \in 1..(L - (L - con_len + 1) + 1) : tail[i] = log[L - con_len + 1 + i - 1]
    BY <1>1, <2>1, SubSeqProperties
  <2>3. L - (L - con_len + 1) + 1 = con_len /\ \A i \in 1..con_len : L - con_len + 1 + i - 1 = L - con_len + i
    BY <1>1
  <2> HIDE DEF tail, L
  <2> QED BY <1>1, <2>2, <2>3
<1> HIDE DEF tail
<1>3. \A i \in 1..con_len : Contents[i] = log[L - con_len + i] /\ log[L - con_len + i] \in Chars
  <2>1. TAKE i \in 1..con_len
  <2>2. Contents[i] = Cell(i)
    BY DEF Contents, Cell, At
  <2>3. L - con_len + i \in 1..L
    BY <1>1
  <2> QED BY <1>1, <2>2, <2>3 DEF RingOK
<1>4. Contents = [i \in 1..con_len |-> Contents[i]]
  BY DEF Contents
<1>5. Contents \in Seq(Chars) /\ Len(Contents) = con_len
  BY <1>1, <1>3, <1>4
<1>6. Contents = tail
  BY <1>2, <1>3, <1>5, SeqEqual
<1> QED BY <1>1, <1>5, <1>6 DEF tail

\* The ring is the tail of what has been printed.
LEMMA RingTail == RingOK => RingIsTail
<1> SUFFICES ASSUME RingOK PROVE RingIsTail
  OBVIOUS
<1>1. con_len = IF con_overflow THEN CON_BUF_SIZE ELSE Len(log)
  BY RingAssumption DEF RingOK
<1>2. Contents = LastOf(log, con_len)
  BY RingRead DEF LastOf
<1> QED BY <1>1, <1>2 DEF RingOK, RingIsTail, Contents


(***************************************************************************)
(* What a backend shows                                                    *)
(***************************************************************************)

Shows == Seq(Chars \cup {MARK})

\* The marker, or nothing
LEMMA MarkShows == \A t \in BOOLEAN : (IF t THEN <<MARK>> ELSE <<>>) \in Shows
<1>1. <<MARK>> \in Shows /\ <<>> \in Shows
  BY DEF Shows
<1> QED BY <1>1

\* A part of the log
LEMMA PartOfLog ==
  ASSUME log \in Seq(Chars), NEW m \in 1..(Len(log) + 1), NEW n \in 0..Len(log)
  PROVE  SubSeq(log, m, n) \in Seq(Chars) /\ SubSeq(log, m, n) \in Shows
<1>1. \A i \in m..n : log[i] \in Chars /\ log[i] \in Chars \cup {MARK}
  OBVIOUS
<1>2. m \in Int /\ n \in Int
  OBVIOUS
<1> QED BY <1>1, <1>2, SubSeqProperties DEF Shows

\* What came before a character that is printed is what it was, and what came
\* since a backend registered has one character more.
LEMMA Grown ==
  ASSUME log \in Seq(Chars), NEW c \in Chars, log' = Append(log, c), NEW n \in 0..Len(log)
  PROVE  /\ Opening(n) \in Shows /\ Opening(n)' = Opening(n)
         /\ SubSeq(log, n + 1, Len(log)) \in Shows
         /\ SubSeq(log', n + 1, Len(log')) = SubSeq(log, n + 1, Len(log)) \o <<c>>
<1>1. log' = log \o <<c>> /\ <<c>> \in Seq(Chars) /\ log' \in Seq(Chars) /\ Len(log') = Len(log) + 1
      /\ Len(log) \in Nat /\ log'[Len(log')] = c
  OBVIOUS
<1>2. ASSUME NEW m \in 1..(Len(log) + 1), NEW k \in 0..Len(log)
      PROVE  SubSeq(log', m, k) = SubSeq(log, m, k)
  <2>1. SubSeq(log, m, k) \in Seq(Chars) /\ SubSeq(log', m, k) \in Seq(Chars)
        /\ Len(SubSeq(log, m, k)) = (IF m <= k THEN k - m + 1 ELSE 0)
        /\ Len(SubSeq(log', m, k)) = (IF m <= k THEN k - m + 1 ELSE 0)
        /\ (\A i \in 1..(k - m + 1) : SubSeq(log, m, k)[i] = log[m + i - 1])
        /\ (\A i \in 1..(k - m + 1) : SubSeq(log', m, k)[i] = log'[m + i - 1])
    <3>1. m \in Int /\ k \in Int
          /\ (\A i \in m..k : log[i] \in Chars) /\ (\A i \in m..k : log'[i] \in Chars)
      BY <1>1
    <3> QED BY <3>1, SubSeqProperties
  <2>2. \A i \in 1..(k - m + 1) : m + i - 1 \in 1..Len(log)
    BY <1>1
  <2>3. \A j \in 1..Len(log) : log'[j] = log[j]
    OBVIOUS
  <2>4. \A i \in 1..Len(SubSeq(log, m, k)) : SubSeq(log', m, k)[i] = SubSeq(log, m, k)[i]
    <3>1. \A i \in 1..Len(SubSeq(log, m, k)) : i \in 1..(k - m + 1)
      BY <2>1
    <3> QED BY <2>1, <2>2, <2>3, <3>1
  <2> QED BY <2>1, <2>4, SeqEqual
<1>3. Opening(n)' = Opening(n) /\ Opening(n) \in Shows
  <2> DEFINE m == IF n > CON_BUF_SIZE THEN n - CON_BUF_SIZE + 1 ELSE 1
             o == IF n > CON_BUF_SIZE THEN <<MARK>> ELSE <<>>
  <2>1. m \in 1..(Len(log) + 1)
    BY RingAssumption
  <2>2. o \in Shows
    BY MarkShows, RingAssumption
  <2>3. Opening(n) = o \o SubSeq(log, m, n) /\ Opening(n)' = o \o SubSeq(log', m, n)
    BY DEF Opening
  <2>4. SubSeq(log', m, n) = SubSeq(log, m, n) /\ SubSeq(log, m, n) \in Shows
    BY <1>2, <2>1, PartOfLog
  <2> HIDE DEF m, o
  <2> QED BY <2>2, <2>3, <2>4, ConcatProperties DEF Shows
<1>4. SubSeq(log', n + 1, Len(log')) = SubSeq(log', n + 1, Len(log)) \o <<c>>
  <2>1. n + 1 \in 1..Len(log') /\ Len(log') \in (n + 1)..Len(log') /\ Len(log') - 1 = Len(log)
    BY <1>1
  <2> QED BY <1>1, <2>1, SubSeqRecursiveSecond
<1>5. n + 1 \in 1..(Len(log) + 1) /\ Len(log) \in 0..Len(log)
  BY <1>1
<1>6. SubSeq(log', n + 1, Len(log)) = SubSeq(log, n + 1, Len(log))
      /\ SubSeq(log, n + 1, Len(log)) \in Shows
  BY <1>2, <1>5, PartOfLog
<1> QED BY <1>3, <1>4, <1>6

\* console_register_be gives a backend what one would show that had come at
\* this length of the log.
LEMMA ReplayOpens ==
  ASSUME RingOK
  PROVE  /\ Replay = Opening(Len(log)) /\ Replay \in Shows
         /\ SubSeq(log, Len(log) + 1, Len(log)) = <<>>
<1> DEFINE L == Len(log)
<1>1. L \in Nat /\ log \in Seq(Chars) /\ CON_BUF_SIZE \in Nat \ {0}
  BY RingAssumption DEF RingOK
<1>2. Contents = SubSeq(log, L - con_len + 1, L) /\ Contents \in Seq(Chars)
  BY RingRead
<1>3. L - con_len + 1 = IF L > CON_BUF_SIZE THEN L - CON_BUF_SIZE + 1 ELSE 1
  BY <1>1 DEF RingOK
<1>4. Replay = (IF L > CON_BUF_SIZE THEN <<MARK>> ELSE <<>>) \o Contents
  BY DEF Replay, RingOK, Contents
<1>5. Replay = Opening(L)
  BY <1>2, <1>3, <1>4 DEF Opening
<1>6. Contents \in Shows /\ (IF L > CON_BUF_SIZE THEN <<MARK>> ELSE <<>>) \in Shows
  <2>1. Contents \in Shows
    BY <1>2, SeqMonotonic DEF Shows
  <2> QED BY <1>1, <2>1, MarkShows
<1>7. Replay \in Shows
  BY <1>4, <1>6, ConcatProperties DEF Shows
<1>8. SubSeq(log, L + 1, L) = <<>>
  BY <1>1, SubSeqEmpty
<1> QED BY <1>5, <1>7, <1>8

(***************************************************************************)
(* The stack of calls                                                      *)
(***************************************************************************)

\* What the innermost call does
LEMMA TopReplaced ==
  ASSUME stack \in Seq(Call_), stack # <<>>, NEW g \in Call_, SetTop(g)
  PROVE  /\ Top \in Call_ /\ Top = stack[1] /\ Len(stack) \in Nat \ {0}
         /\ stack' \in Seq(Call_) /\ stack' # <<>> /\ Len(stack') = Len(stack)
         /\ Top' = g /\ stack'[1] = g
         /\ \A i \in 2..Len(stack) : stack'[i] = stack[i]
<1>1. Tail(stack) \in Seq(Call_) /\ Len(Tail(stack)) = Len(stack) - 1 /\ <<g>> \in Seq(Call_)
      /\ Len(stack) \in Nat \ {0} /\ stack[1] = Top /\ Top \in Call_
      /\ \A i \in 1..(Len(stack) - 1) : Tail(stack)[i] = stack[i + 1]
  BY DEF Top
<1>2. stack' = <<g>> \o Tail(stack) /\ Len(<<g>>) = 1 /\ <<g>>[1] = g
  BY DEF SetTop
<1>3. stack' \in Seq(Call_) /\ Len(stack') = Len(stack) /\ stack' # <<>>
      /\ \A i \in 1..Len(stack) : stack'[i] = IF i <= 1 THEN <<g>>[i] ELSE Tail(stack)[i - 1]
  BY <1>1, <1>2, ConcatProperties
<1>4. stack'[1] = g /\ Top' = g
  BY <1>1, <1>2, <1>3 DEF Top
<1>5. \A i \in 2..Len(stack) : stack'[i] = stack[i]
  BY <1>1, <1>3
<1> QED BY <1>1, <1>3, <1>4, <1>5

\* A call in a call
LEMMA CallNested ==
  ASSUME stack \in Seq(Call_), stack # <<>>, NEW f \in Call_, NEW g \in Call_,
         stack' = <<f, g>> \o Tail(stack)
  PROVE  /\ Top \in Call_ /\ Top = stack[1] /\ Len(stack) \in Nat \ {0}
         /\ stack' \in Seq(Call_) /\ stack' # <<>> /\ Len(stack') = Len(stack) + 1
         /\ Top' = f /\ stack'[1] = f /\ stack'[2] = g
         /\ \A i \in 3..Len(stack') : stack'[i] = stack[i - 1]
<1>1. Tail(stack) \in Seq(Call_) /\ Len(Tail(stack)) = Len(stack) - 1 /\ <<f, g>> \in Seq(Call_)
      /\ Len(stack) \in Nat \ {0} /\ stack[1] = Top /\ Top \in Call_
      /\ \A i \in 1..(Len(stack) - 1) : Tail(stack)[i] = stack[i + 1]
  BY DEF Top
<1>2. Len(<<f, g>>) = 2 /\ <<f, g>>[1] = f /\ <<f, g>>[2] = g
  OBVIOUS
<1>3. stack' \in Seq(Call_) /\ Len(stack') = Len(stack) + 1 /\ stack' # <<>>
      /\ \A i \in 1..(Len(stack) + 1) : stack'[i] = IF i <= 2 THEN <<f, g>>[i] ELSE Tail(stack)[i - 2]
  BY <1>1, <1>2, ConcatProperties
<1>4. stack'[1] = f /\ stack'[2] = g /\ Top' = f
  BY <1>1, <1>2, <1>3 DEF Top
<1>5. \A i \in 3..Len(stack') : stack'[i] = stack[i - 1]
  <2>1. \A i \in 3..(Len(stack) + 1) : stack'[i] = Tail(stack)[i - 2] /\ Tail(stack)[i - 2] = stack[i - 2 + 1]
                                       /\ i - 2 + 1 = i - 1
    BY <1>1, <1>3
  <2> QED BY <1>3, <2>1
<1> QED BY <1>1, <1>3, <1>4, <1>5

\* The innermost call comes to its end.
LEMMA CallEnded ==
  ASSUME stack \in Seq(Call_), stack # <<>>, stack' = Tail(stack)
  PROVE  /\ Top \in Call_ /\ Top = stack[1] /\ Len(stack) \in Nat \ {0}
         /\ stack' \in Seq(Call_) /\ Len(stack') = Len(stack) - 1
         /\ stack' = <<>> <=> Len(stack) = 1
         /\ \A i \in 1..Len(stack') : stack'[i] = stack[i + 1]
         /\ stack' # <<>> => Top' = stack[2]
<1>1. /\ Len(stack) \in Nat \ {0} /\ Top = stack[1] /\ Top \in Call_
      /\ stack' \in Seq(Call_) /\ Len(stack') = Len(stack) - 1
      /\ \A i \in 1..Len(stack') : stack'[i] = stack[i + 1]
  BY HeadTailProperties DEF Top
<1>2. stack' = <<>> <=> Len(stack) = 1
  BY <1>1
<1>3. ASSUME stack' # <<>> PROVE Top' = stack[2]
  <2>1. 1 \in 1..Len(stack') /\ Top' = stack'[1]
    BY <1>1, <1>2, <1>3 DEF Top
  <2> QED BY <1>1, <2>1
<1> QED BY <1>1, <1>2, <1>3

\* A call as it begins
LEMMA FrameIsCall ==
  ASSUME NEW s \in Seq(Chars), NEW r \in BOOLEAN
  PROVE  /\ Frame(s, r) \in Call_
         /\ Frame(s, r).tour = <<>> /\ Frame(s, r).next = 1
         /\ Frame(s, r).todo = s /\ Frame(s, r).raw = r /\ Frame(s, r).stamped = FALSE
<1>1. <<>> \in Seq(Chars) /\ 1 \in Nat \ {0}
  OBVIOUS
<1> QED BY <1>1 DEF Frame, Call_

(***************************************************************************)
(* A character sets out                                                    *)
(***************************************************************************)

\* Every backend has yet to see a character that enters the ring.
LEMMA SetsOut ==
  ASSUME IInv, NEW c \in Chars, NEW g \in Call_, stack # <<>>, Top.tour = <<>>,
         buf_put(c), said' \in Seq(Chars), SetTop(g), g.tour = <<c>>, g.next = Top.next,
         at_line_start' \in BOOLEAN,
         UNCHANGED <<backends, aborting, aborts, shown, joined, dropped>>
  PROVE  RingOK' /\ StackOK' /\ BackendsOK' /\ ToursOK' /\ BackendsInStep' /\ CountOK'
<1>1. RingOK' /\ log' = Append(log, c)
  BY PutRing DEF IInv
<1>2. log \in Seq(Chars) /\ Len(log) \in Nat /\ Len(log') = Len(log) + 1
  BY <1>1 DEF IInv, RingOK
<1>3. /\ Top \in Call_ /\ Top = stack[1] /\ Len(stack) \in Nat \ {0}
      /\ stack' \in Seq(Call_) /\ stack' # <<>> /\ Len(stack') = Len(stack)
      /\ Top' = g /\ stack'[1] = g
      /\ \A i \in 2..Len(stack) : stack'[i] = stack[i]
  BY TopReplaced DEF IInv, StackOK
<1>4. StackOK'
  BY <1>3 DEF IInv, StackOK
<1>5. BackendsOK'
  BY <1>2 DEF IInv, BackendsOK
<1>6. backends # <<>> /\ Len(backends) \in Nat \ {0}
  BY DEF IInv, BackendsOK
<1>7. g.next = 1
  BY <1>3 DEF IInv, ToursOK, Touring
<1>8. ToursOK'
  <2>1. Len(<<c>>) = 1 /\ <<c>> # <<>>
    OBVIOUS
  <2>2. Touring(g)'
    BY <1>6, <1>7, <2>1 DEF Touring
  <2>3. ASSUME NEW i \in 2..Len(stack) PROVE Touring(stack[i])' /\ PastSerial(stack[i])'
    <3>1. Touring(stack[i]) /\ PastSerial(stack[i]) /\ stack'[i] = stack[i]
      BY <1>3 DEF IInv, ToursOK
    <3> QED BY <3>1 DEF Touring, PastSerial
  <2>4. \A i \in 1..Len(stack) : i = 1 \/ i \in 2..Len(stack)
    BY <1>3
  <2> QED BY <1>3, <2>2, <2>3, <2>4 DEF ToursOK
<1>9. ASSUME NEW k \in 1..Len(backends)
      PROVE  StillToCome(k) = <<>> /\ StillToCome(k)' = <<c>>
  BY <1>3, <1>6, <1>7 DEF StillToCome
<1>10. ASSUME NEW k \in 1..Len(backends)
       PROVE  LET b == backends[k]
                  o == Opening(joined[b])
                  s == SubSeq(log, joined[b] + 1, Len(log))
              IN  /\ shown[b] \in Shows /\ o \in Shows /\ s \in Shows
                  /\ Opening(joined[b])' = o
                  /\ SubSeq(log', joined[b] + 1, Len(log')) = s \o <<c>>
  <2>1. backends[k] \in Backends
    BY DEF IInv, BackendsOK
  <2>2. joined[backends[k]] \in 0..Len(log) /\ shown[backends[k]] \in Shows
    BY <1>2, <2>1 DEF IInv, BackendsOK, Shows
  <2>3. joined' = joined /\ backends' = backends
    OBVIOUS
  <2> DEFINE n == joined[backends[k]]
  <2>4. n \in 0..Len(log)
    BY <2>2
  <2>5. /\ Opening(n) \in Shows /\ SubSeq(log, n + 1, Len(log)) \in Shows
        /\ SubSeq(log', n + 1, Len(log')) = SubSeq(log, n + 1, Len(log)) \o <<c>>
    BY <1>1, <1>2, <2>4, Grown
  <2>6. \A m \in 0..Len(log) : Opening(m)' = Opening(m)
    BY <1>1, <1>2, Grown
  <2>7. Opening(n)' = Opening(n)
    BY <2>3, <2>4, <2>6 DEF Opening
  <2> QED BY <2>2, <2>5, <2>7
<1>11. <<c>> \in Shows /\ Len(<<c>>) = 1 /\ Len(<<>>) = 0
  BY DEF Shows
<1>12. BackendsInStep'
  <2> SUFFICES ASSUME dropped = 0, NEW k \in 1..Len(backends)
               PROVE  LET b == backends[k] IN
                        shown[b] \o StillToCome(k)' =
                          Opening(joined[b])' \o SubSeq(log', joined[b] + 1, Len(log'))
    BY DEF BackendsInStep
  <2> DEFINE b == backends[k]
             o == Opening(joined[b])
             s == SubSeq(log, joined[b] + 1, Len(log))
  <2>1. shown[b] \in Shows /\ o \in Shows /\ s \in Shows
        /\ Opening(joined[b])' = o /\ SubSeq(log', joined[b] + 1, Len(log')) = s \o <<c>>
    BY <1>10
  <2>2. shown[b] \o <<>> = o \o s
    BY <1>9 DEF IInv, BackendsInStep
  <2> HIDE DEF o, s
  <2>3. shown[b] = o \o s
    BY <2>1, <2>2, ConcatEmptySeq DEF Shows
  <2>4. (o \o s) \o <<c>> = o \o (s \o <<c>>)
    BY <1>11, <2>1, ConcatAssociative DEF Shows
  <2> QED BY <1>9, <2>1, <2>3, <2>4
<1>13. CountOK'
  <2> SUFFICES ASSUME NEW k \in 1..Len(backends)
               PROVE  LET b == backends[k] IN
                        Len(shown[b]) + Len(StillToCome(k)') + (IF k = 1 THEN dropped ELSE Waiting')
                          + joined[b] = Len(Opening(joined[b])') + Len(log')
    BY DEF CountOK
  <2> DEFINE b == backends[k]
  <2>1. Waiting' = Waiting /\ Waiting \in Nat /\ dropped \in Nat
    BY <1>3 DEF Waiting, IInv, StackOK
  <2>2. Opening(joined[b])' = Opening(joined[b]) /\ Opening(joined[b]) \in Shows /\ shown[b] \in Shows
    BY <1>10
  <2>3. Len(Opening(joined[b])) \in Nat /\ Len(shown[b]) \in Nat /\ joined[b] \in Nat
    <3>1. b \in Backends
      BY DEF IInv, BackendsOK
    <3> QED BY <2>2, <3>1 DEF Shows, IInv, BackendsOK
  <2>4. Len(shown[b]) + Len(StillToCome(k)) + (IF k = 1 THEN dropped ELSE Waiting) + joined[b]
          = Len(Opening(joined[b])) + Len(log)
    BY DEF IInv, CountOK
  <2>5. Len(StillToCome(k)) = 0 /\ Len(StillToCome(k)') = 1
    BY <1>9, <1>11
  <2> DEFINE w == IF k = 1 THEN dropped ELSE Waiting
             j == joined[b]
             x == Len(shown[b])
             o == Len(Opening(joined[b]))
             l == Len(log)
  <2>6. w \in Nat /\ w = (IF k = 1 THEN dropped ELSE Waiting')
    BY <2>1
  <2>7. j \in Nat /\ x \in Nat /\ o \in Nat /\ l \in Nat /\ x + 0 + w + j = o + l
    BY <1>2, <2>3, <2>4, <2>5
  <2>8. Len(log') = l + 1 /\ Len(Opening(joined[b])') = o
    BY <1>2, <2>2
  <2> HIDE DEF w, j, x, o, l
  <2>9. x + 1 + w + j = o + (l + 1)
    <3>1. w \in Nat /\ x \in Nat /\ j \in Nat /\ o \in Nat /\ l \in Nat
      BY <2>6, <2>7
    <3>2. x + 0 + w + j = o + l
      BY <2>7
    <3>3. x + 1 + w + j = (x + 0 + w + j) + 1
      BY <3>1
    <3>4. o + (l + 1) = (o + l) + 1
      BY <3>1
    <3> QED BY <3>2, <3>3, <3>4
  <2>10. x + Len(StillToCome(k)') + (IF k = 1 THEN dropped ELSE Waiting') + j
           = Len(Opening(joined[b])') + Len(log')
    BY <2>5, <2>6, <2>8, <2>9
  <2> QED BY <2>10 DEF b, x, j
<1> QED BY <1>1, <1>4, <1>5, <1>8, <1>12, <1>13

\* A character more of a bm_puts
LEMMA SaidMore ==
  ASSUME said \in Seq(Chars), LinesAreStamped, NEW c \in Chars, said' = Append(said, c),
         dropped' = dropped, dropped = 0 => (c = TS <=> (StartsLine(said) /\ c # NL))
  PROVE  LinesAreStamped'
<1> SUFFICES ASSUME dropped = 0, NEW i \in 1..Len(said')
             PROVE  said'[i] = TS <=> (i \in LineStarts(said') /\ said'[i] # NL)
  BY DEF LinesAreStamped
<1>1. /\ said' \in Seq(Chars) /\ Len(said') = Len(said) + 1 /\ Len(said) \in Nat
      /\ said'[Len(said) + 1] = c /\ \A j \in 1..Len(said) : said'[j] = said[j]
  OBVIOUS
<1>2. CASE i = Len(said) + 1
  <2>1. i \in LineStarts(said') <=> StartsLine(said)
    <3>1. CASE said = <<>>
      BY <1>1, <1>2, <3>1 DEF LineStarts, StartsLine
    <3>2. CASE said # <<>>
      <4>1. i # 1 /\ i - 1 = Len(said) /\ said'[i - 1] = said[Len(said)]
        BY <1>1, <1>2, <3>2
      <4> QED BY <1>1, <3>2, <4>1 DEF LineStarts, StartsLine
    <3> QED BY <3>1, <3>2
  <2> QED BY <1>1, <1>2, <2>1
<1>3. CASE i \in 1..Len(said)
  <2>1. i \in LineStarts(said') <=> i \in LineStarts(said)
    <3>1. i = 1 \/ (i - 1 \in 1..Len(said) /\ said'[i - 1] = said[i - 1])
      BY <1>1, <1>3
    <3> QED BY <1>1, <1>3, <3>1 DEF LineStarts
  <2>2. said[i] = TS <=> (i \in LineStarts(said) /\ said[i] # NL)
    BY <1>3 DEF LinesAreStamped
  <2> QED BY <1>1, <1>3, <2>1, <2>2
<1> QED BY <1>1, <1>2, <1>3

\* The timestamp before a line
LEMMA StampStep == IInv /\ Stamp => IInv'
<1> SUFFICES ASSUME IInv, Stamp PROVE IInv'
  OBVIOUS
<1> DEFINE g == [Top EXCEPT !.stamped = TRUE, !.tour = <<TS>>]
<1>1. /\ stack # <<>> /\ Top.tour = <<>> /\ Top.todo # <<>> /\ NeedsStamp /\ buf_put(TS)
      /\ said' = Append(said, TS) /\ SetTop(g)
      /\ UNCHANGED <<at_line_start, backends, aborting, aborts, shown, joined, dropped>>
  BY DEF Stamp
<1>2. Top \in Call_ /\ TS \in Chars /\ <<TS>> \in Seq(Chars) /\ said \in Seq(Chars) /\ said' \in Seq(Chars)
  <2>1. Top \in Call_
    BY <1>1 DEF Top, IInv, StackOK
  <2>2. TS \in Chars
    BY DEF Chars
  <2>3. said \in Seq(Chars)
    BY DEF IInv, RingOK
  <2> QED BY <1>1, <2>1, <2>2, <2>3
<1>3. /\ g \in Call_ /\ g.tour = <<TS>> /\ g.next = Top.next
      /\ g.raw = Top.raw /\ g.todo = Top.todo /\ g.stamped = TRUE
  BY <1>2 DEF Call_
<1> HIDE DEF g
<1>4. RingOK' /\ StackOK' /\ BackendsOK' /\ ToursOK' /\ BackendsInStep' /\ CountOK'
  <2>1. at_line_start' \in BOOLEAN
    BY <1>1 DEF IInv, StackOK
  <2> QED BY <1>1, <1>2, <1>3, <2>1, SetsOut
<1>5. Top' = g /\ stack' # <<>>
  BY <1>1, <1>3, TopReplaced DEF IInv, StackOK
<1>6. ~(Top.raw = TRUE) /\ ~(Top.stamped = TRUE) /\ at_line_start = TRUE /\ Head(Top.todo) # NL
      /\ Top.raw = FALSE /\ Top.stamped = FALSE
  BY <1>1, <1>2 DEF NeedsStamp, Call_
<1>7. dropped = 0 => StartsLine(said)
  BY <1>6 DEF IInv, LineOK, Stamped
<1>8. LinesAreStamped'
  BY <1>1, <1>2, <1>7, SaidMore, StampAssumption DEF IInv
<1>9. LineOK'
  <2>1. said' # <<>> /\ said'[Len(said')] = TS
    BY <1>1, <1>2
  <2> QED BY <1>1, <1>3, <1>5, <1>6, <2>1 DEF IInv, LineOK, Stamped
<1> QED BY <1>4, <1>8, <1>9 DEF IInv

\* A character of the text
LEMMA SetOutStep == IInv /\ SetOut => IInv'
<1> SUFFICES ASSUME IInv, SetOut PROVE IInv'
  OBVIOUS
<1> DEFINE c == Head(Top.todo)
           g == [Top EXCEPT !.todo = Tail(@), !.stamped = FALSE, !.tour = <<c>>]
<1>1. /\ stack # <<>> /\ Top.tour = <<>> /\ Top.todo # <<>> /\ ~NeedsStamp /\ buf_put(c)
      /\ at_line_start' = IF Top.raw THEN at_line_start ELSE c = NL
      /\ said' = IF Top.raw THEN said ELSE Append(said, c)
      /\ SetTop(g)
      /\ UNCHANGED <<backends, aborting, aborts, shown, joined, dropped>>
  BY DEF SetOut
<1>2. Top \in Call_ /\ said \in Seq(Chars)
  BY <1>1 DEF Top, IInv, StackOK, RingOK
<1>3. Top.todo \in Seq(Chars) /\ Top.raw \in BOOLEAN /\ Top.stamped \in BOOLEAN
  BY <1>2 DEF Call_
<1>4. c \in Chars /\ Tail(Top.todo) \in Seq(Chars) /\ <<c>> \in Seq(Chars)
  BY <1>1, <1>3
<1>5. /\ g \in Call_ /\ g.tour = <<c>> /\ g.next = Top.next
      /\ g.raw = Top.raw /\ g.todo = Tail(Top.todo) /\ g.stamped = FALSE
  BY <1>2, <1>4 DEF Call_
<1> HIDE DEF g, c
<1>6. said' \in Seq(Chars) /\ at_line_start' \in BOOLEAN
  <2>1. Append(said, c) \in Seq(Chars)
    BY <1>2, <1>4
  <2>2. at_line_start \in BOOLEAN /\ (c = NL) \in BOOLEAN
    BY DEF IInv, StackOK
  <2>3. CASE Top.raw = TRUE
    BY <1>1, <1>2, <2>2, <2>3
  <2>4. CASE Top.raw = FALSE
    BY <1>1, <2>1, <2>2, <2>4
  <2> QED BY <1>3, <2>3, <2>4
<1>7. RingOK' /\ StackOK' /\ BackendsOK' /\ ToursOK' /\ BackendsInStep' /\ CountOK'
  BY <1>1, <1>4, <1>5, <1>6, SetsOut
<1>8. Top' = g /\ stack' # <<>>
  BY <1>1, <1>5, TopReplaced DEF IInv, StackOK
<1>9. ASSUME dropped = 0, Top.raw = FALSE
      PROVE  /\ c # TS /\ Tail(Top.todo) \in Seq(Chars \ {TS})
             /\ StartsLine(said) => c = NL
  <2>1. Top.todo \in Seq(Chars \ {TS})
    BY <1>1, <1>9 DEF IInv, LineOK
  <2>2. c \in Chars \ {TS} /\ Tail(Top.todo) \in Seq(Chars \ {TS})
    BY <1>1, <2>1 DEF c
  <2>3. StartsLine(said) => c = NL
    <3>1. CASE Top.stamped = TRUE
      <4>1. said # <<>> /\ said[Len(said)] = TS
        BY <1>1, <1>9, <3>1 DEF IInv, LineOK, Stamped
      <4> QED BY <4>1, StampAssumption DEF StartsLine
    <3>2. CASE Top.stamped = FALSE
      <4>1. at_line_start = TRUE <=> StartsLine(said)
        BY <1>9, <3>2 DEF IInv, LineOK, Stamped
      <4>2. at_line_start = TRUE => c = NL
        BY <1>1, <1>9, <3>2 DEF NeedsStamp, c
      <4> QED BY <4>1, <4>2
    <3> QED BY <1>3, <3>1, <3>2
  <2> QED BY <2>2, <2>3
<1>10. LinesAreStamped'
  <2>1. CASE Top.raw = TRUE
    <3>1. said' = said /\ dropped' = dropped
      BY <1>1, <2>1
    <3> QED BY <3>1 DEF IInv, LinesAreStamped, LineStarts
  <2>2. CASE Top.raw = FALSE
    <3>1. said' = Append(said, c) /\ dropped' = dropped
      BY <1>1, <2>2
    <3>2. dropped = 0 => (c = TS <=> (StartsLine(said) /\ c # NL))
      BY <1>9, <2>2
    <3> QED BY <1>2, <1>4, <3>1, <3>2, SaidMore DEF IInv
  <2> QED BY <1>3, <2>1, <2>2
<1>11. LineOK'
  <2>1. ~Stamped'
    BY <1>5, <1>8 DEF Stamped
  <2>2. CASE Top.raw = TRUE
    <3>1. said' = said /\ dropped' = dropped /\ at_line_start' = at_line_start
      BY <1>1, <2>2
    <3>2. dropped = 0 => ~Stamped
      BY <2>2 DEF IInv, LineOK
    <3> QED BY <1>5, <1>8, <2>1, <2>2, <3>1, <3>2 DEF IInv, LineOK
  <2>3. CASE Top.raw = FALSE
    <3>1. said' = Append(said, c) /\ dropped' = dropped /\ (at_line_start' = TRUE <=> c = NL)
      BY <1>1, <2>3
    <3>2. said' # <<>> /\ said'[Len(said')] = c
      BY <1>2, <1>4, <3>1
    <3> QED BY <1>5, <1>8, <1>9, <2>1, <2>3, <3>1, <3>2 DEF LineOK, StartsLine
  <2> QED BY <1>3, <2>2, <2>3
<1> QED BY <1>7, <1>10, <1>11 DEF IInv

(***************************************************************************)
(* The tour of the backends                                                *)
(***************************************************************************)

\* The frame of a character that has been to one more backend
LEMMA VisitedFrame ==
  ASSUME BackendsOK, NEW f \in Call_, Touring(f), f.tour # <<>>
  PROVE  /\ Visited(f) \in Call_ /\ Touring(Visited(f))
         /\ Visited(f).raw = f.raw /\ Visited(f).todo = f.todo /\ Visited(f).stamped = f.stamped
         /\ f.next \in 1..Len(backends)
         /\ \/ f.next = Len(backends) /\ Visited(f).tour = <<>>
            \/ f.next < Len(backends) /\ Visited(f).tour = f.tour /\ Visited(f).next = f.next + 1
<1>1. f.next \in Nat \ {0} /\ f.tour \in Seq(Chars) /\ Len(backends) \in Nat /\ f.next <= Len(backends)
      /\ Len(f.tour) = 1
  BY DEF Call_, BackendsOK, Touring
<1>2. CASE f.next = Len(backends)
  <2> DEFINE g == [f EXCEPT !.tour = <<>>, !.next = 1]
  <2>1. Visited(f) = g
    BY <1>2 DEF Visited
  <2>2. g \in Call_
    <3>1. <<>> \in Seq(Chars) /\ 1 \in Nat \ {0}
      OBVIOUS
    <3> QED BY <3>1 DEF Call_
  <2>3. g.tour = <<>> /\ g.next = 1 /\ g.raw = f.raw /\ g.todo = f.todo /\ g.stamped = f.stamped
    BY DEF Call_
  <2> HIDE DEF g
  <2> QED BY <1>1, <1>2, <2>1, <2>2, <2>3 DEF Touring
<1>3. CASE f.next # Len(backends)
  <2>1. Visited(f) = [f EXCEPT !.next = @ + 1]
    BY <1>3 DEF Visited
  <2>2. Visited(f) \in Call_ /\ Visited(f).tour = f.tour /\ Visited(f).next = f.next + 1
        /\ Visited(f).raw = f.raw /\ Visited(f).todo = f.todo /\ Visited(f).stamped = f.stamped
    BY <1>1, <2>1 DEF Call_
  <2> QED BY <1>1, <1>3, <2>2 DEF Touring
<1> QED BY <1>2, <1>3

\* A backend takes the character.
LEMMA DeliverStep == IInv /\ Deliver => IInv'
<1> SUFFICES ASSUME IInv, Deliver PROVE IInv'
  OBVIOUS
<1>1. /\ stack # <<>> /\ Top.tour # <<>> /\ SetTop(Visited(Top))
      /\ shown' = [shown EXCEPT ![backends[Top.next]] = @ \o Top.tour]
      /\ UNCHANGED <<ring, at_line_start, backends, aborting, calls, aborts, joined, dropped>>
  BY DEF Deliver
<1>2. PICK f \in Call_ : f = Top /\ f = stack[1] /\ Touring(f) /\ f.tour # <<>>
  BY <1>1 DEF Top, IInv, StackOK, ToursOK
<1>3. PICK g \in Call_ :
        /\ SetTop(g)
        /\ Touring(g) /\ g.raw = f.raw /\ g.todo = f.todo /\ g.stamped = f.stamped
        /\ f.next \in 1..Len(backends)
        /\ \/ f.next = Len(backends) /\ g.tour = <<>>
           \/ f.next < Len(backends) /\ g.tour = f.tour /\ g.next = f.next + 1
  BY <1>1, <1>2, VisitedFrame DEF IInv
<1>4. /\ stack' \in Seq(Call_) /\ stack' # <<>> /\ Len(stack') = Len(stack)
      /\ Top' = g /\ stack'[1] = g /\ Len(stack) \in Nat \ {0}
      /\ \A i \in 2..Len(stack) : stack'[i] = stack[i]
  BY <1>1, <1>3, TopReplaced DEF IInv, StackOK
<1>5. PICK b0 \in Backends : b0 = backends[f.next]
  BY <1>3 DEF IInv, BackendsOK
<1>6. /\ f.tour \in Seq(Chars) /\ f.tour \in Shows /\ Len(f.tour) = 1
      /\ shown[b0] \in Shows /\ shown[b0] \o f.tour \in Shows
      /\ Len(shown[b0] \o f.tour) = Len(shown[b0]) + 1
  <2>1. f.tour \in Seq(Chars) /\ Len(f.tour) = 1
    BY <1>2 DEF Call_, Touring
  <2>2. f.tour \in Shows
    BY <2>1, SeqMonotonic DEF Shows
  <2>3. shown[b0] \in Shows
    BY <1>5 DEF IInv, BackendsOK, Shows
  <2>4. shown[b0] \o f.tour \in Shows /\ Len(shown[b0] \o f.tour) = Len(shown[b0]) + Len(f.tour)
    BY <2>2, <2>3, ConcatProperties DEF Shows
  <2> QED BY <2>1, <2>2, <2>3, <2>4
<1>7. RingOK' /\ StackOK'
  <2>1. RingOK'
    BY <1>1 DEF IInv, RingOK, ring, Cell
  <2> QED BY <1>1, <1>4, <2>1 DEF IInv, StackOK
<1>8. shown' \in [Backends -> Shows]
      /\ shown'[b0] = shown[b0] \o f.tour /\ \A b \in Backends : b # b0 => shown'[b] = shown[b]
  <2>1. shown' = [shown EXCEPT ![b0] = shown[b0] \o f.tour]
    BY <1>1, <1>2, <1>5
  <2>2. shown \in [Backends -> Shows]
    BY DEF IInv, BackendsOK, Shows
  <2> QED BY <1>5, <1>6, <2>1, <2>2
<1>9. BackendsOK'
  BY <1>1, <1>4, <1>8 DEF IInv, BackendsOK, Shows, ring
<1>10. ToursOK'
  <2>1. Touring(g)'
    BY <1>1, <1>3 DEF Touring
  <2>2. ASSUME NEW i \in 2..Len(stack) PROVE Touring(stack[i])' /\ PastSerial(stack[i])'
    <3>1. Touring(stack[i]) /\ PastSerial(stack[i]) /\ stack'[i] = stack[i]
      BY <1>4 DEF IInv, ToursOK
    <3> QED BY <1>1, <3>1 DEF Touring, PastSerial
  <2>3. \A i \in 1..Len(stack) : i = 1 \/ i \in 2..Len(stack)
    BY <1>4
  <2> QED BY <1>4, <2>1, <2>2, <2>3 DEF ToursOK
<1>11. ASSUME NEW k \in 1..Len(backends)
       PROVE  /\ backends[k] \in Backends
              /\ k = f.next => /\ StillToCome(k) = f.tour /\ StillToCome(k)' = <<>>
                               /\ shown'[backends[k]] = shown[backends[k]] \o f.tour
              /\ k # f.next => /\ StillToCome(k)' = StillToCome(k)
                               /\ shown'[backends[k]] = shown[backends[k]]
  <2>1. backends[k] \in Backends /\ (backends[k] = b0 <=> k = f.next)
    BY <1>3, <1>5 DEF IInv, BackendsOK
  <2>2. StillToCome(k) = (IF f.next <= k THEN f.tour ELSE <<>>)
        /\ StillToCome(k)' = (IF g.next <= k THEN g.tour ELSE <<>>)
    BY <1>1, <1>2, <1>4 DEF StillToCome
  <2>3. f.next \in Nat /\ g.next \in Nat /\ k \in Nat /\ Len(backends) \in Nat /\ k <= Len(backends)
    BY <1>2, <1>3 DEF Call_, IInv, BackendsOK
  <2>4. CASE k = f.next
    <3>1. StillToCome(k) = f.tour
      BY <2>2, <2>3, <2>4
    <3>2. StillToCome(k)' = <<>>
      <4>1. g.tour = <<>> \/ ~(g.next <= k)
        BY <1>3, <2>3, <2>4
      <4> QED BY <2>2, <4>1
    <3> QED BY <1>8, <2>1, <2>4, <3>1, <3>2
  <2>5. CASE k # f.next
    <3>1. StillToCome(k)' = StillToCome(k)
      <4>1. CASE f.next = Len(backends)
        <5>1. ~(f.next <= k)
          BY <2>3, <2>5, <4>1
        <5> QED BY <1>3, <2>2, <2>3, <4>1, <5>1
      <4>2. CASE f.next # Len(backends)
        <5>1. g.tour = f.tour /\ (g.next <= k <=> f.next <= k)
          BY <1>3, <2>3, <2>5, <4>2
        <5> QED BY <2>2, <5>1
      <4> QED BY <4>1, <4>2
    <3> QED BY <1>8, <2>1, <2>5, <3>1
  <2> QED BY <2>1, <2>4, <2>5
<1>12. /\ log' = log /\ said' = said /\ joined' = joined /\ backends' = backends /\ dropped' = dropped
       /\ at_line_start' = at_line_start /\ (\A n : Opening(n)' = Opening(n))
  BY <1>1 DEF ring, Opening
<1>13. BackendsInStep'
  <2> SUFFICES ASSUME dropped = 0, NEW k \in 1..Len(backends)
               PROVE  LET b == backends[k] IN
                        shown'[b] \o StillToCome(k)' =
                          Opening(joined[b]) \o SubSeq(log, joined[b] + 1, Len(log))
    BY <1>12 DEF BackendsInStep, Opening
  <2> DEFINE b == backends[k]
  <2>1. shown[b] \o StillToCome(k) = Opening(joined[b]) \o SubSeq(log, joined[b] + 1, Len(log))
    BY DEF IInv, BackendsInStep
  <2>2. CASE k = f.next
    <3>1. shown'[b] \o <<>> = shown'[b]
      BY <1>8, <1>11, ConcatEmptySeq DEF Shows
    <3> QED BY <1>11, <2>1, <2>2, <3>1
  <2>3. CASE k # f.next
    BY <1>11, <2>1, <2>3
  <2> QED BY <2>2, <2>3
<1>14. CountOK'
  <2> SUFFICES ASSUME NEW k \in 1..Len(backends)
               PROVE  LET b == backends[k] IN
                        Len(shown'[b]) + Len(StillToCome(k)') + (IF k = 1 THEN dropped ELSE Waiting)
                          + joined[b] = Len(Opening(joined[b])) + Len(log)
    <3>1. Waiting' = Waiting
      BY <1>4 DEF Waiting
    <3> QED BY <1>12, <3>1 DEF CountOK, Opening
  <2> DEFINE b == backends[k]
  <2>1. Len(shown[b]) + Len(StillToCome(k)) + (IF k = 1 THEN dropped ELSE Waiting) + joined[b]
          = Len(Opening(joined[b])) + Len(log)
    BY DEF IInv, CountOK
  <2>2. Len(shown'[b]) + Len(StillToCome(k)') = Len(shown[b]) + Len(StillToCome(k))
    <3>1. CASE k = f.next
      <4>1. Len(shown'[b]) = Len(shown[b]) + 1 /\ Len(shown[b]) \in Nat
        <5>1. b = b0
          BY <1>5, <3>1
        <5>2. Len(shown[b0]) \in Nat
          BY <1>6 DEF Shows
        <5> QED BY <1>6, <1>8, <5>1, <5>2
      <4>2. Len(StillToCome(k)) = 1 /\ Len(StillToCome(k)') = 0
        <5>1. Len(<<>>) = 0
          OBVIOUS
        <5> QED BY <1>6, <1>11, <3>1, <5>1
      <4> QED BY <4>1, <4>2
    <3>2. CASE k # f.next
      BY <1>11, <3>2
    <3> QED BY <3>1, <3>2
  <2> QED BY <2>1, <2>2
<1>15. LineOK' /\ LinesAreStamped'
  <2>1. LinesAreStamped'
    BY <1>12 DEF IInv, LinesAreStamped
  <2>2. Stamped' <=> Stamped
    BY <1>1, <1>2, <1>3, <1>4 DEF Stamped
  <2> QED BY <1>1, <1>2, <1>3, <1>4, <1>12, <2>1, <2>2 DEF IInv, LineOK
<1> QED BY <1>7, <1>9, <1>10, <1>13, <1>14, <1>15 DEF IInv

\* A wait of serial's is aborted: the character is lost and the trace nests.
LEMMA AbortedWriteStep == IInv /\ AbortedWrite => IInv'
<1> SUFFICES ASSUME IInv, AbortedWrite PROVE IInv'
  OBVIOUS
<1>1. /\ stack # <<>> /\ Top.tour # <<>> /\ backends[Top.next] = Serial /\ aborting
      /\ aborting' = FALSE /\ dropped' = dropped + 1
      /\ stack' = <<AbortTrace, Visited(Top)>> \o Tail(stack)
      /\ UNCHANGED <<ring, at_line_start, backends, calls, aborts, shown, joined>>
  BY DEF AbortedWrite
<1>2. PICK f \in Call_ : f = Top /\ f = stack[1] /\ Touring(f) /\ f.tour # <<>>
  BY <1>1 DEF Top, IInv, StackOK, ToursOK
<1>3. PICK g \in Call_ :
        /\ g = Visited(f) /\ Touring(g)
        /\ f.next \in 1..Len(backends)
        /\ \/ f.next = Len(backends) /\ g.tour = <<>>
           \/ f.next < Len(backends) /\ g.tour = f.tour /\ g.next = f.next + 1
  BY <1>2, VisitedFrame DEF IInv
<1>4. f.next = 1 /\ backends # <<>> /\ Len(backends) \in Nat \ {0}
  BY <1>1, <1>2, <1>3 DEF IInv, BackendsOK
<1>5. PastSerial(g)
  <2>1. CASE Len(backends) = 1
    <3>1. g.tour = <<>>
      BY <1>3, <1>4, <2>1
    <3> QED BY <2>1, <3>1 DEF PastSerial
  <2>2. CASE Len(backends) # 1
    <3>1. g.next = 2 /\ g.tour # <<>>
      BY <1>2, <1>3, <1>4, <2>2
    <3> QED BY <2>2, <3>1 DEF PastSerial
  <2> QED BY <2>1, <2>2
<1>6. PICK h \in Call_ : h = AbortTrace /\ h.tour = <<>> /\ h.next = 1
  <2>1. ABT \in Chars /\ NL \in Chars
    BY DEF Chars
  <2>2. <<ABT, NL>> \in Seq(Chars)
    BY <2>1
  <2> QED BY <2>2, FrameIsCall DEF AbortTrace
<1>7. /\ stack' \in Seq(Call_) /\ stack' # <<>> /\ Len(stack') = Len(stack) + 1
      /\ Top' = h /\ stack'[1] = h /\ stack'[2] = g /\ Len(stack) \in Nat \ {0}
      /\ \A i \in 3..Len(stack') : stack'[i] = stack[i - 1]
  <2>1. stack' = <<h, g>> \o Tail(stack)
    BY <1>1, <1>2, <1>3, <1>6
  <2> QED BY <1>1, <2>1, CallNested DEF IInv, StackOK
<1>8. RingOK'
  BY <1>1 DEF IInv, RingOK, ring, Cell
<1>9. StackOK'
  <2>1. dropped \in Nat /\ aborts \in Nat /\ dropped + 1 <= aborts /\ Len(stack) <= 1 + dropped
    BY <1>1 DEF IInv, StackOK
  <2>2. Len(stack') <= 1 + dropped' /\ dropped' + 0 <= aborts' /\ dropped' \in Nat
    BY <1>1, <1>7, <2>1
  <2> QED BY <1>1, <1>7, <2>2 DEF IInv, StackOK
<1>10. BackendsOK'
  BY <1>1, <1>4 DEF IInv, BackendsOK, ring
<1>11. ToursOK'
  <2>1. Touring(h)' /\ Touring(g)' /\ PastSerial(g)'
    BY <1>1, <1>3, <1>5, <1>6 DEF Touring, PastSerial
  <2>2. ASSUME NEW i \in 3..Len(stack') PROVE Touring(stack[i])' /\ PastSerial(stack[i])'
    <3>1. i - 1 \in 2..Len(stack)
      BY <1>7
    <3>2. PICK e \in Call_ : e = stack[i - 1] /\ stack'[i] = e /\ Touring(e) /\ PastSerial(e)
      BY <1>7, <3>1 DEF IInv, ToursOK, StackOK
    <3>3. Touring(e)' /\ PastSerial(e)'
      BY <1>1, <3>2 DEF Touring, PastSerial
    <3> QED BY <3>2, <3>3
  <2>3. \A i \in 1..Len(stack') : i = 1 \/ i = 2 \/ i \in 3..Len(stack')
    BY <1>7
  <2>4. \A i \in 2..Len(stack') : i = 2 \/ i \in 3..Len(stack')
    BY <1>7
  <2> QED BY <1>7, <2>1, <2>2, <2>3, <2>4 DEF ToursOK
<1>12. /\ log' = log /\ said' = said /\ joined' = joined /\ backends' = backends /\ shown' = shown
       /\ (\A n : Opening(n)' = Opening(n))
  BY <1>1 DEF ring, Opening
<1>13. dropped' # 0
  BY <1>1 DEF IInv, StackOK
<1>14. CountOK'
  <2> SUFFICES ASSUME NEW k \in 1..Len(backends)
               PROVE  LET b == backends[k] IN
                        Len(shown[b]) + Len(StillToCome(k)') + (IF k = 1 THEN dropped' ELSE Waiting')
                          + joined[b] = Len(Opening(joined[b])) + Len(log)
    BY <1>12 DEF CountOK, Opening
  <2> DEFINE b == backends[k]
  <2>1. Len(shown[b]) + Len(StillToCome(k)) + (IF k = 1 THEN dropped ELSE Waiting) + joined[b]
          = Len(Opening(joined[b])) + Len(log)
    BY DEF IInv, CountOK
  <2>2. Waiting \in Nat /\ Waiting' = Waiting + 1 /\ dropped \in Nat /\ dropped' = dropped + 1
    BY <1>1, <1>7 DEF Waiting, IInv, StackOK
  <2>3. Len(StillToCome(k)) = 1 /\ Len(StillToCome(k)') = 0
    <3>1. Len(<<>>) = 0 /\ Len(f.tour) = 1
      BY <1>2 DEF Touring
    <3>2. StillToCome(k) = f.tour
      BY <1>1, <1>2, <1>4 DEF StillToCome
    <3>3. StillToCome(k)' = <<>>
      BY <1>6, <1>7 DEF StillToCome
    <3> QED BY <3>1, <3>2, <3>3
  <2> DEFINE w == IF k = 1 THEN dropped ELSE Waiting
             w1 == IF k = 1 THEN dropped' ELSE Waiting'
  <2>4. w \in Nat /\ w1 = w + 1
    BY <2>2
  <2>5. shown[b] \in Shows /\ Len(shown[b]) \in Nat
    BY DEF IInv, BackendsOK, Shows
  <2>6. Len(shown[b]) + 1 + w = Len(shown[b]) + 0 + w1
    BY <2>4, <2>5
  <2>7. Len(shown[b]) + 1 + w + joined[b] = Len(Opening(joined[b])) + Len(log)
    BY <2>1, <2>3
  <2> HIDE DEF w, w1
  <2>8. Len(shown[b]) + 0 + w1 + joined[b] = Len(Opening(joined[b])) + Len(log)
    BY <2>6, <2>7
  <2> QED BY <2>3, <2>8 DEF w1
<1>15. BackendsInStep' /\ LineOK' /\ LinesAreStamped'
  BY <1>13 DEF BackendsInStep, LineOK, LinesAreStamped
<1> QED BY <1>8, <1>9, <1>10, <1>11, <1>14, <1>15 DEF IInv

\* A call returns, to the program or to the call it interrupted.
LEMMA ReturnStep == IInv /\ Return => IInv'
<1> SUFFICES ASSUME IInv, Return PROVE IInv'
  OBVIOUS
<1>1. /\ stack # <<>> /\ Top.tour = <<>> /\ Top.todo = <<>> /\ stack' = Tail(stack)
      /\ UNCHANGED <<ring, at_line_start, backends, aborting, calls, aborts, shown, joined, dropped>>
  BY DEF Return
<1>2. /\ Top \in Call_ /\ Top = stack[1] /\ Len(stack) \in Nat \ {0}
      /\ stack' \in Seq(Call_) /\ Len(stack') = Len(stack) - 1
      /\ stack' = <<>> <=> Len(stack) = 1
      /\ \A i \in 1..Len(stack') : stack'[i] = stack[i + 1]
      /\ stack' # <<>> => Top' = stack[2]
  BY <1>1, CallEnded DEF IInv, StackOK
<1>3. RingOK'
  BY <1>1 DEF IInv, RingOK, ring, Cell
<1>4. StackOK'
  BY <1>1, <1>2 DEF IInv, StackOK
<1>5. BackendsOK'
  BY <1>1 DEF IInv, BackendsOK, ring
<1>6. ToursOK'
  <2>1. ASSUME NEW i \in 1..Len(stack') PROVE Touring(stack[i])' /\ PastSerial(stack[i])'
    <3>1. i + 1 \in 2..Len(stack)
      BY <1>2
    <3>2. PICK e \in Call_ : e = stack[i + 1] /\ stack'[i] = e /\ Touring(e) /\ PastSerial(e)
      BY <1>2, <3>1 DEF IInv, ToursOK, StackOK
    <3>3. Touring(e)' /\ PastSerial(e)'
      BY <1>1, <3>2 DEF Touring, PastSerial
    <3> QED BY <3>2, <3>3
  <2>2. \A i \in 2..Len(stack') : i \in 1..Len(stack')
    BY <1>2
  <2> QED BY <2>1, <2>2 DEF ToursOK
<1>7. /\ log' = log /\ said' = said /\ joined' = joined /\ backends' = backends /\ shown' = shown
      /\ dropped' = dropped /\ at_line_start' = at_line_start
      /\ (\A n : Opening(n)' = Opening(n))
  BY <1>1 DEF ring, Opening
<1>8. \A k \in 1..Len(backends) : StillToCome(k) = <<>>
  BY <1>1 DEF StillToCome
<1>9. dropped = 0 => stack' = <<>>
  BY <1>2 DEF IInv, StackOK
<1>10. BackendsInStep'
  <2>1. dropped = 0 => \A k \in 1..Len(backends) : StillToCome(k)' = <<>>
    BY <1>9 DEF StillToCome
  <2> QED BY <1>7, <1>8, <2>1 DEF IInv, BackendsInStep, Opening
<1>11. CountOK'
  <2> SUFFICES ASSUME NEW k \in 1..Len(backends)
               PROVE  LET b == backends[k] IN
                        Len(shown[b]) + Len(StillToCome(k)') + (IF k = 1 THEN dropped ELSE Waiting')
                          + joined[b] = Len(Opening(joined[b])) + Len(log)
    BY <1>7 DEF CountOK, Opening
  <2> DEFINE b == backends[k]
             w == IF k = 1 THEN dropped ELSE Waiting
             w1 == IF k = 1 THEN dropped ELSE Waiting'
             s == Len(StillToCome(k)')
  <2>1. Len(shown[b]) + Len(StillToCome(k)) + w + joined[b] = Len(Opening(joined[b])) + Len(log)
    BY DEF IInv, CountOK
  <2>2. Len(<<>>) = 0
    OBVIOUS
  <2>3. Len(shown[b]) + 0 + w + joined[b] = Len(Opening(joined[b])) + Len(log)
    BY <1>8, <2>1, <2>2
  <2>4. dropped \in Nat
    BY DEF IInv, StackOK
  <2>5. w \in Nat /\ w1 \in Nat /\ s \in Nat /\ w = s + w1
    <3>1. CASE stack' = <<>>
      <4>1. StillToCome(k)' = <<>> /\ Waiting = 0 /\ Waiting' = 0
        BY <1>1, <1>2, <3>1 DEF StillToCome, Waiting
      <4> QED BY <2>2, <2>4, <4>1
    <3>2. CASE stack' # <<>>
      <4>1. Waiting = Len(stack) - 1 /\ Waiting' = Len(stack) - 2 /\ Waiting' \in Nat
        BY <1>1, <1>2, <3>2 DEF Waiting
      <4>2. StillToCome(k)' = IF stack[2].next <= k THEN stack[2].tour ELSE <<>>
        BY <1>2, <3>2 DEF StillToCome
      <4>3. 2 \in 1..Len(stack) /\ 2 \in 2..Len(stack)
        BY <1>2, <3>2
      <4>4. PastSerial(stack[2]) /\ Touring(stack[2])
        BY <4>3 DEF IInv, ToursOK
      <4>5. CASE Len(backends) = 1
        <5>1. k = 1 /\ StillToCome(k)' = <<>>
          BY <4>2, <4>4, <4>5 DEF PastSerial
        <5> QED BY <2>2, <2>4, <5>1
      <4>6. CASE Len(backends) # 1
        <5>1. stack[2].next = 2 /\ Len(stack[2].tour) = 1
          BY <4>4, <4>6 DEF PastSerial, Touring
        <5>2. CASE k = 1
          <6>1. StillToCome(k)' = <<>>
            BY <4>2, <5>1, <5>2
          <6> QED BY <2>2, <2>4, <5>2, <6>1
        <5>3. CASE k # 1
          <6>1. 2 <= k
            BY <5>3 DEF IInv, BackendsOK
          <6>2. StillToCome(k)' = stack[2].tour
            BY <4>2, <5>1, <6>1
          <6>3. s = 1 /\ w = Len(stack) - 1 /\ w1 = Len(stack) - 2
            BY <4>1, <5>1, <5>3, <6>2
          <6> QED BY <1>2, <4>1, <6>3
        <5> QED BY <5>2, <5>3
      <4> QED BY <4>5, <4>6
    <3> QED BY <3>1, <3>2
  <2>6. Len(shown[b]) \in Nat
    BY DEF IInv, BackendsOK
  <2> DEFINE x == Len(shown[b])
  <2>7. x \in Nat /\ x + 0 + w + joined[b] = Len(Opening(joined[b])) + Len(log)
    BY <2>3, <2>6
  <2> HIDE DEF x, s, w, w1
  <2>8. x + 0 + w = x + s + w1
    BY <2>5, <2>7
  <2>9. x + s + w1 + joined[b] = Len(Opening(joined[b])) + Len(log)
    BY <2>7, <2>8
  <2> QED BY <2>9 DEF x, s, w1
<1>12. LinesAreStamped'
  BY <1>7 DEF IInv, LinesAreStamped
<1>13. LineOK'
  <2>1. dropped = 0 => ~Stamped /\ ~Stamped'
    BY <1>1, <1>9 DEF IInv, LineOK, Stamped
  <2> QED BY <1>7, <1>9, <2>1 DEF IInv, LineOK
<1> QED BY <1>3, <1>4, <1>5, <1>6, <1>10, <1>11, <1>12, <1>13 DEF IInv

(***************************************************************************)
(* The program's calls                                                     *)
(***************************************************************************)

\* No call is in progress, or one that has just begun.
Begins == stack = <<>> \/ \E f \in Call_ : stack = <<f>> /\ f.tour = <<>> /\ f.next = 1

\* Such a stack keeps no backend waiting.
LEMMA NoneWaits ==
  ASSUME Begins'
  PROVE  /\ ToursOK' /\ Waiting' = 0 /\ stack' \in Seq(Call_) /\ Len(stack') <= 1
         /\ \A k : StillToCome(k)' = <<>>
<1>1. CASE stack' = <<>>
  BY <1>1 DEF ToursOK, Waiting, StillToCome
<1>2. CASE stack' # <<>>
  <2>1. PICK f \in Call_ : stack' = <<f>> /\ f.tour = <<>> /\ f.next = 1
    BY <1>2 DEF Begins
  <2>2. Len(stack') = 1 /\ stack'[1] = f /\ Top' = f /\ stack' \in Seq(Call_) /\ stack' # <<>>
    BY <2>1 DEF Top
  <2>3. Touring(f)'
    BY <2>1 DEF Touring
  <2> QED BY <2>1, <2>2, <2>3 DEF ToursOK, Waiting, StillToCome
<1> QED BY <1>1, <1>2

\* Between calls nothing is on its way.
LEMMA NothingOnTour ==
  ASSUME stack = <<>>
  PROVE  Waiting = 0 /\ ~Stamped /\ \A k : StillToCome(k) = <<>>
BY DEF Waiting, StillToCome, Stamped

\* The backends stay as they are.
LEMMA SameBackends ==
  ASSUME IInv, stack = <<>>, Begins', backends # <<>>,
         UNCHANGED <<backends, shown, joined, log, dropped>>
  PROVE  BackendsOK' /\ BackendsInStep' /\ CountOK'
<1>1. Waiting' = Waiting /\ \A k : StillToCome(k)' = StillToCome(k)
  BY NoneWaits, NothingOnTour
<1>2. BackendsOK'
  BY DEF IInv, BackendsOK
<1>3. BackendsInStep'
  BY <1>1 DEF IInv, BackendsInStep, Opening
<1>4. CountOK'
  BY <1>1 DEF IInv, CountOK, Opening
<1> QED BY <1>2, <1>3, <1>4

\* A new backend comes last and shows what the others show.
LEMMA Registers ==
  ASSUME IInv, stack = <<>>, Begins', NEW b \in Backends, b \notin Registered,
         Len(backends) < MAX_BE, backends = <<>> => b = Serial,
         RegisterBackend(b), UNCHANGED <<log, dropped>>
  PROVE  BackendsOK' /\ BackendsInStep' /\ CountOK'
<1>1. /\ backends' = Append(backends, b) /\ shown' = [shown EXCEPT ![b] = Replay]
      /\ joined' = [joined EXCEPT ![b] = Len(log)]
  BY DEF RegisterBackend
<1> DEFINE B == Len(backends)
<1>2. /\ B \in Nat /\ Len(backends') = B + 1 /\ backends' \in Seq(Backends) /\ backends' # <<>>
      /\ backends'[B + 1] = b
      /\ \A k \in 1..B : backends'[k] = backends[k] /\ backends[k] \in Backends /\ backends[k] # b
  <2>1. backends \in Seq(Backends)
    BY DEF IInv, BackendsOK
  <2>2. \A k \in 1..B : backends[k] # b
    BY <2>1 DEF Registered, Range
  <2> QED BY <1>1, <2>1, <2>2
<1>3. Replay = Opening(Len(log)) /\ Replay \in Shows /\ SubSeq(log, Len(log) + 1, Len(log)) = <<>>
      /\ Len(log) \in Nat
  <2>1. RingOK
    BY DEF IInv
  <2>2. log \in Seq(Chars)
    BY <2>1 DEF RingOK
  <2>3. Len(log) \in Nat
    BY <2>2
  <2>4. SubSeq(log, Len(log) + 1, Len(log)) = <<>>
    BY <2>2, <2>3
  <2> QED BY <2>1, <2>3, <2>4, ReplayOpens
<1>4. /\ shown' \in [Backends -> Shows] /\ joined' \in [Backends -> Nat]
      /\ shown'[b] = Replay /\ joined'[b] = Len(log)
      /\ \A k \in 1..B : shown'[backends[k]] = shown[backends[k]] /\ joined'[backends[k]] = joined[backends[k]]
      /\ \A a \in Backends : joined'[a] <= Len(log)
  BY <1>1, <1>2, <1>3 DEF IInv, BackendsOK, Shows
<1>5. \A k \in 1..(B + 1) : k = B + 1 \/ k \in 1..B
  BY <1>2
<1>6. BackendsOK'
  <2>1. Len(backends') <= MAX_BE
    BY <1>2, BackendsAssumption
  <2>2. \A i, j \in 1..Len(backends') : backends'[i] = backends'[j] => i = j
    BY <1>2, <1>5 DEF IInv, BackendsOK
  <2>3. backends'[1] = Serial
    <3>1. CASE backends = <<>>
      BY <1>2, <3>1
    <3>2. CASE backends # <<>>
      <4>1. 1 \in 1..B /\ backends[1] = Serial
        BY <1>2, <3>2 DEF IInv, BackendsOK
      <4> QED BY <1>2, <4>1
    <3> QED BY <3>1, <3>2
  <2> QED BY <1>2, <1>4, <2>1, <2>2, <2>3 DEF BackendsOK, Shows
<1>7. Waiting' = 0 /\ Waiting = 0 /\ (\A k : StillToCome(k)' = <<>> /\ StillToCome(k) = <<>>)
  BY NoneWaits, NothingOnTour
<1>8. \A n : Opening(n)' = Opening(n)
  BY DEF Opening
<1>9. BackendsInStep'
  <2> SUFFICES ASSUME dropped = 0, NEW k \in 1..(B + 1)
               PROVE  LET a == backends'[k] IN
                        shown'[a] \o <<>> = Opening(joined'[a]) \o SubSeq(log, joined'[a] + 1, Len(log))
    BY <1>2, <1>7, <1>8 DEF BackendsInStep, Opening
  <2>1. CASE k \in 1..B
    BY <1>2, <1>4, <1>7, <2>1 DEF IInv, BackendsInStep
  <2>2. CASE k = B + 1
    BY <1>2, <1>3, <1>4, <2>2
  <2> QED BY <1>5, <2>1, <2>2
<1>10. CountOK'
  <2>0. Len(<<>>) = 0
    OBVIOUS
  <2> SUFFICES ASSUME NEW k \in 1..(B + 1)
               PROVE  LET a == backends'[k] IN
                        Len(shown'[a]) + Len(<<>>) + (IF k = 1 THEN dropped ELSE 0) + joined'[a]
                          = Len(Opening(joined'[a])) + Len(log)
    BY <1>2, <1>7, <1>8 DEF CountOK, Opening
  <2>1. CASE k \in 1..B
    <3>1. LET a == backends[k] IN
            Len(shown[a]) + Len(<<>>) + (IF k = 1 THEN dropped ELSE 0) + joined[a]
              = Len(Opening(joined[a])) + Len(log)
      <4>1. LET a == backends[k] IN
              Len(shown[a]) + Len(StillToCome(k)) + (IF k = 1 THEN dropped ELSE Waiting) + joined[a]
                = Len(Opening(joined[a])) + Len(log)
        BY <1>2, <2>1 DEF IInv, CountOK
      <4>2. StillToCome(k) = <<>> /\ Waiting = 0
        BY <1>7
      <4> HIDE DEF B
      <4> QED BY <4>1, <4>2
    <3>2. /\ backends'[k] = backends[k] /\ shown'[backends[k]] = shown[backends[k]]
          /\ joined'[backends[k]] = joined[backends[k]]
      BY <1>2, <1>4, <2>1
    <3> QED BY <3>1, <3>2
  <2>2. CASE k = B + 1
    <3>1. k = 1 => dropped = 0
      <4>1. k = 1 => backends = <<>>
        BY <1>2, <2>2 DEF IInv, BackendsOK
      <4> QED BY <4>1 DEF IInv, BackendsOK
    <3>2. Len(Replay) \in Nat /\ Len(Opening(Len(log))) = Len(Replay) /\ Len(log) \in Nat
      BY <1>3 DEF Shows
    <3>3. /\ backends'[k] = b /\ shown'[b] = Replay /\ joined'[b] = Len(log)
      BY <1>2, <1>4, <2>2
    <3>4. Len(Replay) + Len(<<>>) + (IF k = 1 THEN dropped ELSE 0) + Len(log)
            = Len(Opening(Len(log))) + Len(log)
      <4> DEFINE r == Len(Replay)
                 l == Len(log)
      <4>1. r \in Nat /\ l \in Nat /\ Len(Opening(l)) = r
        BY <3>2
      <4>2. (IF k = 1 THEN dropped ELSE 0) = 0
        BY <3>1
      <4> HIDE DEF r, l
      <4>3. r + 0 + 0 + l = r + l
        BY <4>1
      <4>4. r + Len(<<>>) + (IF k = 1 THEN dropped ELSE 0) + l = Len(Opening(l)) + l
        BY <2>0, <4>1, <4>2, <4>3
      <4> QED BY <4>4 DEF r, l
    <3> QED BY <3>3, <3>4
  <2> QED BY <1>5, <2>1, <2>2
<1> QED BY <1>6, <1>9, <1>10

\* bm_puts and bm_puts_raw
LEMMA CallStep ==
  ASSUME IInv, NEW s \in Texts \cup RawTexts, NEW raw \in BOOLEAN, raw = FALSE => s \in Texts,
         Call(s, raw)
  PROVE  IInv'
<1>1. /\ stack = <<>> /\ stack' = <<Frame(s, raw)>>
      /\ IF backends = <<>> THEN RegisterBackend(Serial) ELSE UNCHANGED <<backends, shown, joined>>
      /\ UNCHANGED <<ring, at_line_start, aborting, aborts, dropped>>
  BY DEF Call
<1>2. s \in Seq(Chars)
  BY TextsAssumption
<1>3. PICK f \in Call_ : /\ f = Frame(s, raw) /\ f.tour = <<>> /\ f.next = 1
                         /\ f.todo = s /\ f.raw = raw /\ f.stamped = FALSE
  BY <1>2, FrameIsCall
<1>4. Begins' /\ stack' = <<f>> /\ Top' = f
  BY <1>1, <1>3 DEF Begins, Top
<1>5. RingOK'
  BY <1>1 DEF IInv, RingOK, ring, Cell
<1>6. StackOK' /\ ToursOK'
  BY <1>1, <1>4, NoneWaits DEF IInv, StackOK
<1>7. log' = log /\ said' = said /\ dropped' = dropped /\ at_line_start' = at_line_start
  BY <1>1 DEF ring
<1>8. BackendsOK' /\ BackendsInStep' /\ CountOK'
  <2>1. CASE backends = <<>>
    <3>1. /\ Serial \in Backends /\ Serial \notin Registered /\ Len(backends) < MAX_BE
          /\ RegisterBackend(Serial)
      BY <1>1, <2>1, BackendsAssumption DEF Backends, Registered, Range
    <3> QED BY <1>1, <1>4, <1>7, <3>1, Registers
  <2>2. CASE backends # <<>>
    BY <1>1, <1>4, <1>7, <2>2, SameBackends
  <2> QED BY <2>1, <2>2
<1>9. LinesAreStamped'
  BY <1>7 DEF IInv, LinesAreStamped
<1>10. LineOK'
  <2>1. ~Stamped /\ ~Stamped'
    BY <1>1, <1>3, <1>4 DEF Stamped
  <2>2. raw = FALSE => s \in Seq(Chars \ {TS})
    <3> SUFFICES ASSUME raw = FALSE PROVE s \in Seq(Chars \ {TS})
      OBVIOUS
    <3>1. s \in Texts
      OBVIOUS
    <3>2. TS \notin Range(s)
      BY <3>1, StampAssumption
    <3>3. \A i \in 1..Len(s) : s[i] \in Chars \ {TS}
      BY <1>2, <3>2 DEF Range
    <3> QED BY <1>2, <3>3
  <2> QED BY <1>3, <1>4, <1>7, <2>1, <2>2 DEF IInv, LineOK
<1> QED BY <1>5, <1>6, <1>8, <1>9, <1>10 DEF IInv

\* A backend that comes by itself
LEMMA RegisterStep ==
  ASSUME IInv, NEW b \in Others, console_register_be(b)
  PROVE  IInv'
<1>1. /\ stack = <<>> /\ backends # <<>> /\ b \notin Registered /\ Len(backends) < MAX_BE
      /\ RegisterBackend(b)
      /\ UNCHANGED <<ring, at_line_start, stack, aborting, calls, aborts, dropped>>
  BY DEF console_register_be
<1>2. Begins' /\ log' = log /\ said' = said
  BY <1>1 DEF Begins, ring
<1>3. RingOK'
  BY <1>1 DEF IInv, RingOK, ring, Cell
<1>4. StackOK' /\ ToursOK'
  BY <1>1, <1>2, NoneWaits DEF IInv, StackOK
<1>5. BackendsOK' /\ BackendsInStep' /\ CountOK'
  <2>1. b \in Backends
    BY DEF Backends
  <2> QED BY <1>1, <1>2, <2>1, Registers
<1>6. LinesAreStamped' /\ LineOK'
  BY <1>1, <1>2 DEF IInv, LinesAreStamped, LineOK, Stamped
<1> QED BY <1>3, <1>4, <1>5, <1>6 DEF IInv

\* What leaves the console alone
LEMMA ElsewhereStep ==
  ASSUME IInv, UNCHANGED <<ring, at_line_start, backends, stack, shown, joined, dropped>>,
         (aborting' = TRUE /\ aborts' = aborts + 1) \/ UNCHANGED <<aborting, aborts>>
  PROVE  IInv'
<1>1. RingOK'
  BY DEF IInv, RingOK, ring, Cell
<1>2. StackOK'
  <2>1. CASE UNCHANGED <<aborting, aborts>>
    BY <2>1 DEF IInv, StackOK
  <2>2. CASE aborting' = TRUE /\ aborts' = aborts + 1
    <3>1. dropped \in Nat /\ aborts \in Nat /\ dropped <= aborts
      BY DEF IInv, StackOK
    <3>2. dropped' + 1 <= aborts' /\ aborts' \in Nat
      BY <2>2, <3>1
    <3> QED BY <2>2, <3>2 DEF IInv, StackOK
  <2> QED BY <2>1, <2>2
<1>3. BackendsOK' /\ ToursOK'
  BY DEF IInv, BackendsOK, ToursOK, Touring, PastSerial, ring
<1>4. BackendsInStep'
  BY DEF IInv, BackendsInStep, StillToCome, Top, Opening, ring
<1>5. CountOK'
  BY DEF IInv, CountOK, StillToCome, Waiting, Top, Opening, ring
<1>6. LineOK' /\ LinesAreStamped'
  BY DEF IInv, LineOK, LinesAreStamped, Stamped, Top, ring
<1> QED BY <1>1, <1>2, <1>3, <1>4, <1>5, <1>6 DEF IInv

(***************************************************************************)
(* The invariant                                                           *)
(***************************************************************************)

\* The console before the first character
LEMMA InitIInv == Init => IInv
<1> SUFFICES ASSUME Init PROVE IInv
  OBVIOUS
<1>1. /\ log = <<>> /\ said = <<>> /\ backends = <<>> /\ stack = <<>>
      /\ Len(log) = 0 /\ Len(said) = 0 /\ Len(backends) = 0 /\ Len(stack) = 0
      /\ <<>> \in Seq(Chars) /\ <<>> \in Seq(Backends) /\ <<>> \in Seq(Call_)
      /\ <<>> \in Seq(Chars \cup {MARK})
  BY DEF Init
<1>2. RingOK
  BY <1>1, RingAssumption DEF Init, RingOK
<1>3. StackOK
  <2>1. at_line_start = TRUE /\ aborting = FALSE /\ aborts = 0 /\ dropped = 0
    BY DEF Init
  <2>2. Len(stack) <= 1 + dropped
    BY <1>1, <2>1
  <2>3. dropped + (IF aborting THEN 1 ELSE 0) <= aborts
    BY <2>1
  <2>4. stack \in Seq(Call_)
    BY <1>1
  <2> QED BY <2>1, <2>2, <2>3, <2>4 DEF StackOK
<1>4. BackendsOK
  <2>1. 0 <= MAX_BE
    BY BackendsAssumption
  <2> QED BY <1>1, <2>1 DEF Init, BackendsOK
<1>5. ToursOK /\ BackendsInStep /\ CountOK /\ LinesAreStamped
  BY <1>1 DEF ToursOK, BackendsInStep, CountOK, LinesAreStamped
<1>6. LineOK
  BY <1>1 DEF Init, LineOK, Stamped, StartsLine
<1> QED BY <1>2, <1>3, <1>4, <1>5, <1>6 DEF IInv

\* Every step keeps the invariant.
LEMMA NextIInv == IInv /\ [Next]_vars => IInv'
<1> SUFFICES ASSUME IInv, [Next]_vars PROVE IInv'
  OBVIOUS
<1>1. CASE Step
  BY <1>1, StampStep, SetOutStep, DeliverStep, AbortedWriteStep, ReturnStep DEF Step
<1>2. CASE Client
  <2>1. ASSUME NEW s \in Texts, console_write(s) PROVE IInv'
    BY <2>1, CallStep DEF console_write
  <2>2. ASSUME NEW s \in RawTexts, console_write_raw(s) PROVE IInv'
    BY <2>2, CallStep DEF console_write_raw
  <2>3. ASSUME NEW b \in Others, console_register_be(b) PROVE IInv'
    BY <2>3, RegisterStep
  <2> QED BY <1>2, <2>1, <2>2, <2>3 DEF Client
<1>3. CASE abort_io \/ UNCHANGED vars
  <2>1. /\ UNCHANGED <<ring, at_line_start, backends, stack, shown, joined, dropped>>
        /\ (aborting' = TRUE /\ aborts' = aborts + 1) \/ UNCHANGED <<aborting, aborts>>
    BY <1>3 DEF abort_io, vars
  <2> QED BY <2>1, ElsewhereStep
<1> QED BY <1>1, <1>2, <1>3 DEF Next

\* The ring, the calls in progress and the backends stay in step
\* (kernel/console.c).
THEOREM ConsoleInvariant == Spec => []IInv
<1>1. Init => IInv
  BY InitIInv
<1>2. IInv /\ [Next]_vars => IInv'
  BY NextIInv
<1> QED
  BY <1>1, <1>2, PTL DEF Spec

(***************************************************************************)
(* The properties                                                          *)
(***************************************************************************)

\* Every variable keeps its type, and calls nest no deeper than aborts were
\* made.
THEOREM ConsoleTypes == Spec => []TypeOK
<1>1. IInv => TypeOK
  <2> SUFFICES ASSUME IInv PROVE TypeOK
    OBVIOUS
  <2>1. con_len \in 0..CON_BUF_SIZE
    <3>1. log \in Seq(Chars) /\ Len(log) \in Nat
          /\ con_len = IF Len(log) < CON_BUF_SIZE THEN Len(log) ELSE CON_BUF_SIZE
      BY DEF IInv, RingOK
    <3> QED BY <3>1, RingAssumption
  <2>2. Len(stack) <= 1 + aborts
    <3>1. /\ Len(stack) \in Nat /\ dropped \in Nat /\ aborts \in Nat
          /\ Len(stack) <= 1 + dropped /\ dropped <= aborts
      BY DEF IInv, StackOK
    <3> QED BY <3>1
  <2>3. Range(backends) \subseteq Backends /\ Len(backends) <= MAX_BE /\ Range(log) \subseteq Chars
    BY DEF IInv, BackendsOK, RingOK, Range
  <2> QED BY <2>1, <2>2, <2>3 DEF TypeOK, IInv, RingOK, StackOK
<1> QED
  BY <1>1, ConsoleInvariant, PTL

\* The ring holds the last CON_BUF_SIZE characters printed, in order
\* (buf_put).
THEOREM RingHoldsTail == Spec => []RingIsTail
<1>1. IInv => RingIsTail
  BY RingTail DEF IInv
<1> QED
  BY <1>1, ConsoleInvariant, PTL

\* Until an abort, a backend shows every character from the oldest that the
\* ring held when it registered (console_register_be, console_write).
THEOREM BackendsAgree == Spec => []BackendsInStep
<1>1. IInv => BackendsInStep
  BY DEF IInv
<1> QED
  BY <1>1, ConsoleInvariant, PTL

\* kernel.md:78-79: every line of bm_puts has one timestamp, at its start,
\* until an aborted wait prints within a print.
THEOREM LinesHaveStamps == Spec => []LinesAreStamped
<1>1. IInv => LinesAreStamped
  BY DEF IInv
<1> QED
  BY <1>1, ConsoleInvariant, PTL

\* However many calls nest in each other, an aborted wait costs serial one
\* character and the others none (uart_busy_write).
THEOREM OneCharPerAbort == Spec => []AbortsCostOneChar
<1>1. IInv => AbortsCostOneChar
  <2> SUFFICES ASSUME IInv, stack = <<>>, NEW b \in Registered
               PROVE  Len(shown[b]) + (IF b = Serial THEN dropped ELSE 0) =
                        Len(Opening(joined[b])) + Len(log) - joined[b]
    BY DEF AbortsCostOneChar
  <2>1. PICK k \in 1..Len(backends) : b = backends[k]
    BY DEF IInv, BackendsOK, Registered, Range
  <2>2. b \in Backends /\ (b = Serial <=> k = 1)
    <3>1. 1 \in 1..Len(backends) /\ backends[1] = Serial
      BY DEF IInv, BackendsOK
    <3> QED BY <2>1, <3>1 DEF IInv, BackendsOK
  <2> DEFINE x == Len(shown[b])
             j == joined[b]
             o == Len(Opening(j))
             l == Len(log)
             w == IF b = Serial THEN dropped ELSE 0
  <2>3. x \in Nat /\ j \in 0..l /\ l \in Nat /\ w \in Nat
    BY <2>2 DEF IInv, BackendsOK, RingOK, StackOK
  <2>4. o \in Nat
    BY <2>3, Grown DEF Shows, Chars, IInv, RingOK
  <2>5. Len(<<>>) = 0
    OBVIOUS
  <2>6. x + 0 + w + j = o + l
    BY <2>1, <2>2, <2>5, NothingOnTour DEF IInv, CountOK
  <2> HIDE DEF x, j, o, l, w
  <2>7. x + w = o + l - j
    BY <2>3, <2>4, <2>6
  <2> QED BY <2>7 DEF x, j, o, l, w
<1> QED
  BY <1>1, ConsoleInvariant, PTL
=============================================================================

--------------------------- MODULE LogReaderProofs ---------------------------
(***************************************************************************)
(* Proofs about LogReader and the loop of LogCollector around it, for any  *)
(* number of files, any budgets, line sizes and numbers of writes.         *)
(***************************************************************************)
EXTENDS LogCollector, FiniteSetTheorems, SequenceTheorems, TLAPS

-----------------------------------------------------------------------------
(***************************************************************************)
(* Naturals: least and greatest elements, induction, and a step around a   *)
(* circle.  The library's induction theorems are about an operator; its    *)
(* theorem on minimal elements is about a set, and gives what is needed.   *)
(***************************************************************************)

\* A set of naturals that is not empty has a least element.
LEMMA LeastElement ==
  ASSUME NEW S \in SUBSET Nat, S # {}
  PROVE  \E m \in S : \A n \in S : m <= n
<1> DEFINE R == {x \in Nat \X Nat : x[1] < x[2]}
<1>1. IsWellFoundedOn(R, Nat)
  BY NatLessThanWellFounded DEF OpToRel
<1>2. PICK m \in S : \A n \in S : <<n, m>> \notin R
  <2> HIDE DEF R
  <2> QED BY <1>1, WFMin
<1>3. \A n \in S : <<n, m>> \in Nat \X Nat
  OBVIOUS
<1>4. \A n \in S : ~(n < m)
  BY <1>2, <1>3
<1> QED BY <1>4

\* Induction over the naturals, for the elements of a set.
LEMMA Induction ==
  ASSUME NEW S, 0 \in S, \A n \in Nat : n \in S => n + 1 \in S
  PROVE  Nat \subseteq S
<1> SUFFICES ASSUME Nat \ S # {} PROVE FALSE
  OBVIOUS
<1>1. PICK m \in Nat \ S : \A n \in Nat \ S : m <= n
  BY LeastElement
<1>2. m # 0 /\ m - 1 \in Nat
  BY <1>1
<1>3. m - 1 \in S
  BY <1>1, <1>2
<1> QED BY <1>1, <1>2, <1>3

\* The smallest of a set of naturals.
LEMMA MinIs ==
  ASSUME NEW S \in SUBSET Nat, S # {}
  PROVE  Min(S) \in S /\ \A n \in S : Min(S) <= n
<1>1. \E m \in S : \A n \in S : m <= n
  BY LeastElement
<1> QED BY <1>1 DEF Min

\* The greatest of a bounded set of naturals.
LEMMA MaxIs ==
  ASSUME NEW b \in Nat, NEW S \in SUBSET (0..b), S # {}
  PROVE  Max(S) \in S /\ \A n \in S : Max(S) >= n
<1> DEFINE T == {b - n : n \in S}
<1>1. T \in SUBSET Nat /\ T # {}
  <2>1. \A n \in S : b - n \in Nat
    OBVIOUS
  <2> QED BY <2>1
<1>2. PICK m \in T : \A n \in T : m <= n
  BY <1>1, LeastElement
<1>3. PICK k \in S : m = b - k
  OBVIOUS
<1>4. \A n \in S : n <= k
  <2>1. \A n \in S : b - k <= b - n
    BY <1>2, <1>3
  <2> QED BY <2>1
<1>5. \E x \in S : \A n \in S : x >= n
  BY <1>4
<1> QED BY <1>5 DEF Max

\* The next of N places on a circle, from any place.
LEMMA AroundCircle ==
  ASSUME NEW N \in Nat \ {0}, NEW a \in 0..(N - 1), NEW k \in 0..N
  PROVE  (a + k) % N = IF a + k < N THEN a + k ELSE a + k - N
OBVIOUS

-----------------------------------------------------------------------------
(***************************************************************************)
(* Picked: the recursion is well defined, and one more item at the end     *)
(* adds that item or nothing.                                              *)
(***************************************************************************)

\* f is the function that Picked defines, up to the n-th item.
IsPicking(f, n, kept, items) ==
  f = [k \in 0..n |-> IF k = 0 THEN <<>>
                      ELSE IF k \in kept THEN Append(f[k - 1], items[k]) ELSE f[k - 1]]

LEMMA PickingAt ==
  ASSUME NEW n \in Nat, NEW kept, NEW items, NEW f, IsPicking(f, n, kept, items)
  PROVE  /\ f[0] = <<>>
         /\ \A k \in 1..n : f[k] = IF k \in kept THEN Append(f[k - 1], items[k]) ELSE f[k - 1]
<1>1. \A k \in 0..n : f[k] = IF k = 0 THEN <<>>
                      ELSE IF k \in kept THEN Append(f[k - 1], items[k]) ELSE f[k - 1]
  BY DEF IsPicking
<1>2. 0 \in 0..n /\ \A k \in 1..n : k \in 0..n /\ k # 0
  OBVIOUS
<1> QED BY <1>1, <1>2

LEMMA PickingExists ==
  ASSUME NEW kept, NEW items
  PROVE  \A n \in Nat : \E f : IsPicking(f, n, kept, items)
<1> DEFINE Done == {n \in Nat : \E f : IsPicking(f, n, kept, items)}
<1>1. 0 \in Done
  <2> DEFINE f == [k \in 0..0 |-> <<>>]
  <2>1. IsPicking(f, 0, kept, items)
    BY DEF IsPicking
  <2> QED BY <2>1
<1>2. ASSUME NEW n \in Nat, n \in Done PROVE n + 1 \in Done
  <2>1. PICK f : IsPicking(f, n, kept, items)
    BY <1>2
  <2> DEFINE Step(g, k) == IF k = 0 THEN <<>>
                           ELSE IF k \in kept THEN Append(g[k - 1], items[k]) ELSE g[k - 1]
             h == [k \in 0..(n + 1) |-> IF k <= n THEN f[k] ELSE Step(f, n + 1)]
  <2>2. ASSUME NEW k \in 0..(n + 1) PROVE h[k] = Step(h, k)
    <3>1. CASE k = 0
      BY <2>1, <3>1, PickingAt
    <3>2. CASE k \in 1..n
      <4>1. h[k] = f[k] /\ h[k - 1] = f[k - 1] /\ k # 0
        BY <3>2
      <4>2. f[k] = IF k \in kept THEN Append(f[k - 1], items[k]) ELSE f[k - 1]
        BY <2>1, <3>2, PickingAt
      <4> HIDE DEF h
      <4> QED BY <4>1, <4>2
    <3>3. CASE k = n + 1
      <4>1. h[k] = Step(f, k) /\ h[k - 1] = f[k - 1]
        BY <3>3
      <4> HIDE DEF h
      <4> QED BY <4>1
    <3> QED BY <3>1, <3>2, <3>3
  <2>3. h = [k \in 0..(n + 1) |-> Step(h, k)]
    <3> HIDE DEF Step
    <3> QED BY <2>2
  <2>4. IsPicking(h, n + 1, kept, items)
    <3> HIDE DEF h
    <3> QED BY <2>3 DEF IsPicking
  <2> HIDE DEF h
  <2> QED BY <2>4
<1> HIDE DEF Done
<1>3. Nat \subseteq Done
  BY <1>1, <1>2, Induction
<1> QED BY <1>3 DEF Done

LEMMA PickingAgrees ==
  ASSUME NEW n \in Nat, NEW kept, NEW items, NEW f, IsPicking(f, n, kept, items),
         NEW m \in Nat, NEW kept2, NEW items2, NEW g, IsPicking(g, m, kept2, items2),
         NEW b \in Nat, b <= n, b <= m,
         \A k \in 1..b : items[k] = items2[k] /\ (k \in kept <=> k \in kept2)
  PROVE  f[b] = g[b]
<1> DEFINE Good == {k \in Nat : k <= b => f[k] = g[k]}
<1>1. 0 \in Good
  BY PickingAt
<1>2. ASSUME NEW k \in Nat, k \in Good PROVE k + 1 \in Good
  <2> SUFFICES ASSUME k + 1 <= b PROVE f[k + 1] = g[k + 1]
    OBVIOUS
  <2>1. f[k] = g[k]
    BY <1>2
  <2>2. k + 1 \in 1..b /\ k + 1 \in 1..n /\ k + 1 \in 1..m /\ (k + 1) - 1 = k
    OBVIOUS
  <2>3. f[k + 1] = IF k + 1 \in kept THEN Append(f[k], items[k + 1]) ELSE f[k]
    BY <2>2, PickingAt
  <2>4. g[k + 1] = IF k + 1 \in kept2 THEN Append(g[k], items2[k + 1]) ELSE g[k]
    BY <2>2, PickingAt
  <2> QED BY <2>1, <2>2, <2>3, <2>4
<1> HIDE DEF Good
<1>3. b \in Good
  BY <1>1, <1>2, Induction
<1> QED BY <1>3 DEF Good

LEMMA PickedIs ==
  ASSUME NEW kept, NEW items, Len(items) \in Nat
  PROVE  \E f : IsPicking(f, Len(items), kept, items) /\ Picked(kept, items) = f[Len(items)]
<1> DEFINE f == CHOOSE f : IsPicking(f, Len(items), kept, items)
<1>1. IsPicking(f, Len(items), kept, items)
  <2>1. \E g : IsPicking(g, Len(items), kept, items)
    BY PickingExists
  <2> QED BY <2>1
<1>2. Picked(kept, items) = f[Len(items)]
  BY DEF Picked, IsPicking
<1> QED BY <1>1, <1>2

\* Nothing is picked of nothing.
LEMMA PickedOfNothing ==
  ASSUME NEW kept, NEW items, Len(items) = 0
  PROVE  Picked(kept, items) = <<>>
<1>1. PICK f : IsPicking(f, 0, kept, items) /\ Picked(kept, items) = f[0]
  BY PickedIs
<1> QED BY <1>1, PickingAt

\* One more item is picked or left.
LEMMA PickedOneMore ==
  ASSUME NEW kept, NEW items, Len(items) \in Nat,
         NEW kept2, NEW items2, Len(items2) = Len(items) + 1,
         \A k \in 1..Len(items) : items[k] = items2[k] /\ (k \in kept <=> k \in kept2)
  PROVE  Picked(kept2, items2) =
           IF Len(items2) \in kept2 THEN Append(Picked(kept, items), items2[Len(items2)])
                                    ELSE Picked(kept, items)
<1> DEFINE n == Len(items)
<1>1. PICK f : IsPicking(f, n, kept, items) /\ Picked(kept, items) = f[n]
  BY PickedIs
<1>2. PICK g : IsPicking(g, n + 1, kept2, items2) /\ Picked(kept2, items2) = g[n + 1]
  BY PickedIs
<1>3. f[n] = g[n]
  BY <1>1, <1>2, PickingAgrees
<1>4. g[n + 1] = IF n + 1 \in kept2 THEN Append(g[n], items2[n + 1]) ELSE g[n]
  <2>1. n + 1 \in 1..(n + 1) /\ (n + 1) - 1 = n
    OBVIOUS
  <2> QED BY <1>2, <2>1, PickingAt
<1> QED BY <1>1, <1>2, <1>3, <1>4

-----------------------------------------------------------------------------
(***************************************************************************)
(* The inductive invariant of the reader.                                  *)
(***************************************************************************)

\* What the pass has in hand: where it stands, and the file that is open.
InHand ==
  /\ pass.phase = "idle" => pass = Resting
  /\ pass.phase = "visit" =>
       /\ nextPath = (pass.start + pass.index) % PathCount
       /\ pass.index = 0 => ~Spent
  /\ pass.phase = "read" =>
       /\ pass.index < PathCount /\ pass.path = Current /\ nextPath = (Current + 1) % PathCount
       /\ pass.inode = state[pass.path].inode /\ pass.inode # None

\* Visits until it is the turn of a path, where the next is that of another.
Ahead(first, p) == IF first <= p THEN p - first ELSE p + PathCount - first

\* A path has not been passed over more often than others are visited before it.
Turns ==
  LET first == IF pass.phase = "idle" THEN nextPath ELSE pass.start IN
    \A p \in Paths : skipped[p] + Ahead(first, p) < PathCount

\* No two paths have or had the same file.
Apart ==
  /\ \A p \in Paths : state[p].inode <= link[p]
  /\ \A p, q \in Paths :
       p # q => /\ link[p] # link[q] /\ state[p].inode # link[q]
                /\ state[p].inode = state[q].inode => state[p].inode = None

\* Nothing was taken of a file that was not opened yet.
Unread ==
  /\ \A p \in Paths : state[p].inode # link[p] => taken[link[p]] = <<>>
  /\ \A i \in Inodes : (\A p \in Paths : link[p] < i) => taken[i] = <<>>

\* The bytes of a text up to an offset that follow the last newline, or the
\* knowledge that they are too many.
HeldOf(text, o, partial, discard) ==
  /\ o <= Len(text)
  /\ IF discard THEN partial = <<>> /\ o + 1 - LineBegin(text, o + 1) > SizeLimit
                ELSE partial = SubSeq(text, LineBegin(text, o + 1), o)

\* Of a file never cut, the reader holds just that.
Held ==
  \A p \in Paths :
    LET i == state[p].inode IN
      (i # None /\ cut[i] = 0) =>
        HeldOf(files[i], state[p].offset, state[p].partial, state[p].discard)

\* The invariant of the passes, and that of what is read.
Passing == TypeOK /\ InHand /\ Turns
Reads == Apart /\ Unread /\ Held /\ EveryLineOnce

-----------------------------------------------------------------------------
(***************************************************************************)
(* One chunk.                                                              *)
(***************************************************************************)

\* A chunk is what follows the offset, at most as long as it may be, and holds
\* no newline but at its end.
LEMMA ReadLineIs ==
  ASSUME NEW content \in Bytes, NEW offset \in Nat, NEW limit \in Nat \ {0}
  PROVE  LET chunk == ReadLine(content, offset, limit) IN
           /\ chunk \in Bytes /\ Len(chunk) \in Nat /\ Len(chunk) <= limit
           /\ chunk # <<>> =>
                /\ Len(chunk) > 0 /\ offset + Len(chunk) <= Len(content)
                /\ chunk = SubSeq(content, offset + 1, offset + Len(chunk))
                /\ \A j \in (offset + 1)..(offset + Len(chunk) - 1) : content[j] # Newline
                /\ chunk[Len(chunk)] = content[offset + Len(chunk)]
<1> DEFINE ends == {k \in (offset + 1)..Len(content) : content[k] = Newline}
           stops == ends \cup {Len(content), offset + limit}
           m == Min(stops)
           chunk == ReadLine(content, offset, limit)
<1>1. Len(content) \in Nat
  BY DEF Bytes
<1>2. stops \in SUBSET Nat /\ stops # {}
  BY <1>1
<1>3. m \in stops /\ \A n \in stops : m <= n
  <2> HIDE DEF stops
  <2> QED BY <1>2, MinIs
<1>4. m \in Nat /\ m <= Len(content) /\ m <= offset + limit
  BY <1>1, <1>2, <1>3
<1>5. chunk = SubSeq(content, offset + 1, m)
  BY DEF ReadLine
<1> HIDE DEF m, chunk
<1>6. CASE m <= offset
  <2>1. chunk = <<>>
    BY <1>1, <1>4, <1>5, <1>6 DEF Bytes
  <2> QED BY <2>1 DEF chunk, Bytes
<1>7. CASE m > offset
  <2>1. /\ chunk \in Bytes /\ Len(chunk) = m - offset
        /\ \A j \in 1..(m - offset) : chunk[j] = content[offset + j]
    BY <1>1, <1>4, <1>5, <1>7 DEF Bytes
  <2>2. \A j \in (offset + 1)..(m - 1) : content[j] # Newline
    <3>1. \A j \in (offset + 1)..(m - 1) : j \in (offset + 1)..Len(content) /\ ~(m <= j)
      BY <1>1, <1>4
    <3>2. \A j \in ends : m <= j
      BY <1>3
    <3> HIDE DEF stops
    <3> QED BY <3>1, <3>2
  <2>3. offset + Len(chunk) = m
    BY <1>4, <2>1
  <2> QED BY <1>4, <1>5, <1>7, <2>1, <2>2, <2>3 DEF chunk
<1> QED BY <1>4, <1>6, <1>7

\* What Feed makes of a chunk: at most one line, and never more than a line of
\* legal size is kept back.
LEMMA FeedIs ==
  ASSUME NEW s, s.partial \in Bytes, s.discard \in BOOLEAN, Len(s.partial) <= SizeLimit,
         NEW chunk \in Bytes, chunk # <<>>
  PROVE  /\ Feed(s, chunk).partial \in Bytes /\ Len(Feed(s, chunk).partial) <= SizeLimit
         /\ Feed(s, chunk).discard \in BOOLEAN
         /\ \/ Feed(s, chunk).lines = <<>>
            \/ \E line \in Bytes : Feed(s, chunk).lines = <<line>>
<1> DEFINE combined == s.partial \o chunk
<1>1. combined \in Bytes /\ Len(combined) \in Nat /\ Len(combined) > 0
  <2>1. s.partial \in Seq(Nat) /\ chunk \in Seq(Nat) /\ Len(chunk) > 0 /\ Len(s.partial) \in Nat
    <3>1. s.partial \in Seq(Nat) /\ chunk \in Seq(Nat)
      BY DEF Bytes
    <3> QED BY <3>1, EmptySeq
  <2>2. combined \in Seq(Nat) /\ Len(combined) = Len(s.partial) + Len(chunk)
    BY <2>1
  <2> QED BY <2>1, <2>2 DEF Bytes
<1>2. Front(combined) \in Bytes
  <2> HIDE DEF combined
  <2>1. combined \in Seq(Nat) /\ Len(combined) - 1 \in 0..Len(combined)
    BY <1>1 DEF Bytes
  <2> QED BY <2>1 DEF Front, Bytes
<1>3. SizeLimit \in Nat /\ <<>> \in Bytes /\ Len(<<>>) = 0
  BY ReaderAssumption DEF Bytes
<1>4. Complete(chunk) \in BOOLEAN
  BY DEF Complete
<1> HIDE DEF combined
<1>5. CASE s.discard
  <2>1. Feed(s, chunk) = [lines |-> <<>>, partial |-> s.partial, discard |-> ~Complete(chunk)]
    BY <1>5 DEF Feed
  <2> QED BY <1>4, <2>1
<1>6. CASE ~s.discard /\ Len(combined) > SizeLimit
  <2>1. Feed(s, chunk) = [lines |-> <<>>, partial |-> <<>>, discard |-> ~Complete(chunk)]
    BY <1>6 DEF Feed, combined
  <2> QED BY <1>3, <1>4, <2>1
<1>7. CASE ~s.discard /\ ~(Len(combined) > SizeLimit)
  <2>1. Len(combined) <= SizeLimit
    BY <1>1, <1>3, <1>7
  <2>2. CASE Complete(chunk)
    <3>1. Feed(s, chunk) = [lines |-> <<Front(combined)>>, partial |-> <<>>, discard |-> FALSE]
      BY <1>7, <2>2 DEF Feed, combined
    <3> QED BY <1>2, <1>3, <3>1
  <2>3. CASE ~Complete(chunk)
    <3>1. Feed(s, chunk) = [lines |-> <<>>, partial |-> combined, discard |-> FALSE]
      BY <1>7, <2>3 DEF Feed, combined
    <3> QED BY <1>1, <2>1, <3>1
  <2> QED BY <2>2, <2>3
<1> QED BY <1>5, <1>6, <1>7

-----------------------------------------------------------------------------
(***************************************************************************)
(* The passes: types, budgets and turns.                                   *)
(***************************************************************************)

StateType == [inode : Inodes \cup {None}, offset : Nat, partial : Bytes, discard : BOOLEAN]
PassType ==
  [phase : {"idle", "visit", "read"}, start : Paths, index : 0..PathCount, path : Paths,
   inode : Inodes \cup {None}, results : Seq(Line), bytesLeft : Nat]

\* The constants, without their assumption's name.
LEMMA Constants ==
  /\ PathCount \in Nat \ {0} /\ SizeLimit \in Nat \ {0} /\ MaxLines \in Nat \ {0}
  /\ MaxBytes \in Nat \ {0} /\ MaxRotations \in Nat
  /\ Paths = 0..(PathCount - 1) /\ Inodes = 1..(PathCount + MaxRotations) /\ None = 0 /\ Newline = 0
  /\ 0 \in Paths /\ Paths # {} /\ None \notin Inodes
BY ReaderAssumption DEF Paths, Inodes, None, Newline

LEMMA RestingIs ==
  /\ Resting \in PassType
  /\ Resting.phase = "idle" /\ Len(Resting.results) = 0 /\ Resting.results = <<>>
<1>1. <<>> \in Seq(Line) /\ Len(<<>>) = 0
  OBVIOUS
<1> QED BY <1>1, Constants DEF Resting, PassType

LEMMA Fresh_Type == Fresh \in StateType /\ Fresh.partial = <<>> /\ Fresh.offset = 0
                    /\ Fresh.discard = FALSE /\ Fresh.inode = None /\ Len(Fresh.partial) = 0
BY DEF Fresh, StateType, Bytes

LEMMA InitPasses == Init => Passing
<1> SUFFICES ASSUME Init PROVE Passing
  OBVIOUS
<1>1. TypeOK
  <2>1. <<>> \in Bytes /\ <<>> \in Seq(Bytes)
    BY DEF Bytes
  <2>2. files \in [Inodes -> Bytes] /\ cut \in [Inodes -> Nat] /\ taken \in [Inodes -> Seq(Bytes)]
    BY <2>1 DEF Init
  <2>3. link \in [Paths -> Inodes]
    BY Constants DEF Init
  <2>4. state \in [Paths -> StateType] /\ \A p \in Paths : Len(state[p].partial) <= SizeLimit
    BY Fresh_Type, Constants DEF Init
  <2>5. pass \in PassType /\ Len(pass.results) <= MaxLines
    BY RestingIs, Constants DEF Init
  <2>6. nextPath \in Paths /\ skipped \in [Paths -> Nat]
    BY Constants DEF Init
  <2> QED BY <2>2, <2>3, <2>4, <2>5, <2>6 DEF TypeOK, StateType, PassType
<1>2. InHand
  BY RestingIs DEF Init, InHand
<1>3. Turns
  BY RestingIs, Constants DEF Init, Turns, Ahead
<1> QED BY <1>1, <1>2, <1>3 DEF Passing

\* The writers of the files change nothing of the reader.
LEMMA LoggingPasses ==
  ASSUME Passing, Logging
  PROVE  Passing'
<1>1. UNCHANGED <<state, nextPath, pass, taken, skipped>>
  BY DEF Logging, Write, Rotate, Truncate, reader
<1>2. files' \in [Inodes -> Bytes] /\ link' \in [Paths -> Inodes] /\ cut' \in [Inodes -> Nat]
  <2>1. files \in [Inodes -> Bytes] /\ link \in [Paths -> Inodes] /\ cut \in [Inodes -> Nat]
    BY DEF Passing, TypeOK
  <2>2. ASSUME NEW p \in Paths, Write(p) PROVE <1>2!:
    <3>1. PICK b \in {Newline, Stamp(link[p])} : files' = [files EXCEPT ![link[p]] = Append(@, b)]
      BY <2>2 DEF Write
    <3>2. b \in Nat
      <4>1. link[p] \in Inodes /\ Len(files[link[p]]) \in Nat /\ cut[link[p]] \in Nat
        BY <2>1 DEF Bytes
      <4> QED BY <4>1, Constants DEF Stamp, Written
    <3>3. Append(files[link[p]], b) \in Bytes
      BY <2>1, <3>2 DEF Bytes
    <3> QED BY <2>1, <2>2, <3>1, <3>3 DEF Write
  <2>3. ASSUME NEW p \in Paths, Rotate(p) PROVE <1>2!:
    BY <2>1, <2>3 DEF Rotate
  <2>4. ASSUME NEW p \in Paths, Truncate(p) PROVE <1>2!:
    <3>1. link[p] \in Inodes /\ Written(link[p]) \in Nat /\ <<>> \in Bytes
      BY <2>1 DEF Bytes, Written
    <3> QED BY <2>1, <2>4, <3>1 DEF Truncate
  <2> QED BY <2>2, <2>3, <2>4 DEF Logging
<1>3. TypeOK'
  BY <1>1, <1>2 DEF Passing, TypeOK
<1>4. InHand'
  BY <1>1 DEF Passing, InHand, Spent, Current
<1>5. Turns'
  BY <1>1 DEF Passing, Turns
<1> QED BY <1>3, <1>4, <1>5 DEF Passing

LEMMA BeginPasses ==
  ASSUME Passing, BeginPass
  PROVE  Passing'
<1> DEFINE begun == [Resting EXCEPT !.phase = "visit", !.start = nextPath, !.bytesLeft = MaxBytes]
<1>1. pass.phase = "idle" /\ pass' = begun /\ UNCHANGED <<files, link, cut, state, nextPath, taken, skipped>>
  BY DEF BeginPass, disk
<1>2. nextPath \in Paths
  BY DEF Passing, TypeOK
<1>3. /\ begun \in PassType /\ begun.phase = "visit" /\ begun.start = nextPath /\ begun.index = 0
      /\ begun.bytesLeft = MaxBytes /\ Len(begun.results) = 0
  BY <1>2, RestingIs, Constants DEF Resting, PassType
<1> HIDE DEF begun
<1>4. TypeOK'
  <2>1. pass' \in PassType /\ Len(pass'.results) <= MaxLines
    BY <1>1, <1>3, Constants
  <2> QED BY <1>1, <2>1 DEF Passing, TypeOK, PassType
<1>5. InHand'
  <2>1. nextPath = (nextPath + 0) % PathCount
    <3>1. nextPath \in 0..(PathCount - 1) /\ 0 \in 0..PathCount
      BY <1>2, Constants
    <3>2. (nextPath + 0) % PathCount = IF nextPath + 0 < PathCount THEN nextPath + 0 ELSE nextPath + 0 - PathCount
      BY <3>1, Constants, AroundCircle
    <3>3. nextPath + 0 = nextPath /\ nextPath < PathCount
      BY <3>1, Constants
    <3> QED BY <3>2, <3>3
  <2>2. ~(Len(pass'.results) >= MaxLines \/ pass'.bytesLeft <= 0)
    BY <1>1, <1>3, Constants
  <2> QED BY <1>1, <1>3, <2>1, <2>2 DEF InHand, Spent
<1>6. Turns'
  BY <1>1, <1>3 DEF Passing, Turns
<1> QED BY <1>4, <1>5, <1>6 DEF Passing

\* The next path to visit is always one of the paths.
LEMMA CurrentIs ==
  ASSUME TypeOK, pass.index < PathCount
  PROVE  /\ Current \in Paths /\ (Current + 1) % PathCount \in Paths
         /\ (pass.start + (pass.index + 1)) % PathCount = (Current + 1) % PathCount
<1>1. pass.start \in 0..(PathCount - 1) /\ pass.index \in 0..PathCount
  BY Constants DEF TypeOK
<1> DEFINE s == pass.start
           k == pass.index
           N == PathCount
<1>2. N \in Nat \ {0} /\ s \in 0..(N - 1) /\ k \in 0..N /\ k < N
  BY <1>1, Constants
<1>3. Current = (s + k) % N
  BY DEF Current
<1> HIDE DEF s, k, N
<1>4. Current = IF s + k < N THEN s + k ELSE s + k - N
  BY <1>2, <1>3, AroundCircle
<1>5. (s + (k + 1)) % N = IF s + (k + 1) < N THEN s + (k + 1) ELSE s + (k + 1) - N
  <2>1. k + 1 \in 0..N
    BY <1>2
  <2> QED BY <1>2, <2>1, AroundCircle
<1>6. Current \in 0..(N - 1)
  BY <1>2, <1>4
<1>7. (Current + 1) % N = IF Current + 1 < N THEN Current + 1 ELSE Current + 1 - N
  <2>1. 1 \in 0..N
    BY <1>2
  <2> QED BY <1>2, <1>6, <2>1, AroundCircle
<1>8. (Current + 1) % N \in 0..(N - 1)
  BY <1>2, <1>6, <1>7
<1>9. (s + (k + 1)) % N = (Current + 1) % N
  <2>1. CASE s + k < N
    BY <1>2, <1>4, <1>5, <1>7, <2>1
  <2>2. CASE ~(s + k < N)
    BY <1>2, <1>4, <1>5, <1>7, <2>2
  <2> QED BY <2>1, <2>2
<1> QED BY <1>6, <1>8, <1>9, Constants DEF s, k, N

LEMMA VisitPasses ==
  ASSUME Passing, Visit
  PROVE  Passing'
<1> DEFINE p == Current
           i == link[Current]
<1>1. /\ pass.phase = "visit" /\ pass.index < PathCount /\ ~Spent
      /\ state' = [state EXCEPT ![p] = IF Replaced(@, i) THEN [Fresh EXCEPT !.inode = i] ELSE @]
      /\ pass' = [pass EXCEPT !.phase = "read", !.path = p, !.inode = i]
      /\ nextPath' = (Current + 1) % PathCount
      /\ UNCHANGED <<files, link, cut, taken, skipped>>
  BY DEF Visit, Advance, disk
<1>2. p \in Paths /\ nextPath' \in Paths /\ i \in Inodes
  BY <1>1, CurrentIs DEF Passing, TypeOK
<1>3. pass \in PassType /\ state \in [Paths -> StateType] /\ \A q \in Paths : Len(state[q].partial) <= SizeLimit
  BY DEF Passing, TypeOK, PassType, StateType
<1>4. pass' \in PassType /\ pass'.results = pass.results /\ pass'.phase = "read"
      /\ pass'.path = p /\ pass'.inode = i /\ pass'.start = pass.start /\ pass'.index = pass.index
  BY <1>1, <1>2, <1>3 DEF PassType
<1> DEFINE opened == IF Replaced(state[p], i) THEN [Fresh EXCEPT !.inode = i] ELSE state[p]
<1>5. opened \in StateType /\ Len(opened.partial) <= SizeLimit /\ opened.inode = i
  <2>1. [Fresh EXCEPT !.inode = i] \in StateType /\ Len([Fresh EXCEPT !.inode = i].partial) = 0
        /\ [Fresh EXCEPT !.inode = i].inode = i
    BY <1>2, Fresh_Type DEF StateType
  <2>2. ~Replaced(state[p], i) => state[p].inode = i
    BY DEF Replaced
  <2> QED BY <1>2, <1>3, <2>1, <2>2, Constants
<1>6. state' = [state EXCEPT ![p] = opened]
  BY <1>1
<1> HIDE DEF opened, p, i
<1>7. /\ state' \in [Paths -> StateType] /\ \A q \in Paths : Len(state'[q].partial) <= SizeLimit
      /\ state'[p].inode = i
  BY <1>2, <1>3, <1>5, <1>6
<1>8. TypeOK'
  BY <1>1, <1>2, <1>4, <1>7 DEF Passing, TypeOK, PassType, StateType
<1>9. Current' = Current
  BY <1>4 DEF Current
<1>10. InHand'
  BY <1>1, <1>2, <1>4, <1>7, <1>9, Constants DEF InHand, p
<1>11. Turns'
  BY <1>1, <1>4 DEF Passing, Turns
<1> QED BY <1>8, <1>10, <1>11 DEF Passing

LEMMA VisitFailsPasses ==
  ASSUME Passing, VisitFails
  PROVE  Passing'
<1>1. /\ pass.phase = "visit" /\ pass.index < PathCount /\ ~Spent
      /\ pass' = [pass EXCEPT !.index = @ + 1]
      /\ nextPath' = (Current + 1) % PathCount
      /\ UNCHANGED <<files, link, cut, state, taken, skipped>>
  BY DEF VisitFails, Advance, disk
<1>2. pass \in PassType
  BY DEF Passing, TypeOK, PassType
<1>3. pass' \in PassType /\ pass'.results = pass.results /\ pass'.phase = "visit"
      /\ pass'.start = pass.start /\ pass'.index = pass.index + 1
  <2>1. pass.index \in 0..PathCount /\ pass.index + 1 \in 0..PathCount
    BY <1>1, <1>2, Constants DEF PassType
  <2> QED BY <1>1, <1>2, <2>1 DEF PassType
<1>4. nextPath' \in Paths /\ nextPath' = (pass'.start + pass'.index) % PathCount
  BY <1>1, <1>3, CurrentIs DEF Passing
<1>5. TypeOK'
  BY <1>1, <1>3, <1>4 DEF Passing, TypeOK, PassType
<1>6. InHand'
  BY <1>2, <1>3, <1>4, Constants DEF InHand, PassType
<1>7. Turns'
  BY <1>1, <1>3 DEF Passing, Turns
<1> QED BY <1>5, <1>6, <1>7 DEF Passing

LEMMA LeaveFilePasses ==
  ASSUME Passing, LeaveFile \/ ReadFails
  PROVE  Passing'
<1>1. /\ pass.phase = "read" /\ pass' = [pass EXCEPT !.phase = "visit", !.index = @ + 1]
      /\ UNCHANGED <<files, link, cut, state, nextPath, taken, skipped>>
  BY DEF LeaveFile, ReadFails, NextFile, disk
<1>2. pass \in PassType /\ pass.index < PathCount /\ nextPath = (Current + 1) % PathCount
  BY <1>1 DEF Passing, TypeOK, PassType, InHand
<1>3. pass' \in PassType /\ pass'.results = pass.results /\ pass'.phase = "visit"
      /\ pass'.start = pass.start /\ pass'.index = pass.index + 1
  <2>1. pass.index \in 0..PathCount /\ pass.index + 1 \in 0..PathCount
    BY <1>1, <1>2, Constants DEF PassType
  <2> QED BY <1>1, <1>2, <2>1 DEF PassType
<1>4. nextPath' = (pass'.start + pass'.index) % PathCount
  BY <1>1, <1>2, <1>3, CurrentIs DEF Passing
<1>5. TypeOK'
  BY <1>1, <1>3 DEF Passing, TypeOK, PassType
<1>6. InHand'
  BY <1>2, <1>3, <1>4, Constants DEF InHand, PassType
<1>7. Turns'
  BY <1>1, <1>3 DEF Passing, Turns
<1> QED BY <1>5, <1>6, <1>7 DEF Passing

-----------------------------------------------------------------------------
(***************************************************************************)
(* Reading a chunk.                                                        *)
(***************************************************************************)

\* What Feed makes of the next chunk of the file in hand.
Fed == Feed(state[pass.path], Chunk)

\* A chunk adds nothing or one line to the results.
LEMMA ResultsGrow ==
  ASSUME NEW lines, NEW before \in Seq(Line), NEW i \in Inodes,
         lines = <<>> \/ \E line \in Bytes : lines = <<line>>
  PROVE  LET after == before \o [k \in DOMAIN lines |-> [inode |-> i, text |-> lines[k]]] IN
           /\ lines = <<>> => after = before
           /\ lines # <<>> => /\ lines[1] \in Bytes /\ [inode |-> i, text |-> lines[1]] \in Line
                              /\ lines = <<lines[1]>>
                              /\ after = Append(before, [inode |-> i, text |-> lines[1]])
<1> DEFINE added == [k \in DOMAIN lines |-> [inode |-> i, text |-> lines[k]]]
<1>1. CASE lines = <<>>
  <2>1. added = <<>>
    BY <1>1
  <2> HIDE DEF added
  <2>2. before \o added = before
    BY <2>1
  <2> QED BY <1>1, <2>2 DEF added
<1>2. CASE lines # <<>>
  <2>1. PICK line \in Bytes : lines = <<line>>
    BY <1>2
  <2>2. lines # <<>> /\ DOMAIN lines = 1..1 /\ lines[1] = line /\ lines = <<lines[1]>>
    BY <2>1
  <2>3. added = <<[inode |-> i, text |-> line]>>
    BY <2>2
  <2>4. [inode |-> i, text |-> line] \in Line
    BY DEF Line
  <2> HIDE DEF added
  <2>5. before \o added = Append(before, [inode |-> i, text |-> line])
    BY <2>3, <2>4
  <2> QED BY <2>2, <2>4, <2>5 DEF added
<1> QED BY <1>1, <1>2

\* The step, in the terms of ReadLineIs and FeedIs.
LEMMA ReadChunkIs ==
  ASSUME Passing, ReadChunk
  PROVE  /\ pass.phase = "read" /\ ~Spent /\ Chunk # <<>>
         /\ pass.path \in Paths /\ pass.inode \in Inodes /\ pass.inode = state[pass.path].inode
         /\ Chunk = ReadLine(files[pass.inode], state[pass.path].offset, Min({SizeLimit, pass.bytesLeft}))
         /\ Min({SizeLimit, pass.bytesLeft}) \in Nat \ {0}
         /\ Min({SizeLimit, pass.bytesLeft}) <= pass.bytesLeft
         /\ Chunk \in Bytes /\ Len(Chunk) \in Nat /\ Len(Chunk) <= pass.bytesLeft
         /\ state' = [state EXCEPT ![pass.path].offset = @ + Len(Chunk),
                                   ![pass.path].partial = Fed.partial,
                                   ![pass.path].discard = Fed.discard]
         /\ taken' = [taken EXCEPT ![pass.inode] = @ \o Fed.lines]
         /\ pass' = [pass EXCEPT !.bytesLeft = @ - Len(Chunk),
                                 !.results = @ \o [k \in DOMAIN Fed.lines |->
                                                     [inode |-> pass.inode, text |-> Fed.lines[k]]]]
         /\ UNCHANGED <<files, link, cut, nextPath, skipped>>
         /\ Fed.partial \in Bytes /\ Len(Fed.partial) <= SizeLimit /\ Fed.discard \in BOOLEAN
         /\ Fed.lines = <<>> \/ \E line \in Bytes : Fed.lines = <<line>>
<1>1. /\ pass.phase = "read" /\ ~Spent /\ Chunk # <<>>
      /\ state' = [state EXCEPT ![pass.path].offset = @ + Len(Chunk),
                                ![pass.path].partial = Fed.partial,
                                ![pass.path].discard = Fed.discard]
      /\ taken' = [taken EXCEPT ![pass.inode] = @ \o Fed.lines]
      /\ pass' = [pass EXCEPT !.bytesLeft = @ - Len(Chunk),
                              !.results = @ \o [k \in DOMAIN Fed.lines |->
                                                  [inode |-> pass.inode, text |-> Fed.lines[k]]]]
      /\ UNCHANGED <<files, link, cut, nextPath, skipped>>
  BY DEF ReadChunk, Fed, disk
<1>2. pass \in PassType /\ state \in [Paths -> StateType] /\ files \in [Inodes -> Bytes]
      /\ \A q \in Paths : Len(state[q].partial) <= SizeLimit
  BY DEF Passing, TypeOK, PassType, StateType
<1>3. /\ pass.path \in Paths /\ pass.inode = state[pass.path].inode /\ pass.inode # None
      /\ pass.inode \in Inodes
  BY <1>1, <1>2 DEF Passing, InHand, PassType
<1>4. pass.bytesLeft \in Nat /\ pass.bytesLeft # 0
  BY <1>1, <1>2 DEF PassType, Spent
<1> DEFINE limit == Min({SizeLimit, pass.bytesLeft})
<1>5. limit \in Nat \ {0} /\ limit <= pass.bytesLeft
  <2>1. {SizeLimit, pass.bytesLeft} \in SUBSET Nat /\ {SizeLimit, pass.bytesLeft} # {}
    BY <1>4, Constants
  <2>2. limit \in {SizeLimit, pass.bytesLeft} /\ \A n \in {SizeLimit, pass.bytesLeft} : limit <= n
    BY <2>1, MinIs
  <2> HIDE DEF limit
  <2> QED BY <2>2, <1>4, Constants
<1>6. Chunk = ReadLine(files[pass.inode], state[pass.path].offset, limit)
  BY DEF Chunk
<1> HIDE DEF limit
<1>7. Chunk \in Bytes /\ Len(Chunk) \in Nat /\ Len(Chunk) <= limit
  <2>1. files[pass.inode] \in Bytes /\ state[pass.path].offset \in Nat
    BY <1>2, <1>3 DEF StateType
  <2> QED BY <1>5, <1>6, <2>1, ReadLineIs
<1>8. /\ Fed.partial \in Bytes /\ Len(Fed.partial) <= SizeLimit /\ Fed.discard \in BOOLEAN
      /\ Fed.lines = <<>> \/ \E line \in Bytes : Fed.lines = <<line>>
  <2>1. /\ state[pass.path].partial \in Bytes /\ state[pass.path].discard \in BOOLEAN
        /\ Len(state[pass.path].partial) <= SizeLimit
    BY <1>2, <1>3 DEF StateType
  <2> QED BY <1>1, <1>7, <2>1, FeedIs DEF Fed
<1>9. Len(Chunk) <= pass.bytesLeft
  BY <1>4, <1>5, <1>7
<1> QED BY <1>1, <1>3, <1>5, <1>6, <1>7, <1>8, <1>9 DEF limit

LEMMA ReadChunkPasses ==
  ASSUME Passing, ReadChunk
  PROVE  Passing'
<1> DEFINE p == pass.path
           i == pass.inode
           results == pass.results \o [k \in DOMAIN Fed.lines |-> [inode |-> i, text |-> Fed.lines[k]]]
           left == pass.bytesLeft - Len(Chunk)
<1>1. /\ p \in Paths /\ i \in Inodes /\ pass.phase = "read" /\ ~Spent
      /\ Len(Chunk) \in Nat /\ Len(Chunk) <= pass.bytesLeft
      /\ state' = [state EXCEPT ![p].offset = @ + Len(Chunk), ![p].partial = Fed.partial,
                                ![p].discard = Fed.discard]
      /\ taken' = [taken EXCEPT ![i] = @ \o Fed.lines]
      /\ pass' = [pass EXCEPT !.bytesLeft = left, !.results = results]
      /\ UNCHANGED <<files, link, cut, nextPath, skipped>>
  BY ReadChunkIs
<1>2. /\ Fed.partial \in Bytes /\ Len(Fed.partial) <= SizeLimit /\ Fed.discard \in BOOLEAN
      /\ Fed.lines = <<>> \/ \E line \in Bytes : Fed.lines = <<line>>
  BY ReadChunkIs
<1>3. pass \in PassType /\ state \in [Paths -> StateType] /\ taken \in [Inodes -> Seq(Bytes)]
      /\ \A q \in Paths : Len(state[q].partial) <= SizeLimit
  BY DEF Passing, TypeOK, PassType, StateType
<1>4. results \in Seq(Line) /\ Len(results) <= MaxLines
  <2>1. pass.results \in Seq(Line) /\ Len(pass.results) < MaxLines
    BY <1>1, <1>3, Constants DEF Spent, PassType
  <2>2. results = pass.results \/ \E line \in Line : results = Append(pass.results, line)
    <3>1. CASE Fed.lines = <<>>
      <4>1. results = pass.results
        BY <1>1, <1>2, <2>1, <3>1, ResultsGrow
      <4> HIDE DEF results
      <4> QED BY <4>1
    <3>2. CASE Fed.lines # <<>>
      <4> DEFINE line == [inode |-> i, text |-> Fed.lines[1]]
      <4>1. line \in Line /\ results = Append(pass.results, line)
        BY <1>1, <1>2, <2>1, <3>2, ResultsGrow
      <4> HIDE DEF results, line
      <4> QED BY <4>1
    <3> QED BY <3>1, <3>2
  <2> HIDE DEF results
  <2>3. ASSUME NEW line \in Line, results = Append(pass.results, line)
        PROVE  results \in Seq(Line) /\ Len(results) = Len(pass.results) + 1
    BY <2>1, <2>3
  <2>4. Len(pass.results) \in Nat /\ MaxLines \in Nat
    BY <2>1, Constants
  <2> QED BY <2>1, <2>2, <2>3, <2>4
<1>5. left \in Nat
  BY <1>1, <1>3 DEF PassType
<1> HIDE DEF results, left
<1>6. pass' \in PassType /\ pass'.results = results /\ pass'.phase = "read" /\ pass'.start = pass.start
      /\ pass'.index = pass.index /\ pass'.path = p /\ pass'.inode = i
  BY <1>1, <1>3, <1>4, <1>5 DEF PassType
<1>7. /\ state' \in [Paths -> StateType] /\ \A q \in Paths : Len(state'[q].partial) <= SizeLimit
      /\ state'[p].inode = state[p].inode
  <2> DEFINE fed == [state[p] EXCEPT !.offset = @ + Len(Chunk), !.partial = Fed.partial, !.discard = Fed.discard]
  <2>1. fed \in StateType /\ fed.partial = Fed.partial /\ fed.inode = state[p].inode
    <3>1. state[p] \in StateType /\ state[p].offset + Len(Chunk) \in Nat
      BY <1>1, <1>3 DEF StateType
    <3> QED BY <1>2, <3>1 DEF StateType
  <2>2. state' = [state EXCEPT ![p] = fed]
    BY <1>1, <1>3
  <2> HIDE DEF fed
  <2> QED BY <1>1, <1>2, <1>3, <2>1, <2>2
<1>8. taken' \in [Inodes -> Seq(Bytes)]
  <2>1. taken[i] \in Seq(Bytes) /\ Fed.lines \in Seq(Bytes)
    <3>1. Fed.lines \in Seq(Bytes)
      <4>1. CASE Fed.lines = <<>>
        BY <4>1
      <4>2. CASE Fed.lines # <<>>
        <5>1. PICK line \in Bytes : Fed.lines = <<line>>
          BY <1>2, <4>2
        <5>2. <<line>> \in Seq(Bytes)
          OBVIOUS
        <5> QED BY <5>1, <5>2
      <4> QED BY <4>1, <4>2
    <3> QED BY <1>1, <1>3, <3>1
  <2>2. taken[i] \o Fed.lines \in Seq(Bytes)
    BY <2>1
  <2> QED BY <1>1, <1>3, <2>2
<1>9. TypeOK'
  <2>1. Len(pass'.results) <= MaxLines
    BY <1>4, <1>6
  <2> QED BY <1>1, <1>6, <1>7, <1>8, <2>1 DEF Passing, TypeOK, PassType, StateType
<1>10. Current' = Current
  BY <1>6 DEF Current
<1>11. InHand'
  BY <1>1, <1>6, <1>7, <1>10 DEF Passing, InHand
<1>12. Turns'
  BY <1>1, <1>6 DEF Passing, Turns
<1> QED BY <1>9, <1>11, <1>12 DEF Passing

\* A pass that visited the first paths, and the turns it leaves to the others.
LEMMA TurnTaken ==
  ASSUME NEW s \in Paths, NEW k \in 1..PathCount, NEW p \in Paths, NEW next,
         next = (s + k) % PathCount
  PROVE  /\ Ahead(s, p) \in 0..(PathCount - 1) /\ Ahead(next, p) \in 0..(PathCount - 1)
         /\ Ahead(s, p) >= k => Ahead(next, p) + 1 <= Ahead(s, p)
         /\ Ahead(s, p) < k => p \in {(s + j) % PathCount : j \in 0..(k - 1)}
<1> DEFINE N == PathCount
           far(first) == IF first <= p THEN p - first ELSE p + N - first
<1>1. N \in Nat \ {0} /\ s \in 0..(N - 1) /\ k \in 1..N /\ k \in 0..N /\ p \in 0..(N - 1) /\ next = (s + k) % N
  BY Constants
<1>2. \A first : Ahead(first, p) = far(first)
  BY DEF Ahead
<1> HIDE DEF N
<1>3. next = IF s + k < N THEN s + k ELSE s + k - N
  BY <1>1, AroundCircle
<1>4. next \in 0..(N - 1)
  BY <1>1, <1>3
<1>5. far(s) \in 0..(N - 1) /\ far(next) \in 0..(N - 1)
  BY <1>1, <1>4
<1>6. ASSUME far(s) >= k PROVE far(next) + 1 <= far(s)
  <2>1. CASE s + k < N
    BY <1>1, <1>3, <1>6, <2>1
  <2>2. CASE ~(s + k < N)
    BY <1>1, <1>3, <1>6, <2>2
  <2> QED BY <2>1, <2>2
<1>7. ASSUME far(s) < k PROVE p \in {(s + j) % N : j \in 0..(k - 1)}
  <2>1. far(s) \in 0..(k - 1) /\ far(s) \in 0..N
    BY <1>1, <1>5, <1>7
  <2>2. (s + far(s)) % N = IF s + far(s) < N THEN s + far(s) ELSE s + far(s) - N
    <3> HIDE DEF far
    <3> QED BY <1>1, <2>1, AroundCircle
  <2>3. (s + far(s)) % N = p
    BY <1>1, <2>2
  <2> HIDE DEF far
  <2> QED BY <2>1, <2>3
<1> HIDE DEF far
<1> QED BY <1>2, <1>5, <1>6, <1>7 DEF N

LEMMA EndPassPasses ==
  ASSUME Passing, EndPass
  PROVE  Passing'
<1> DEFINE visited == {(pass.start + k) % PathCount : k \in 0..(pass.index - 1)}
<1>1. /\ pass.phase = "visit" /\ (Spent \/ pass.index = PathCount)
      /\ skipped' = [p \in Paths |-> IF p \in visited THEN 0 ELSE skipped[p] + 1]
      /\ pass' = Resting
      /\ UNCHANGED <<files, link, cut, state, nextPath, taken>>
  BY DEF EndPass, disk
<1>2. pass \in PassType /\ skipped \in [Paths -> Nat]
  BY DEF Passing, TypeOK, PassType
<1>3. nextPath = (pass.start + pass.index) % PathCount /\ pass.index # 0
  <2>1. nextPath = (pass.start + pass.index) % PathCount /\ (pass.index = 0 => ~Spent)
    BY <1>1 DEF Passing, InHand
  <2> QED BY <1>1, <2>1, Constants
<1>4. pass.index \in 1..PathCount /\ pass.start \in Paths
  BY <1>2, <1>3 DEF PassType
<1> HIDE DEF visited
<1>5. TypeOK'
  <2>1. skipped' \in [Paths -> Nat]
    BY <1>1, <1>2
  <2>2. pass' \in PassType /\ Len(pass'.results) <= MaxLines
    BY <1>1, RestingIs, Constants
  <2> QED BY <1>1, <2>1, <2>2 DEF Passing, TypeOK, PassType
<1>6. InHand'
  BY <1>1, RestingIs DEF InHand
<1>7. Turns'
  <2> SUFFICES ASSUME NEW p \in Paths PROVE skipped'[p] + Ahead(nextPath, p) < PathCount
    BY <1>1, RestingIs DEF Turns, Ahead
  <2>1. skipped[p] \in Nat /\ skipped[p] + Ahead(pass.start, p) < PathCount
    BY <1>1, <1>2 DEF Passing, Turns
  <2>2. /\ Ahead(pass.start, p) \in 0..(PathCount - 1) /\ Ahead(nextPath, p) \in 0..(PathCount - 1)
        /\ Ahead(pass.start, p) >= pass.index => Ahead(nextPath, p) + 1 <= Ahead(pass.start, p)
        /\ Ahead(pass.start, p) < pass.index => p \in visited
    BY <1>3, <1>4, TurnTaken DEF visited
  <2>3. skipped'[p] = IF p \in visited THEN 0 ELSE skipped[p] + 1
    BY <1>1
  <2>4. CASE p \in visited
    BY <2>2, <2>3, <2>4, Constants
  <2>5. CASE p \notin visited
    <3>1. Ahead(nextPath, p) + 1 <= Ahead(pass.start, p)
      BY <1>4, <2>2, <2>5, Constants
    <3> QED BY <2>1, <2>2, <2>3, <2>5, <3>1, Constants
  <2> QED BY <2>4, <2>5
<1> QED BY <1>5, <1>6, <1>7 DEF Passing

\* No step of the reader or of the writers leaves the invariant of the passes.
LEMMA StepPasses == Passing /\ [Next]_vars => Passing'
<1> SUFFICES ASSUME Passing, [Next]_vars PROVE Passing'
  OBVIOUS
<1>1. CASE Logging
  BY <1>1, LoggingPasses
<1>2. CASE BeginPass
  BY <1>2, BeginPasses
<1>3. CASE Visit
  BY <1>3, VisitPasses
<1>4. CASE VisitFails
  BY <1>4, VisitFailsPasses
<1>5. CASE ReadChunk
  BY <1>5, ReadChunkPasses
<1>6. CASE LeaveFile \/ ReadFails
  BY <1>6, LeaveFilePasses
<1>7. CASE EndPass
  BY <1>7, EndPassPasses
<1>8. CASE UNCHANGED vars
  <2>1. UNCHANGED <<files, link, cut, state, nextPath, pass, taken, skipped>>
    BY <1>8 DEF vars, disk, reader
  <2>2. TypeOK'
    BY <2>1 DEF Passing, TypeOK
  <2>3. InHand' /\ Turns'
    BY <2>1 DEF Passing, InHand, Turns, Spent, Current
  <2> QED BY <2>2, <2>3 DEF Passing
<1> QED BY <1>1, <1>2, <1>3, <1>4, <1>5, <1>6, <1>7, <1>8 DEF Next, Reading

\* The inductive invariant of the passes: where a pass stands, and that no path is
\* passed over more often than others are visited before its turn.
THEOREM PassesInvariant == Spec => []Passing
<1>1. Init => Passing
  BY InitPasses
<1>2. Passing /\ [Next]_vars => Passing'
  BY StepPasses
<1> QED BY <1>1, <1>2, PTL DEF Spec

\* The types, and the memory of the reader: at most one line of legal size is
\* held of each file, and a pass returns no more lines than it may.
THEOREM MemoryBounded == Spec => []TypeOK
<1>1. Passing => TypeOK
  BY DEF Passing
<1> QED BY <1>1, PassesInvariant, PTL

\* Each configured file is visited at least once in any PathCount passes that
\* end, whatever the budgets leave of a pass and however many files cannot be
\* opened.
THEOREM EveryPathVisited == Spec => []NoPathStarves
<1>1. Passing => NoPathStarves
  <2> SUFFICES ASSUME Passing, NEW p \in Paths PROVE skipped[p] < PathCount
    BY DEF NoPathStarves
  <2>1. skipped[p] \in Nat /\ nextPath \in Paths /\ pass.start \in Paths
    BY DEF Passing, TypeOK
  <2>2. PICK first \in Paths : skipped[p] + Ahead(first, p) < PathCount
    BY <2>1 DEF Passing, Turns
  <2>3. Ahead(first, p) \in Nat
    BY Constants DEF Ahead
  <2> QED BY <2>1, <2>2, <2>3, Constants
<1> QED BY <1>1, PassesInvariant, PTL

-----------------------------------------------------------------------------
(***************************************************************************)
(* Texts and their lines.                                                  *)
(***************************************************************************)

\* Where a line begins: after the last newline, or at the start.
LEMMA BeginIs ==
  ASSUME NEW text, NEW k \in Nat \ {0}
  PROVE  /\ LineBegin(text, k) \in 1..k
         /\ LineBegin(text, k) # 1 => text[LineBegin(text, k) - 1] = Newline
         /\ \A j \in LineBegin(text, k)..(k - 1) : text[j] # Newline
<1> DEFINE S == {0} \cup {j \in 1..(k - 1) : text[j] = Newline}
           m == Max(S)
<1>1. S \in SUBSET (0..(k - 1)) /\ S # {} /\ k - 1 \in Nat
  OBVIOUS
<1>2. m \in S /\ \A n \in S : m >= n
  <2> HIDE DEF S
  <2> QED BY <1>1, MaxIs
<1>3. LineBegin(text, k) = m + 1
  BY DEF LineBegin
<1> HIDE DEF m
<1>4. m \in 0..(k - 1) /\ (m # 0 => text[m] = Newline)
  BY <1>1, <1>2
<1>5. \A j \in (m + 1)..(k - 1) : text[j] # Newline
  <2> SUFFICES ASSUME NEW j \in (m + 1)..(k - 1), text[j] = Newline PROVE FALSE
    OBVIOUS
  <2>1. j \in S
    BY <1>4
  <2>2. m >= j
    BY <1>2, <2>1
  <2> QED BY <1>4, <2>2
<1>6. (m + 1) - 1 = m
  BY <1>4
<1> QED BY <1>3, <1>4, <1>5, <1>6

\* There is one such place.
LEMMA BeginUnique ==
  ASSUME NEW text, NEW k \in Nat \ {0}, NEW b \in 1..k,
         b # 1 => text[b - 1] = Newline,
         \A j \in b..(k - 1) : text[j] # Newline
  PROVE  LineBegin(text, k) = b
<1> DEFINE a == LineBegin(text, k)
<1>1. /\ a \in 1..k
      /\ a # 1 => text[a - 1] = Newline
      /\ \A j \in a..(k - 1) : text[j] # Newline
  BY BeginIs
<1> HIDE DEF a
<1>2. ~(a < b)
  <2> SUFFICES ASSUME a < b PROVE FALSE
    OBVIOUS
  <2>1. b # 1 /\ b - 1 \in a..(k - 1)
    BY <1>1
  <2> QED BY <1>1, <2>1
<1>3. ~(b < a)
  <2> SUFFICES ASSUME b < a PROVE FALSE
    OBVIOUS
  <2>1. a # 1 /\ a - 1 \in b..(k - 1)
    BY <1>1
  <2> QED BY <1>1, <2>1
<1> QED BY <1>1, <1>2, <1>3 DEF a

\* Only the bytes before matter.
LEMMA BeginAgrees ==
  ASSUME NEW text, NEW other, NEW k \in Nat \ {0}, \A j \in 1..(k - 1) : text[j] = other[j]
  PROVE  LineBegin(other, k) = LineBegin(text, k)
<1> DEFINE b == LineBegin(text, k)
<1>1. /\ b \in 1..k
      /\ b # 1 => text[b - 1] = Newline
      /\ \A j \in b..(k - 1) : text[j] # Newline
  BY BeginIs
<1> HIDE DEF b
<1>2. b # 1 => other[b - 1] = Newline
  <2> SUFFICES ASSUME b # 1 PROVE other[b - 1] = Newline
    OBVIOUS
  <2>1. b - 1 \in 1..(k - 1)
    BY <1>1
  <2> QED BY <1>1, <2>1
<1>3. \A j \in b..(k - 1) : other[j] # Newline
  <2>1. \A j \in b..(k - 1) : j \in 1..(k - 1)
    BY <1>1
  <2> QED BY <1>1, <2>1
<1>4. LineBegin(other, k) = b
  BY <1>1, <1>2, <1>3, BeginUnique
<1> QED BY <1>4 DEF b

\* A newline ends the line; another byte is of it.
LEMMA BeginStep ==
  ASSUME NEW text, NEW k \in Nat \ {0}
  PROVE  LineBegin(text, k + 1) = IF text[k] = Newline THEN k + 1 ELSE LineBegin(text, k)
<1>1. CASE text[k] = Newline
  <2>1. k + 1 \in 1..(k + 1) /\ (k + 1) - 1 = k /\ k + 1 \in Nat \ {0}
    OBVIOUS
  <2>2. \A j \in (k + 1)..((k + 1) - 1) : text[j] # Newline
    OBVIOUS
  <2>3. LineBegin(text, k + 1) = k + 1
    BY <1>1, <2>1, <2>2, BeginUnique
  <2> QED BY <1>1, <2>3
<1>2. CASE text[k] # Newline
  <2> DEFINE b == LineBegin(text, k)
  <2>1. /\ b \in 1..k
        /\ b # 1 => text[b - 1] = Newline
        /\ \A j \in b..(k - 1) : text[j] # Newline
    BY BeginIs
  <2> HIDE DEF b
  <2>2. b \in 1..(k + 1) /\ k + 1 \in Nat \ {0}
    BY <2>1
  <2>3. \A j \in b..((k + 1) - 1) : text[j] # Newline
    <3>1. \A j \in b..((k + 1) - 1) : j = k \/ j \in b..(k - 1)
      BY <2>1
    <3> QED BY <1>2, <2>1, <3>1
  <2>4. LineBegin(text, k + 1) = b
    BY <2>1, <2>2, <2>3, BeginUnique
  <2> QED BY <1>2, <2>4 DEF b
<1> QED BY <1>1, <1>2

\* A part of the first bytes of a text is that part of the text.
LEMMA PartOfPart ==
  ASSUME NEW text \in Bytes, NEW n \in Nat, n <= Len(text),
         NEW a \in Nat \ {0}, NEW b \in Nat, b <= n
  PROVE  SubSeq(SubSeq(text, 1, n), a, b) = SubSeq(text, a, b)
<1> DEFINE first == SubSeq(text, 1, n)
<1>1. first \in Bytes /\ Len(first) = n /\ \A j \in 1..n : first[j] = text[j]
  BY DEF Bytes
<1> HIDE DEF first
<1>2. SubSeq(first, a, b) = [j \in 1..(b - a + 1) |-> first[a + j - 1]]
  BY <1>1 DEF Bytes
<1>3. SubSeq(text, a, b) = [j \in 1..(b - a + 1) |-> text[a + j - 1]]
  BY DEF Bytes
<1>4. \A j \in 1..(b - a + 1) : a + j - 1 \in 1..n
  OBVIOUS
<1> QED BY <1>1, <1>2, <1>3, <1>4 DEF first

\* Two parts next to each other.
LEMMA PartsJoin ==
  ASSUME NEW text \in Bytes, NEW a \in Nat \ {0}, NEW b \in Nat, NEW c \in Nat,
         a <= b + 1, b <= c, c <= Len(text)
  PROVE  SubSeq(text, a, b) \o SubSeq(text, b + 1, c) = SubSeq(text, a, c)
<1> DEFINE left == SubSeq(text, a, b)
           right == SubSeq(text, b + 1, c)
           whole == SubSeq(text, a, c)
<1>1. /\ left \in Bytes /\ Len(left) = b - a + 1 /\ \A j \in 1..(b - a + 1) : left[j] = text[a + j - 1]
  BY DEF Bytes
<1>2. /\ right \in Bytes /\ Len(right) = c - b /\ \A j \in 1..(c - b) : right[j] = text[b + j]
  BY DEF Bytes
<1>3. /\ whole \in Bytes /\ Len(whole) = c - a + 1 /\ \A j \in 1..(c - a + 1) : whole[j] = text[a + j - 1]
  BY DEF Bytes
<1> HIDE DEF left, right, whole
<1>4. left \o right \in Bytes /\ Len(left \o right) = Len(whole)
  BY <1>1, <1>2, <1>3 DEF Bytes
<1>5. \A j \in 1..Len(whole) : (left \o right)[j] = whole[j]
  <2> SUFFICES ASSUME NEW j \in 1..(c - a + 1) PROVE (left \o right)[j] = whole[j]
    BY <1>3
  <2>1. CASE j <= b - a + 1
    BY <1>1, <1>2, <1>3, <2>1 DEF Bytes
  <2>2. CASE ~(j <= b - a + 1)
    <3>1. j - (b - a + 1) \in 1..(c - b)
      BY <2>2
    <3>2. (left \o right)[j] = right[j - (b - a + 1)]
      <4>1. left \in Seq(Nat) /\ right \in Seq(Nat) /\ j \in (Len(left) + 1)..(Len(left) + Len(right))
        BY <1>1, <1>2, <2>2 DEF Bytes
      <4>2. (left \o right)[j] = right[j - Len(left)]
        BY <4>1, ConcatProperties
      <4> QED BY <1>1, <4>2
    <3>3. right[j - (b - a + 1)] = text[b + (j - (b - a + 1))]
      BY <1>2, <3>1
    <3>4. b + (j - (b - a + 1)) = a + j - 1
      OBVIOUS
    <3> QED BY <1>3, <3>2, <3>3, <3>4
  <2> QED BY <2>1, <2>2
<1> QED BY <1>3, <1>4, <1>5, SeqEqual DEF Bytes, left, right, whole

\* A part without its last byte.
LEMMA PartFront ==
  ASSUME NEW text \in Bytes, NEW a \in Nat \ {0}, NEW c \in Nat, a <= c, c <= Len(text)
  PROVE  Front(SubSeq(text, a, c)) = SubSeq(text, a, c - 1)
<1> DEFINE whole == SubSeq(text, a, c)
<1>1. whole \in Bytes /\ Len(whole) = c - a + 1 /\ \A j \in 1..(c - a + 1) : whole[j] = text[a + j - 1]
  <2>1. text \in Seq(Nat) /\ Len(text) \in Nat
    BY DEF Bytes
  <2>2. SubSeq(text, a, c) \in Seq(Nat) /\ Len(SubSeq(text, a, c)) = c - a + 1
    BY <2>1
  <2>3. \A j \in 1..(c - a + 1) : SubSeq(text, a, c)[j] = text[a + j - 1]
    BY <2>1
  <2> QED BY <2>2, <2>3 DEF Bytes
<1> HIDE DEF whole
<1>2. Front(whole) = [j \in 1..(c - a) |-> whole[j]]
  BY <1>1 DEF Front, Bytes
<1>3. SubSeq(text, a, c - 1) = [j \in 1..(c - a) |-> text[a + j - 1]]
  BY DEF Bytes
<1> QED BY <1>1, <1>2, <1>3 DEF whole

\* No text has no lines.
LEMMA LinesOfNothing ==
  ASSUME NEW text, Len(text) = 0
  PROVE  Lines(text) = <<>>
<1>1. Len([k \in 1..Len(text) |-> SubSeq(text, LineBegin(text, k), k - 1)]) = 0
  OBVIOUS
<1> QED BY <1>1, PickedOfNothing DEF Lines

\* One more byte of a text ends a line that can be delivered, or does not.
LEMMA LinesStep ==
  ASSUME NEW text \in Bytes, NEW n \in Nat, n + 1 <= Len(text)
  PROVE  Lines(SubSeq(text, 1, n + 1)) =
           IF text[n + 1] = Newline /\ (n + 1) + 1 - LineBegin(text, n + 1) <= SizeLimit
             THEN Append(Lines(SubSeq(text, 1, n)), SubSeq(text, LineBegin(text, n + 1), n))
             ELSE Lines(SubSeq(text, 1, n))
<1> DEFINE t == SubSeq(text, 1, n)
           u == SubSeq(text, 1, n + 1)
           Kept(x) == {k \in DOMAIN x : x[k] = Newline /\ k + 1 - LineBegin(x, k) <= SizeLimit}
           Items(x) == [k \in 1..Len(x) |-> SubSeq(x, LineBegin(x, k), k - 1)]
<1>1. t \in Bytes /\ Len(t) = n /\ DOMAIN t = 1..n /\ \A j \in 1..n : t[j] = text[j]
  BY DEF Bytes
<1>2. u \in Bytes /\ Len(u) = n + 1 /\ DOMAIN u = 1..(n + 1) /\ \A j \in 1..(n + 1) : u[j] = text[j]
  BY DEF Bytes
<1>3. Lines(t) = Picked(Kept(t), Items(t)) /\ Lines(u) = Picked(Kept(u), Items(u))
  BY DEF Lines
<1>4. \A k \in 1..(n + 1) : /\ LineBegin(u, k) = LineBegin(text, k)
                            /\ SubSeq(u, LineBegin(u, k), k - 1) = SubSeq(text, LineBegin(text, k), k - 1)
  <2> SUFFICES ASSUME NEW k \in 1..(n + 1)
               PROVE  /\ LineBegin(u, k) = LineBegin(text, k)
                      /\ SubSeq(u, LineBegin(u, k), k - 1) = SubSeq(text, LineBegin(text, k), k - 1)
    OBVIOUS
  <2>1. k \in Nat \ {0} /\ \A j \in 1..(k - 1) : text[j] = u[j]
    BY <1>2
  <2> HIDE DEF u
  <2>2. LineBegin(u, k) = LineBegin(text, k) /\ LineBegin(text, k) \in 1..k
    BY <2>1, BeginAgrees, BeginIs
  <2>3. LineBegin(text, k) \in Nat \ {0} /\ k - 1 \in Nat /\ k - 1 <= n + 1 /\ n + 1 \in Nat
    BY <2>2
  <2> QED BY <2>2, <2>3, PartOfPart DEF u
<1>5. \A k \in 1..n : /\ LineBegin(t, k) = LineBegin(text, k)
                      /\ SubSeq(t, LineBegin(t, k), k - 1) = SubSeq(text, LineBegin(text, k), k - 1)
  <2> SUFFICES ASSUME NEW k \in 1..n
               PROVE  /\ LineBegin(t, k) = LineBegin(text, k)
                      /\ SubSeq(t, LineBegin(t, k), k - 1) = SubSeq(text, LineBegin(text, k), k - 1)
    OBVIOUS
  <2>1. k \in Nat \ {0} /\ \A j \in 1..(k - 1) : text[j] = t[j]
    BY <1>1
  <2> HIDE DEF t
  <2>2. LineBegin(t, k) = LineBegin(text, k) /\ LineBegin(text, k) \in 1..k
    BY <2>1, BeginAgrees, BeginIs
  <2>3. LineBegin(text, k) \in Nat \ {0} /\ k - 1 \in Nat /\ k - 1 <= n /\ n <= Len(text)
    BY <2>2 DEF Bytes
  <2> QED BY <2>2, <2>3, PartOfPart DEF t
<1> HIDE DEF t, u
<1>6. Len(Items(t)) = n /\ Len(Items(u)) = n + 1 /\ Len(Items(t)) \in Nat /\ Len(Items(u)) = Len(Items(t)) + 1
  BY <1>1, <1>2
<1>7. \A k \in 1..n : Items(t)[k] = Items(u)[k]
  <2> SUFFICES ASSUME NEW k \in 1..n PROVE Items(t)[k] = Items(u)[k]
    OBVIOUS
  <2>1. k \in 1..(n + 1) /\ k \in 1..Len(t) /\ k \in 1..Len(u)
    BY <1>1, <1>2
  <2>2. Items(t)[k] = SubSeq(t, LineBegin(t, k), k - 1) /\ Items(u)[k] = SubSeq(u, LineBegin(u, k), k - 1)
    BY <2>1
  <2> HIDE DEF Items
  <2> QED BY <1>4, <1>5, <2>1, <2>2
<1>8. \A k \in 1..n : k \in Kept(t) <=> k \in Kept(u)
  <2> SUFFICES ASSUME NEW k \in 1..n PROVE k \in Kept(t) <=> k \in Kept(u)
    OBVIOUS
  <2>1. k \in 1..(n + 1) /\ k \in DOMAIN t /\ k \in DOMAIN u /\ t[k] = u[k]
    BY <1>1, <1>2
  <2>2. LineBegin(t, k) = LineBegin(u, k)
    BY <1>4, <1>5, <2>1
  <2> QED BY <2>1, <2>2
<1>9. Items(u)[n + 1] = SubSeq(text, LineBegin(text, n + 1), n)
  <2>1. n + 1 \in 1..(n + 1) /\ (n + 1) - 1 = n
    OBVIOUS
  <2>2. Items(u)[n + 1] = SubSeq(u, LineBegin(u, n + 1), (n + 1) - 1)
    BY <1>2, <2>1
  <2> QED BY <1>4, <2>1, <2>2
<1>10. n + 1 \in Kept(u) <=> text[n + 1] = Newline /\ (n + 1) + 1 - LineBegin(text, n + 1) <= SizeLimit
  BY <1>2, <1>4
<1> HIDE DEF Kept, Items
<1>11. Picked(Kept(u), Items(u)) =
         IF Len(Items(u)) \in Kept(u) THEN Append(Picked(Kept(t), Items(t)), Items(u)[Len(Items(u))])
                                      ELSE Picked(Kept(t), Items(t))
  BY <1>6, <1>7, <1>8, PickedOneMore
<1> QED BY <1>3, <1>6, <1>9, <1>10, <1>11 DEF t, u

\* Bytes that are no newlines end no line.
LEMMA LinesOfBytes ==
  ASSUME NEW text \in Bytes, NEW o \in Nat, NEW c \in Nat, o + c <= Len(text),
         \A j \in (o + 1)..(o + c) : text[j] # Newline
  PROVE  /\ Lines(SubSeq(text, 1, o + c)) = Lines(SubSeq(text, 1, o))
         /\ LineBegin(text, o + c + 1) = LineBegin(text, o + 1)
<1> DEFINE Same(m) == /\ Lines(SubSeq(text, 1, o + m)) = Lines(SubSeq(text, 1, o))
                      /\ LineBegin(text, o + m + 1) = LineBegin(text, o + 1)
           Good == {m \in Nat : m <= c => Same(m)}
<1>1. 0 \in Good
  OBVIOUS
<1>2. ASSUME NEW m \in Nat, m \in Good PROVE m + 1 \in Good
  <2> SUFFICES ASSUME m + 1 <= c PROVE Same(m + 1)
    OBVIOUS
  <2>1. Same(m)
    BY <1>2
  <2>2. o + m \in Nat /\ o + (m + 1) = (o + m) + 1 /\ (o + m) + 1 <= Len(text)
        /\ (o + m) + 1 \in (o + 1)..(o + c) /\ (o + m) + 1 \in Nat \ {0}
    BY DEF Bytes
  <2>3. text[(o + m) + 1] # Newline
    BY <2>2
  <2>4. Lines(SubSeq(text, 1, (o + m) + 1)) = Lines(SubSeq(text, 1, o + m))
    BY <2>2, <2>3, LinesStep
  <2>5. LineBegin(text, ((o + m) + 1) + 1) = LineBegin(text, (o + m) + 1)
    BY <2>2, <2>3, BeginStep
  <2> QED BY <2>1, <2>2, <2>4, <2>5
<1> HIDE DEF Good
<1>3. c \in Good
  BY <1>1, <1>2, Induction
<1> QED BY <1>3 DEF Good

\* A chunk ends with the only newline in it, or has none: it ends a line that can
\* be delivered, or does not.
LEMMA LinesOfChunk ==
  ASSUME NEW text \in Bytes, NEW o \in Nat, NEW c \in Nat \ {0}, o + c <= Len(text),
         \A j \in (o + 1)..(o + c - 1) : text[j] # Newline
  PROVE  /\ Lines(SubSeq(text, 1, o + c)) =
              IF text[o + c] = Newline /\ o + c + 1 - LineBegin(text, o + 1) <= SizeLimit
                THEN Append(Lines(SubSeq(text, 1, o)), SubSeq(text, LineBegin(text, o + 1), (o + c) - 1))
                ELSE Lines(SubSeq(text, 1, o))
         /\ LineBegin(text, o + c + 1) =
              IF text[o + c] = Newline THEN o + c + 1 ELSE LineBegin(text, o + 1)
<1> DEFINE d == c - 1
           n == o + d
           b == LineBegin(text, o + 1)
<1>1. d \in Nat /\ n \in Nat /\ o + c = n + 1 /\ (o + c) - 1 = n /\ n <= Len(text) /\ n + 1 <= Len(text)
      /\ n + 1 \in Nat \ {0}
  BY DEF Bytes
<1>2. Lines(SubSeq(text, 1, n)) = Lines(SubSeq(text, 1, o)) /\ LineBegin(text, n + 1) = b
  BY <1>1, LinesOfBytes
<1> HIDE DEF d, n, b
<1>3. Lines(SubSeq(text, 1, n + 1)) =
        IF text[n + 1] = Newline /\ (n + 1) + 1 - LineBegin(text, n + 1) <= SizeLimit
          THEN Append(Lines(SubSeq(text, 1, n)), SubSeq(text, LineBegin(text, n + 1), n))
          ELSE Lines(SubSeq(text, 1, n))
  BY <1>1, LinesStep
<1>4. LineBegin(text, (n + 1) + 1) = IF text[n + 1] = Newline THEN (n + 1) + 1 ELSE LineBegin(text, n + 1)
  BY <1>1, BeginStep
<1> QED BY <1>1, <1>2, <1>3, <1>4 DEF b

-----------------------------------------------------------------------------
(***************************************************************************)
(* What is read of a file that is never cut.                               *)
(***************************************************************************)

\* The reader is somewhere in a text: what it holds, and the lines it has taken.
Amid(text, s, done) ==
  /\ text \in Bytes /\ s.offset \in Nat /\ s.discard \in BOOLEAN /\ done \in Seq(Bytes)
  /\ HeldOf(text, s.offset, s.partial, s.discard)
  /\ done = Lines(SubSeq(text, 1, s.offset))

\* One chunk later it is further, with the line that the chunk ended.
Further(text, s, done, chunk) ==
  /\ HeldOf(text, s.offset + Len(chunk), Feed(s, chunk).partial, Feed(s, chunk).discard)
  /\ Lines(SubSeq(text, 1, s.offset + Len(chunk))) = done \o Feed(s, chunk).lines

LEMMA FeedHolds ==
  ASSUME NEW text, NEW s, NEW done, Amid(text, s, done),
         NEW limit \in Nat \ {0}, NEW chunk, chunk = ReadLine(text, s.offset, limit), chunk # <<>>
  PROVE  Further(text, s, done, chunk)
<1> DEFINE o == s.offset
<1>0. /\ text \in Bytes /\ o \in Nat /\ s.discard \in BOOLEAN /\ done \in Seq(Bytes)
      /\ HeldOf(text, o, s.partial, s.discard) /\ done = Lines(SubSeq(text, 1, o))
      /\ chunk = ReadLine(text, o, limit)
  BY DEF Amid
<1> HIDE DEF o
<1> DEFINE c == Len(chunk)
           b == LineBegin(text, o + 1)
           combined == s.partial \o chunk
           fed == Feed(s, chunk)
           part == SubSeq(text, b, (o + c) - 1)
           whole == SubSeq(text, b, o + c)
<1>1. /\ chunk \in Bytes /\ c \in Nat \ {0} /\ o + c <= Len(text)
      /\ chunk = SubSeq(text, o + 1, o + c)
      /\ \A j \in (o + 1)..(o + c - 1) : text[j] # Newline
      /\ chunk[c] = text[o + c]
  <2>1. /\ chunk \in Bytes /\ c \in Nat /\ c > 0 /\ o + c <= Len(text)
        /\ chunk = SubSeq(text, o + 1, o + c)
        /\ \A j \in (o + 1)..(o + c - 1) : text[j] # Newline
        /\ chunk[c] = text[o + c]
    BY <1>0, ReadLineIs
  <2> HIDE DEF c
  <2>2. c \in Nat \ {0}
    BY <2>1
  <2> QED BY <2>1, <2>2
<1>2. /\ o <= Len(text)
      /\ s.discard => s.partial = <<>> /\ o + 1 - b > SizeLimit
      /\ ~s.discard => s.partial = SubSeq(text, b, o)
  BY <1>0 DEF HeldOf
<1>3. b \in 1..(o + 1)
  <2>1. o + 1 \in Nat \ {0}
    BY <1>0
  <2> QED BY <2>1, BeginIs
<1>4. Complete(chunk) <=> text[o + c] = Newline
  BY <1>0, <1>1 DEF Complete, Last
<1> HIDE DEF c, b
<1>5. /\ Lines(SubSeq(text, 1, o + c)) =
           IF Complete(chunk) /\ o + c + 1 - b <= SizeLimit THEN Append(done, part) ELSE done
      /\ LineBegin(text, o + c + 1) = IF Complete(chunk) THEN o + c + 1 ELSE b
  <2>1. o + c <= Len(text) /\ (\A j \in (o + 1)..(o + c - 1) : text[j] # Newline) /\ c \in Nat \ {0}
    BY <1>0, <1>1
  <2>2. /\ Lines(SubSeq(text, 1, o + c)) =
             IF text[o + c] = Newline /\ o + c + 1 - b <= SizeLimit THEN Append(done, part) ELSE done
        /\ LineBegin(text, o + c + 1) = IF text[o + c] = Newline THEN o + c + 1 ELSE b
    BY <1>0, <2>1, LinesOfChunk DEF b
  <2> HIDE DEF part
  <2> QED BY <1>4, <2>2
<1>6. Len(text) \in Nat /\ SizeLimit \in Nat
  BY <1>0, Constants DEF Bytes
<1>7. SubSeq(text, o + c + 1, o + c) = <<>> /\ part \in Bytes
  BY <1>0, <1>1, <1>3, <1>6 DEF Bytes
<1>8. /\ b \in Nat \ {0} /\ o + c \in Nat /\ b <= o + 1 /\ o <= o + c /\ b <= o + c
  BY <1>0, <1>1, <1>3
<1>9. ASSUME ~s.discard
      PROVE  combined = whole /\ Len(combined) = o + c + 1 - b /\ Front(combined) = part
  <2>1. SubSeq(text, b, o) \o SubSeq(text, o + 1, o + c) = whole
    <3>1. b <= o + 1 /\ o <= o + c /\ o + c <= Len(text) /\ b \in Nat \ {0} /\ o + c \in Nat
      BY <1>1, <1>8
    <3> QED BY <1>0, <3>1, PartsJoin
  <2>2. combined = whole
    BY <1>0, <1>1, <1>2, <1>9, <2>1
  <2>3. Len(whole) = o + c + 1 - b
    BY <1>0, <1>1, <1>6, <1>8 DEF Bytes
  <2>4. Front(whole) = part
    <3>1. b <= o + c /\ o + c <= Len(text)
      BY <1>1, <1>8
    <3> DEFINE e == o + c
    <3>2. text \in Bytes /\ b \in Nat \ {0} /\ e \in Nat /\ b <= e /\ e <= Len(text)
      BY <1>0, <1>8, <3>1
    <3> HIDE DEF e
    <3>3. Front(SubSeq(text, b, e)) = SubSeq(text, b, e - 1)
      BY <3>2, PartFront
    <3> QED BY <3>3 DEF e
  <2> HIDE DEF combined, whole, part
  <2> QED BY <2>2, <2>3, <2>4
<1> HIDE DEF combined, part, whole
<1>10. HeldOf(text, o + c, fed.partial, fed.discard) /\ Lines(SubSeq(text, 1, o + c)) = done \o fed.lines
  <2>1. done \o <<>> = done /\ done \o <<part>> = Append(done, part)
    BY <1>0, <1>7
  <2>2. Complete(chunk) \in BOOLEAN
    BY DEF Complete
  <2> DEFINE next == LineBegin(text, o + c + 1)
             rest == SubSeq(text, next, o + c)
             now == Lines(SubSeq(text, 1, o + c))
  <2>3. /\ HeldOf(text, o + c, <<>>, TRUE) <=> o + c + 1 - next > SizeLimit
        /\ \A partial : HeldOf(text, o + c, partial, FALSE) <=> partial = rest
    BY <1>0, <1>1 DEF HeldOf
  <2>4. Complete(chunk) => rest = <<>>
    BY <1>5, <1>7
  <2>5. ~Complete(chunk) => next = b /\ rest = whole
    BY <1>5 DEF whole
  <2>6. now = IF Complete(chunk) /\ o + c + 1 - b <= SizeLimit THEN Append(done, part) ELSE done
    BY <1>5
  <2> HIDE DEF next, rest, now
  <2>7. CASE s.discard \/ Len(combined) > SizeLimit
    <3>1. o + c + 1 - b > SizeLimit /\ ~(o + c + 1 - b <= SizeLimit)
      <4>1. CASE s.discard
        BY <1>0, <1>1, <1>2, <1>6, <1>8, <4>1
      <4>2. CASE ~s.discard
        BY <1>0, <1>1, <1>6, <1>8, <1>9, <2>7, <4>2
      <4> QED BY <4>1, <4>2
    <3>2. fed = [lines |-> <<>>, partial |-> <<>>, discard |-> ~Complete(chunk)]
      <4>1. CASE s.discard
        BY <1>2, <4>1 DEF Feed, fed
      <4>2. CASE ~s.discard
        BY <2>7, <4>2 DEF Feed, fed, combined
      <4> QED BY <4>1, <4>2
    <3>3. now = done /\ fed.lines = <<>> /\ fed.partial = <<>> /\ fed.discard = ~Complete(chunk)
      BY <2>6, <3>1, <3>2
    <3>4. HeldOf(text, o + c, <<>>, ~Complete(chunk))
      <4>1. CASE Complete(chunk)
        BY <2>3, <2>4, <4>1
      <4>2. CASE ~Complete(chunk)
        BY <2>3, <2>5, <3>1, <4>2
      <4> QED BY <4>1, <4>2
    <3> QED BY <2>1, <3>3, <3>4 DEF now
  <2>8. CASE ~s.discard /\ ~(Len(combined) > SizeLimit)
    <3>1. o + c + 1 - b <= SizeLimit
      BY <1>0, <1>1, <1>6, <1>8, <1>9, <2>8
    <3>2. fed = IF Complete(chunk) THEN [lines |-> <<Front(combined)>>, partial |-> <<>>, discard |-> FALSE]
                                   ELSE [lines |-> <<>>, partial |-> combined, discard |-> FALSE]
      BY <2>8 DEF Feed, fed, combined
    <3>3. CASE Complete(chunk)
      <4>1. fed = [lines |-> <<part>>, partial |-> <<>>, discard |-> FALSE]
        BY <1>9, <2>8, <3>2, <3>3
      <4>2. now = done \o fed.lines
        BY <2>1, <2>6, <3>1, <3>3, <4>1
      <4>3. HeldOf(text, o + c, fed.partial, fed.discard)
        <5>1. HeldOf(text, o + c, <<>>, FALSE)
          BY <2>3, <2>4, <3>3
        <5>2. fed.partial = <<>> /\ fed.discard = FALSE
          BY <4>1
        <5> QED BY <5>1, <5>2
      <4> QED BY <4>2, <4>3 DEF now
    <3>4. CASE ~Complete(chunk)
      <4>1. fed = [lines |-> <<>>, partial |-> whole, discard |-> FALSE]
        BY <1>9, <2>8, <3>2, <3>4
      <4>2. now = done \o fed.lines
        <5>1. fed.lines = <<>> /\ now = done
          BY <2>6, <3>4, <4>1
        <5> QED BY <2>1, <5>1
      <4>3. HeldOf(text, o + c, fed.partial, fed.discard)
        <5>1. HeldOf(text, o + c, whole, FALSE)
          BY <2>3, <2>5, <3>4
        <5>2. fed.partial = whole /\ fed.discard = FALSE
          BY <4>1
        <5> QED BY <5>1, <5>2
      <4> QED BY <4>2, <4>3 DEF now
    <3> QED BY <3>3, <3>4
  <2> QED BY <2>7, <2>8
<1> QED BY <1>10 DEF c, fed, o, Further

\* What is written at the end changes nothing of what was read.
LEMMA AppendHolds ==
  ASSUME NEW text \in Bytes, NEW byte \in Nat, NEW o \in Nat, NEW partial, NEW discard,
         HeldOf(text, o, partial, discard)
  PROVE  /\ HeldOf(Append(text, byte), o, partial, discard)
         /\ SubSeq(Append(text, byte), 1, o) = SubSeq(text, 1, o)
<1> DEFINE more == Append(text, byte)
           b == LineBegin(text, o + 1)
<1>1. /\ more \in Bytes /\ Len(text) \in Nat /\ Len(more) = Len(text) + 1
      /\ \A j \in 1..Len(text) : more[j] = text[j]
  BY DEF Bytes
<1>2. o <= Len(text) /\ o <= Len(more)
  BY <1>1 DEF HeldOf
<1>3. b \in 1..(o + 1) /\ LineBegin(more, o + 1) = b
  <2>1. o + 1 \in Nat \ {0} /\ \A j \in 1..((o + 1) - 1) : text[j] = more[j]
    BY <1>1, <1>2
  <2> HIDE DEF more
  <2> QED BY <2>1, BeginIs, BeginAgrees
<1> HIDE DEF more, b
<1>4. \A a \in 1..(o + 1) : SubSeq(more, a, o) = SubSeq(text, a, o)
  <2> SUFFICES ASSUME NEW a \in 1..(o + 1) PROVE SubSeq(more, a, o) = SubSeq(text, a, o)
    OBVIOUS
  <2>1. SubSeq(more, a, o) = [j \in 1..(o - a + 1) |-> more[a + j - 1]]
    BY <1>1, <1>2 DEF Bytes
  <2>2. SubSeq(text, a, o) = [j \in 1..(o - a + 1) |-> text[a + j - 1]]
    BY <1>1, <1>2 DEF Bytes
  <2>3. \A j \in 1..(o - a + 1) : a + j - 1 \in 1..Len(text)
    BY <1>1, <1>2
  <2> QED BY <1>1, <2>1, <2>2, <2>3
<1>5. SubSeq(more, b, o) = SubSeq(text, b, o) /\ SubSeq(more, 1, o) = SubSeq(text, 1, o)
  BY <1>3, <1>4
<1>6. HeldOf(more, o, partial, discard)
  BY <1>2, <1>3, <1>5 DEF HeldOf, b
<1> QED BY <1>5, <1>6 DEF more

\* The pieces of TypeOK that the following proofs use.
LEMMA Types ==
  ASSUME TypeOK
  PROVE  /\ files \in [Inodes -> Bytes] /\ link \in [Paths -> Inodes] /\ cut \in [Inodes -> Nat]
         /\ state \in [Paths -> StateType] /\ taken \in [Inodes -> Seq(Bytes)]
BY DEF TypeOK, StateType

LEMMA InitReads == Init => Reads
<1> SUFFICES ASSUME Init PROVE Reads
  OBVIOUS
<1>1. \A p \in Paths : state[p].inode = None /\ link[p] = p + 1
  BY Fresh_Type DEF Init
<1>2. Apart
  BY <1>1, Constants DEF Apart
<1>3. Unread
  <2>1. \A i \in Inodes : taken[i] = <<>>
    BY DEF Init
  <2>2. \A p \in Paths : link[p] \in Inodes
    BY <1>1, Constants
  <2> QED BY <2>1, <2>2 DEF Unread
<1>4. Held /\ EveryLineOnce
  BY <1>1 DEF Held, EveryLineOnce
<1> QED BY <1>2, <1>3, <1>4 DEF Reads

\* Steps that leave the files, and what was read of them, alone.
LEMMA IdleReads ==
  ASSUME Reads, UNCHANGED <<files, link, cut, state, taken>>
  PROVE  Reads'
<1>1. Apart' /\ Unread'
  BY DEF Reads, Apart, Unread
<1>2. Held'
  BY DEF Reads, Held, HeldOf
<1>3. EveryLineOnce'
  BY DEF Reads, EveryLineOnce
<1> QED BY <1>1, <1>2, <1>3 DEF Reads

LEMMA WriteReads ==
  ASSUME Passing, Reads, NEW p \in Paths, Write(p)
  PROVE  Reads'
<1>1. UNCHANGED <<link, cut, state, taken>>
  BY DEF Write, reader
<1>2. PICK byte \in {Newline, Stamp(link[p])} : files' = [files EXCEPT ![link[p]] = Append(@, byte)]
  BY DEF Write
<1>3. /\ files \in [Inodes -> Bytes] /\ link \in [Paths -> Inodes] /\ cut \in [Inodes -> Nat]
      /\ state \in [Paths -> StateType]
  BY Types DEF Passing
<1>4. byte \in Nat
  <2>1. link[p] \in Inodes /\ Len(files[link[p]]) \in Nat /\ cut[link[p]] \in Nat
    BY <1>3 DEF Bytes
  <2> QED BY <2>1, Constants DEF Stamp, Written
<1>5. Apart' /\ Unread'
  BY <1>1 DEF Reads, Apart, Unread
<1>6. ASSUME NEW q \in Paths, state[q].inode # None, cut[state[q].inode] = 0
      PROVE  /\ HeldOf(files'[state[q].inode], state[q].offset, state[q].partial, state[q].discard)
             /\ taken[state[q].inode] = Lines(SubSeq(files'[state[q].inode], 1, state[q].offset))
  <2> DEFINE i == state[q].inode
             o == state[q].offset
  <2>1. i \in Inodes /\ o \in Nat /\ files[i] \in Bytes
    BY <1>3, <1>6 DEF StateType
  <2>2. HeldOf(files[i], o, state[q].partial, state[q].discard) /\ taken[i] = Lines(SubSeq(files[i], 1, o))
    BY <1>6 DEF Reads, Held, EveryLineOnce
  <2>3. CASE i = link[p]
    <3>1. files'[i] = Append(files[i], byte)
      BY <1>2, <1>3, <2>1, <2>3
    <3>2. /\ HeldOf(Append(files[i], byte), o, state[q].partial, state[q].discard)
          /\ SubSeq(Append(files[i], byte), 1, o) = SubSeq(files[i], 1, o)
      BY <1>4, <2>1, <2>2, AppendHolds
    <3> QED BY <2>2, <3>1, <3>2
  <2>4. CASE i # link[p]
    <3>1. files'[i] = files[i]
      BY <1>2, <1>3, <2>1, <2>4
    <3> QED BY <2>2, <3>1
  <2> QED BY <2>3, <2>4
<1>7. Held'
  BY <1>1, <1>6 DEF Held, HeldOf
<1>8. EveryLineOnce'
  BY <1>1, <1>6 DEF EveryLineOnce
<1> QED BY <1>5, <1>7, <1>8 DEF Reads

LEMMA RotateReads ==
  ASSUME Passing, Reads, NEW p \in Paths, Rotate(p)
  PROVE  Reads'
<1>1. UNCHANGED <<files, cut, state, taken>>
  BY DEF Rotate, reader
<1>2. PICK i \in Inodes : i = Max({link[q] : q \in Paths}) + 1 /\ link' = [link EXCEPT ![p] = i]
  BY DEF Rotate
<1>3. link \in [Paths -> Inodes] /\ state \in [Paths -> StateType]
  BY Types DEF Passing
<1>4. \A q \in Paths : link[q] < i
  <2> DEFINE L == {link[q] : q \in Paths}
  <2>1. L \in SUBSET (0..(PathCount + MaxRotations)) /\ L # {} /\ PathCount + MaxRotations \in Nat
    BY <1>3, Constants
  <2>2. Max(L) \in L /\ \A n \in L : Max(L) >= n
    <3> HIDE DEF L
    <3> QED BY <2>1, MaxIs
  <2>3. \A n \in L : n \in Nat
    BY <2>1
  <2>4. \A n \in L : n < Max(L) + 1
    <3> HIDE DEF L
    <3> QED BY <2>2, <2>3
  <2> QED BY <1>2, <2>4
<1>5. \A q \in Paths : state[q].inode <= link[q] /\ state[q].inode \in Nat /\ link[q] \in Nat /\ i \in Nat
  <2>1. \A q \in Paths : state[q].inode <= link[q]
    BY DEF Reads, Apart
  <2>2. \A q \in Paths : state[q].inode \in Inodes \cup {None} /\ link[q] \in Inodes
    BY <1>3 DEF StateType
  <2> QED BY <2>1, <2>2, Constants
<1>6. \A q \in Paths : link'[q] = IF q = p THEN i ELSE link[q]
  BY <1>2, <1>3
<1>7. \A q \in Paths : state[q].inode < i /\ state[q].inode # i /\ link[q] # i
  BY <1>4, <1>5
<1>8. Apart'
  <2>1. \A q \in Paths : state[q].inode <= link'[q]
    BY <1>5, <1>6, <1>7
  <2>2. \A q, r \in Paths : q # r => link'[q] # link'[r] /\ state[q].inode # link'[r]
    BY <1>6, <1>7 DEF Reads, Apart
  <2> QED BY <1>1, <2>1, <2>2 DEF Reads, Apart
<1>9. Unread'
  <2>1. taken[i] = <<>>
    BY <1>4 DEF Reads, Unread
  <2>2. \A q \in Paths : state[q].inode # link'[q] => taken[link'[q]] = <<>>
    BY <1>6, <2>1 DEF Reads, Unread
  <2>3. \A k \in Inodes : (\A q \in Paths : link'[q] < k) => \A q \in Paths : link[q] < k
    <3> SUFFICES ASSUME NEW k \in Inodes, \A q \in Paths : link'[q] < k, NEW q \in Paths PROVE link[q] < k
      OBVIOUS
    <3>1. i < k /\ link[q] < i /\ k \in Nat
      BY <1>4, <1>6, Constants
    <3> QED BY <1>5, <3>1
  <2> QED BY <1>1, <2>2, <2>3 DEF Reads, Unread
<1>10. Held'
  BY <1>1 DEF Reads, Held, HeldOf
<1>11. EveryLineOnce'
  BY <1>1 DEF Reads, EveryLineOnce
<1> QED BY <1>8, <1>9, <1>10, <1>11 DEF Reads

LEMMA TruncateReads ==
  ASSUME Passing, Reads, NEW p \in Paths, Truncate(p)
  PROVE  Reads'
<1> DEFINE i == link[p]
<1>1. /\ UNCHANGED <<link, state, taken>> /\ files[i] # <<>>
      /\ files' = [files EXCEPT ![i] = <<>>] /\ cut' = [cut EXCEPT ![i] = Written(i)]
  BY DEF Truncate, reader
<1>2. /\ files \in [Inodes -> Bytes] /\ link \in [Paths -> Inodes] /\ cut \in [Inodes -> Nat]
      /\ state \in [Paths -> StateType] /\ i \in Inodes
  BY Types DEF Passing
<1>3. Written(i) # 0
  <2>1. cut[i] \in Nat /\ files[i] \in Seq(Nat)
    BY <1>2 DEF Bytes
  <2>2. Len(files[i]) \in Nat /\ Len(files[i]) # 0
    BY <1>1, <2>1
  <2> QED BY <2>1, <2>2 DEF Written
<1> HIDE DEF i
<1>4. \A k \in Inodes : cut'[k] = 0 => cut[k] = 0 /\ files'[k] = files[k]
  BY <1>1, <1>2, <1>3
<1>5. \A q \in Paths : state[q].inode # None => state[q].inode \in Inodes
  BY <1>2 DEF StateType
<1>6. Apart' /\ Unread'
  BY <1>1 DEF Reads, Apart, Unread
<1>7. Held'
  <2> SUFFICES ASSUME NEW q \in Paths, state[q].inode # None, cut'[state[q].inode] = 0
               PROVE  HeldOf(files[state[q].inode], state[q].offset, state[q].partial, state[q].discard)
                      /\ files'[state[q].inode] = files[state[q].inode]
    BY <1>1 DEF Held, HeldOf
  <2> QED BY <1>4, <1>5 DEF Reads, Held
<1>8. EveryLineOnce'
  BY <1>1, <1>4, <1>5 DEF Reads, EveryLineOnce
<1> QED BY <1>6, <1>7, <1>8 DEF Reads

LEMMA VisitReads ==
  ASSUME Passing, Reads, Visit
  PROVE  Reads'
<1> DEFINE p == Current
           i == link[Current]
           opened == IF Replaced(state[p], i) THEN [Fresh EXCEPT !.inode = i] ELSE state[p]
<1>1. /\ pass.index < PathCount /\ UNCHANGED <<files, link, cut, taken>>
      /\ state' = [state EXCEPT ![p] = opened]
  BY DEF Visit, disk
<1>2. /\ files \in [Inodes -> Bytes] /\ link \in [Paths -> Inodes] /\ cut \in [Inodes -> Nat]
      /\ state \in [Paths -> StateType] /\ p \in Paths /\ i \in Inodes
  BY <1>1, Types, CurrentIs DEF Passing
<1>3. /\ Replaced(state[p], i) =>
           opened.inode = i /\ opened.offset = 0 /\ opened.partial = <<>> /\ opened.discard = FALSE
      /\ ~Replaced(state[p], i) => opened = state[p] /\ state[p].inode = i
  BY Fresh_Type DEF Replaced, StateType
<1>4. opened.inode = i
  BY <1>3
<1>5. Replaced(state[p], i) /\ cut[i] = 0 => taken[i] = <<>>
  <2> SUFFICES ASSUME Replaced(state[p], i), cut[i] = 0 PROVE taken[i] = <<>>
    OBVIOUS
  <2>1. CASE state[p].inode # i
    BY <1>2, <2>1 DEF Reads, Unread
  <2>2. CASE state[p].inode = i
    <3>1. state[p].offset <= Len(files[i])
      BY <1>2, <2>2, Constants DEF Reads, Held, HeldOf
    <3>2. Len(files[i]) < state[p].offset /\ Len(files[i]) \in Nat /\ state[p].offset \in Nat
      BY <1>2, <2>2 DEF Replaced, StateType, Bytes
    <3> QED BY <3>1, <3>2
  <2> QED BY <2>1, <2>2
<1> HIDE DEF p, i, opened
<1>6. \A q \in Paths : state'[q] = IF q = p THEN opened ELSE state[q]
  BY <1>1, <1>2
<1>7. i = link[p]
  BY DEF i, p
<1>8. Apart'
  <2>1. \A q \in Paths : state'[q].inode <= link[q]
    <3> SUFFICES ASSUME NEW q \in Paths PROVE state'[q].inode <= link[q]
      OBVIOUS
    <3>1. i <= i
      BY <1>2, Constants
    <3>2. state[q].inode <= link[q]
      BY DEF Reads, Apart
    <3> QED BY <1>4, <1>6, <1>7, <3>1, <3>2
  <2>2. \A q, r \in Paths : q # r => link[q] # link[r]
    BY DEF Reads, Apart
  <2>3. \A q, r \in Paths : q # r => state'[q].inode # link[r]
    BY <1>4, <1>6, <1>7, <2>2 DEF Reads, Apart
  <2>4. \A q, r \in Paths : q # r /\ state'[q].inode = state'[r].inode => state'[q].inode = None
    <3> SUFFICES ASSUME NEW q \in Paths, NEW r \in Paths, q # r, state'[q].inode = state'[r].inode
                 PROVE  state'[q].inode = None
      OBVIOUS
    <3>1. q # p /\ r # p
      BY <1>4, <1>6, <1>7, <2>3
    <3> QED BY <1>6, <3>1 DEF Reads, Apart
  <2> QED BY <1>1, <2>1, <2>2, <2>3, <2>4 DEF Apart
<1>9. Unread'
  BY <1>1, <1>4, <1>6, <1>7 DEF Reads, Unread
<1>10. ASSUME NEW q \in Paths, state'[q].inode # None, cut[state'[q].inode] = 0
       PROVE  /\ HeldOf(files[state'[q].inode], state'[q].offset, state'[q].partial, state'[q].discard)
              /\ taken[state'[q].inode] = Lines(SubSeq(files[state'[q].inode], 1, state'[q].offset))
  <2>1. CASE q = p /\ Replaced(state[p], i)
    <3>1. state'[q] = opened /\ files[i] \in Bytes /\ Len(files[i]) \in Nat
      BY <1>2, <1>6, <2>1 DEF Bytes
    <3>2. LineBegin(files[i], 0 + 1) = 1
      <4>1. 0 + 1 \in Nat \ {0} /\ 1 \in 1..(0 + 1) /\ \A j \in 1..((0 + 1) - 1) : files[i][j] # Newline
        OBVIOUS
      <4> QED BY <4>1, BeginUnique
    <3>3. SubSeq(files[i], 1, 0) = <<>>
      BY <3>1 DEF Bytes
    <3>4. HeldOf(files[i], 0, <<>>, FALSE)
      BY <3>1, <3>2, <3>3 DEF HeldOf
    <3>5. Lines(SubSeq(files[i], 1, 0)) = <<>>
      <4>1. Len(SubSeq(files[i], 1, 0)) = 0
        BY <3>3
      <4> QED BY <4>1, LinesOfNothing
    <3>6. taken[i] = <<>>
      BY <1>4, <1>5, <1>10, <2>1, <3>1
    <3> QED BY <1>3, <2>1, <3>1, <3>4, <3>5, <3>6
  <2>2. CASE ~(q = p /\ Replaced(state[p], i))
    <3>1. state'[q] = state[q]
      BY <1>3, <1>6, <2>2
    <3> QED BY <1>10, <3>1 DEF Reads, Held, EveryLineOnce
  <2> QED BY <2>1, <2>2
<1>11. Held'
  BY <1>1, <1>10 DEF Held, HeldOf
<1>12. EveryLineOnce'
  BY <1>1, <1>10 DEF EveryLineOnce
<1> QED BY <1>8, <1>9, <1>11, <1>12 DEF Reads

LEMMA ReadChunkReads ==
  ASSUME Passing, Reads, ReadChunk
  PROVE  Reads'
<1> DEFINE p == pass.path
           i == pass.inode
           fed == [state[p] EXCEPT !.offset = @ + Len(Chunk), !.partial = Fed.partial, !.discard = Fed.discard]
<1>1. /\ p \in Paths /\ i \in Inodes /\ i = state[p].inode /\ Chunk # <<>> /\ Len(Chunk) \in Nat
      /\ Chunk = ReadLine(files[i], state[p].offset, Min({SizeLimit, pass.bytesLeft}))
      /\ Min({SizeLimit, pass.bytesLeft}) \in Nat \ {0}
      /\ state' = [state EXCEPT ![p].offset = @ + Len(Chunk), ![p].partial = Fed.partial,
                                ![p].discard = Fed.discard]
      /\ taken' = [taken EXCEPT ![i] = @ \o Fed.lines]
      /\ UNCHANGED <<files, link, cut>>
  BY ReadChunkIs
<1>2. /\ files \in [Inodes -> Bytes] /\ link \in [Paths -> Inodes] /\ cut \in [Inodes -> Nat]
      /\ state \in [Paths -> StateType] /\ taken \in [Inodes -> Seq(Bytes)]
  BY Types DEF Passing
<1>3. state' = [state EXCEPT ![p] = fed]
  BY <1>1, <1>2
<1>4. /\ fed.inode = i /\ fed.offset = state[p].offset + Len(Chunk) /\ fed.partial = Fed.partial
      /\ fed.discard = Fed.discard
  BY <1>1, <1>2 DEF StateType
<1> HIDE DEF fed
<1>5. \A q \in Paths : state'[q] = IF q = p THEN fed ELSE state[q]
  BY <1>1, <1>2, <1>3
<1>6. \A q \in Paths : state'[q].inode = state[q].inode
  BY <1>1, <1>4, <1>5
<1>7. \A k \in Inodes : taken'[k] = IF k = i THEN taken[i] \o Fed.lines ELSE taken[k]
  BY <1>1, <1>2
<1> HIDE DEF p, i
<1>8. Apart'
  <2>1. Apart /\ UNCHANGED link
    BY <1>1 DEF Reads
  <2> QED BY <1>6, <2>1 DEF Apart
<1>9. Unread'
  <2>1. \A q \in Paths : state[q].inode # link[q] => link[q] # i
    BY <1>1 DEF Reads, Apart
  <2>2. \A k \in Inodes : (\A q \in Paths : link[q] < k) => k # i
    <3>1. i <= link[p] /\ i \in Nat /\ link[p] \in Nat
      <4>1. i <= link[p]
        <5>1. \A q \in Paths : state[q].inode <= link[q]
          BY DEF Reads, Apart
        <5> QED BY <1>1, <5>1
      <4>2. i \in Nat /\ link[p] \in Nat
        <5>1. i \in Inodes /\ link[p] \in Inodes
          BY <1>1, <1>2
        <5> QED BY <5>1, Constants
      <4> QED BY <4>1, <4>2
    <3> QED BY <1>1, <3>1
  <2>3. \A q \in Paths : link[q] \in Inodes
    BY <1>2
  <2>4. \A q \in Paths : state[q].inode # link[q] => taken'[link[q]] = <<>>
    BY <1>7, <2>1, <2>3 DEF Reads, Unread
  <2>5. \A k \in Inodes : (\A q \in Paths : link[q] < k) => taken'[k] = <<>>
    BY <1>7, <2>2 DEF Reads, Unread
  <2> QED BY <1>1, <1>6, <2>4, <2>5 DEF Unread
<1>10. ASSUME NEW q \in Paths, state'[q].inode # None, cut[state'[q].inode] = 0
       PROVE  /\ HeldOf(files[state'[q].inode], state'[q].offset, state'[q].partial, state'[q].discard)
              /\ taken'[state'[q].inode] = Lines(SubSeq(files[state'[q].inode], 1, state'[q].offset))
  <2>1. CASE q = p
    <3> DEFINE s == state[p]
               limit == Min({SizeLimit, pass.bytesLeft})
    <3>1. i # None /\ cut[i] = 0
      BY <1>1, <1>6, <1>10, <2>1
    <3>2. Amid(files[i], s, taken[i])
      <4>1. HeldOf(files[i], s.offset, s.partial, s.discard) /\ taken[i] = Lines(SubSeq(files[i], 1, s.offset))
        BY <1>1, <3>1 DEF Reads, Held, EveryLineOnce
      <4> QED BY <1>1, <1>2, <4>1 DEF Amid, StateType
    <3>3. Fed = Feed(s, Chunk)
      BY DEF Fed, p
    <3>4. limit \in Nat \ {0} /\ Chunk = ReadLine(files[i], s.offset, limit) /\ Chunk # <<>>
      BY <1>1
    <3> HIDE DEF s, limit
    <3>5. Further(files[i], s, taken[i], Chunk)
      BY <3>2, <3>4, FeedHolds
    <3>6. taken'[i] = taken[i] \o Fed.lines
      BY <1>1, <1>7
    <3>7. state'[q] = fed /\ fed.inode = i /\ fed.offset = s.offset + Len(Chunk)
      BY <1>4, <1>5, <2>1 DEF s
    <3> QED BY <1>4, <3>3, <3>5, <3>6, <3>7 DEF Further
  <2>2. CASE q # p
    <3>1. state'[q] = state[q] /\ state[q].inode \in Inodes
      BY <1>2, <1>5, <1>10, <2>2 DEF StateType
    <3>2. state[q].inode # i
      BY <1>1, <1>10, <2>2, <3>1 DEF Reads, Apart
    <3>3. taken'[state[q].inode] = taken[state[q].inode]
      BY <1>7, <3>1, <3>2
    <3> QED BY <1>10, <3>1, <3>3 DEF Reads, Held, EveryLineOnce
  <2> QED BY <2>1, <2>2
<1>11. Held'
  BY <1>1, <1>10 DEF Held, HeldOf
<1>12. EveryLineOnce'
  BY <1>1, <1>10 DEF EveryLineOnce
<1> QED BY <1>8, <1>9, <1>11, <1>12 DEF Reads

\* No step of the reader or of the writers loses or repeats a line.
LEMMA StepReads == Passing /\ Reads /\ [Next]_vars => Reads'
<1> SUFFICES ASSUME Passing, Reads, [Next]_vars PROVE Reads'
  OBVIOUS
<1>1. CASE Logging
  BY <1>1, WriteReads, RotateReads, TruncateReads DEF Logging
<1>2. CASE Visit
  BY <1>2, VisitReads
<1>3. CASE ReadChunk
  BY <1>3, ReadChunkReads
<1>4. CASE BeginPass \/ VisitFails \/ LeaveFile \/ ReadFails \/ EndPass \/ UNCHANGED vars
  <2>1. UNCHANGED <<files, link, cut, state, taken>>
    BY <1>4 DEF BeginPass, VisitFails, LeaveFile, ReadFails, NextFile, EndPass, vars, disk, reader
  <2> QED BY <2>1, IdleReads
<1> QED BY <1>1, <1>2, <1>3, <1>4 DEF Next, Reading

\* The inductive invariant of what is read: the reader holds of each file just the
\* bytes that follow the last newline, and no two paths share a file.
THEOREM ReadsInvariant == Spec => []Reads
<1>1. Init => Reads
  BY InitReads
<1>2. Passing /\ Reads /\ [Next]_vars => Reads'
  BY StepReads
<1> QED BY <1>1, <1>2, PassesInvariant, PTL DEF Spec

\* Of a file that was never cut, every line read so far was taken exactly once,
\* whole and in order: for any budgets and line sizes, and whatever is appended
\* or rotated between two calls of the reader.
THEOREM LinesTakenOnce == Spec => []EveryLineOnce
<1>1. Reads => EveryLineOnce
  BY DEF Reads
<1> QED BY <1>1, ReadsInvariant, PTL

-----------------------------------------------------------------------------
(***************************************************************************)
(* The loop around the reader.                                             *)
(***************************************************************************)

\* Every step of the loop is one of the reader, or none of it.
LEMMA LoopSteps == [CollectorNext]_everything => [Next]_vars
BY DEF CollectorNext, Poll, Collected, Emit, Sleep, EmitFails, everything, Next

\* The loop implements the reader: what holds of the reader alone holds of it
\* when the loop calls it, one pass after the other.
THEOREM CollectorReads == CollectorSpec => Spec
<1>1. CollectorInit => Init
  BY DEF CollectorInit
<1> QED BY <1>1, LoopSteps, PTL DEF CollectorSpec, Spec

\* The events the service was given or that failed, those waiting, and those of
\* the pass; each inode's are what was taken of it.
Handed == processed \o dropped
Everything == Handed \o queue \o pass.results
Accounted == \A i \in Inodes : From(i, Everything) = taken[i]

\* A batch is handed on completely before the next pass begins, or given up with
\* an error, which ends the loop.
Batches ==
  /\ CollectorTypeOK
  /\ Len(queue) <= MaxLines /\ Len(dropped) <= MaxLines
  /\ dropped # <<>> => mode = "stopped"
  /\ mode \in {"sleeping", "reading"} => queue = <<>>
  /\ mode = "stopped" => errors > 0

LEMMA EverythingType ==
  ASSUME Passing, Batches
  PROVE  /\ processed \in Seq(Line) /\ dropped \in Seq(Line) /\ Handed \in Seq(Line)
         /\ queue \in Seq(Line) /\ pass.results \in Seq(Line)
         /\ Handed \o queue \in Seq(Line) /\ Everything \in Seq(Line)
<1>1. processed \in Seq(Line) /\ dropped \in Seq(Line) /\ queue \in Seq(Line)
  BY DEF Batches, CollectorTypeOK
<1>2. pass.results \in Seq(Line)
  BY DEF Passing, TypeOK
<1>3. Handed \in Seq(Line) /\ Handed \o queue \in Seq(Line)
  BY <1>1 DEF Handed
<1>4. Everything \in Seq(Line)
  BY <1>2, <1>3 DEF Everything
<1> QED BY <1>1, <1>2, <1>3, <1>4

\* The lines of an inode, when one more arrives.
LEMMA FromStep ==
  ASSUME NEW i, NEW lines \in Seq(Line), NEW line \in Line
  PROVE  From(i, Append(lines, line)) =
           IF line.inode = i THEN Append(From(i, lines), line.text) ELSE From(i, lines)
<1> DEFINE more == Append(lines, line)
           n == Len(lines)
           Kept(x) == {k \in DOMAIN x : x[k].inode = i}
           Items(x) == [k \in 1..Len(x) |-> x[k].text]
<1>1. n \in Nat /\ DOMAIN lines = 1..n
  OBVIOUS
<1>2. /\ Len(more) = n + 1 /\ DOMAIN more = 1..(n + 1) /\ more[n + 1] = line
      /\ \A k \in 1..n : more[k] = lines[k]
  OBVIOUS
<1>3. From(i, lines) = Picked(Kept(lines), Items(lines)) /\ From(i, more) = Picked(Kept(more), Items(more))
  BY DEF From
<1> HIDE DEF more
<1>4. Len(Items(lines)) = n /\ Len(Items(more)) = n + 1
  BY <1>1, <1>2
<1>5. \A k \in 1..n : Items(lines)[k] = Items(more)[k]
  <2> SUFFICES ASSUME NEW k \in 1..n PROVE Items(lines)[k] = Items(more)[k]
    OBVIOUS
  <2>1. k \in 1..Len(lines) /\ k \in 1..Len(more)
    BY <1>1, <1>2
  <2>2. Items(lines)[k] = lines[k].text /\ Items(more)[k] = more[k].text
    BY <2>1
  <2> HIDE DEF Items
  <2> QED BY <1>2, <2>2
<1>6. \A k \in 1..n : k \in Kept(lines) <=> k \in Kept(more)
  BY <1>1, <1>2
<1>7. /\ Items(more)[n + 1] = line.text
      /\ n + 1 \in Kept(more) <=> line.inode = i
  <2>1. n + 1 \in 1..Len(more) /\ n + 1 \in DOMAIN more
    BY <1>1, <1>2
  <2>2. Items(more)[n + 1] = more[n + 1].text
    BY <2>1
  <2>3. n + 1 \in Kept(more) <=> more[n + 1].inode = i
    BY <2>1
  <2> HIDE DEF Items, Kept
  <2> QED BY <1>2, <2>2, <2>3
<1> HIDE DEF Kept, Items, n
<1>8. Picked(Kept(more), Items(more)) =
        IF n + 1 \in Kept(more) THEN Append(Picked(Kept(lines), Items(lines)), Items(more)[n + 1])
                                ELSE Picked(Kept(lines), Items(lines))
  <2>1. /\ Len(Items(lines)) \in Nat /\ Len(Items(more)) = Len(Items(lines)) + 1
        /\ \A k \in 1..Len(Items(lines)) : /\ Items(lines)[k] = Items(more)[k]
                                           /\ k \in Kept(lines) <=> k \in Kept(more)
    BY <1>1, <1>4, <1>5, <1>6
  <2>2. Picked(Kept(more), Items(more)) =
          IF Len(Items(more)) \in Kept(more)
            THEN Append(Picked(Kept(lines), Items(lines)), Items(more)[Len(Items(more))])
            ELSE Picked(Kept(lines), Items(lines))
    BY <2>1, PickedOneMore
  <2> QED BY <1>4, <2>2
<1> QED BY <1>3, <1>7, <1>8 DEF more

\* Whether a pass is running, before and after a step of the reader.
LEMMA PhasesOfReading ==
  ASSUME Passing, Reading
  PROVE  pass.phase # "idle" /\ pass'.phase # "idle"
<1>1. pass \in PassType
  BY DEF Passing, TypeOK, PassType
<1>2. CASE Visit
  BY <1>1, <1>2 DEF Visit, PassType
<1>3. CASE VisitFails
  BY <1>1, <1>3 DEF VisitFails, PassType
<1>4. CASE ReadChunk
  BY <1>1, <1>4 DEF ReadChunk, PassType
<1>5. CASE LeaveFile \/ ReadFails
  BY <1>1, <1>5 DEF LeaveFile, ReadFails, NextFile, PassType
<1> QED BY <1>2, <1>3, <1>4, <1>5 DEF Reading

LEMMA InitBatches == CollectorInit => Batches
<1> SUFFICES ASSUME CollectorInit PROVE Batches
  OBVIOUS
<1>1. 0 \in 0..MaxErrors /\ Len(<<>>) = 0 /\ 0 <= MaxLines
  BY CollectorAssumption, ReaderAssumption
<1> QED BY <1>1, RestingIs DEF CollectorInit, Init, Batches, CollectorTypeOK

LEMMA StepBatches == Passing /\ Batches /\ [CollectorNext]_everything => Batches'
<1> SUFFICES ASSUME Passing, Batches, [CollectorNext]_everything PROVE Batches'
  OBVIOUS
<1>1. /\ mode \in {"sleeping", "reading", "emitting", "stopped"}
      /\ mode = "reading" <=> pass.phase # "idle"
      /\ queue \in Seq(Line) /\ processed \in Seq(Line) /\ dropped \in Seq(Line) /\ errors \in 0..MaxErrors
      /\ Len(queue) <= MaxLines /\ Len(dropped) <= MaxLines
      /\ dropped # <<>> => mode = "stopped"
      /\ mode \in {"sleeping", "reading"} => queue = <<>>
      /\ mode = "stopped" => errors > 0
  BY DEF Batches, CollectorTypeOK
<1>2. /\ pass.results \in Seq(Line) /\ Len(pass.results) <= MaxLines
      /\ <<>> \in Seq(Line) /\ Len(<<>>) = 0 /\ MaxLines \in Nat
  BY EverythingType, ReaderAssumption DEF Passing, TypeOK
<1>3. CASE Logging /\ UNCHANGED loop
  <2>1. UNCHANGED <<pass, mode, queue, processed, dropped, errors>>
    BY <1>3 DEF Logging, Write, Rotate, Truncate, reader, loop
  <2> QED BY <1>1, <2>1 DEF Batches, CollectorTypeOK
<1>4. CASE Reading /\ UNCHANGED loop
  <2>1. UNCHANGED <<mode, queue, processed, dropped, errors>>
    BY <1>4 DEF loop
  <2>2. pass.phase # "idle" /\ pass'.phase # "idle"
    BY <1>4, PhasesOfReading
  <2> QED BY <1>1, <2>1, <2>2 DEF Batches, CollectorTypeOK
<1>5. CASE Poll
  <2>1. pass'.phase = "visit"
    BY <1>5 DEF Poll, BeginPass, Resting
  <2>2. mode = "sleeping" /\ mode' = "reading" /\ UNCHANGED <<queue, processed, dropped, errors>>
    BY <1>5 DEF Poll
  <2> QED BY <1>1, <2>1, <2>2 DEF Batches, CollectorTypeOK
<1>6. CASE Collected
  <2>1. pass'.phase = "idle"
    BY <1>6, RestingIs DEF Collected, EndPass
  <2>2. /\ mode = "reading" /\ mode' = "emitting" /\ queue' = pass.results
        /\ UNCHANGED <<processed, dropped, errors>>
    BY <1>6 DEF Collected
  <2> QED BY <1>1, <1>2, <2>1, <2>2 DEF Batches, CollectorTypeOK
<1>7. CASE Emit
  <2>1. mode = "emitting" /\ queue # <<>> /\ processed' = Append(processed, Head(queue)) /\ queue' = Tail(queue)
        /\ UNCHANGED <<pass, mode, dropped, errors>>
    BY <1>7 DEF Emit, vars, reader
  <2>2. Head(queue) \in Line /\ Tail(queue) \in Seq(Line) /\ Len(Tail(queue)) <= MaxLines
    BY <1>1, <1>2, <2>1
  <2>3. processed' \in Seq(Line) /\ queue' \in Seq(Line) /\ Len(queue') <= MaxLines
    BY <1>1, <2>1, <2>2
  <2> QED BY <1>1, <2>1, <2>3 DEF Batches, CollectorTypeOK
<1>8. CASE Sleep
  <2>1. mode = "emitting" /\ mode' = "sleeping" /\ queue = <<>> /\ UNCHANGED <<pass, queue, processed, dropped, errors>>
    BY <1>8 DEF Sleep, vars, reader
  <2> QED BY <1>1, <2>1 DEF Batches, CollectorTypeOK
<1>9. CASE EmitFails
  <2>1. /\ mode = "emitting" /\ errors < MaxErrors /\ mode' = "stopped" /\ queue' = <<>>
        /\ dropped' = queue /\ errors' = errors + 1 /\ UNCHANGED <<pass, processed>>
    BY <1>9 DEF EmitFails, vars, reader
  <2>2. errors' \in 0..MaxErrors /\ errors' > 0
    BY <1>1, <2>1, CollectorAssumption
  <2> QED BY <1>1, <1>2, <2>1, <2>2 DEF Batches, CollectorTypeOK
<1>10. CASE UNCHANGED everything
  <2>1. UNCHANGED <<pass, mode, queue, processed, dropped, errors>>
    BY <1>10 DEF everything, vars, reader, loop
  <2> QED BY <1>1, <2>1 DEF Batches, CollectorTypeOK
<1> QED BY <1>3, <1>4, <1>5, <1>6, <1>7, <1>8, <1>9, <1>10 DEF CollectorNext

\* The inductive invariant of the loop: a batch is handed on completely before the
\* next pass begins, or given up with an error.
THEOREM BatchesInvariant == CollectorSpec => []Batches
<1>1. CollectorInit => Batches
  BY InitBatches
<1>2. Passing /\ Batches /\ [CollectorNext]_everything => Batches'
  BY StepBatches
<1>3. CollectorSpec => []Passing
  BY CollectorReads, PassesInvariant
<1> QED BY <1>1, <1>2, <1>3, PTL DEF CollectorSpec

\* The loop is reading just while a pass is under way.
THEOREM LoopTypes == CollectorSpec => []CollectorTypeOK
<1>1. Batches => CollectorTypeOK
  BY DEF Batches
<1> QED BY <1>1, BatchesInvariant, PTL

\* Steps that move what was taken along, or nothing.
LEMMA MovedOn ==
  ASSUME Accounted, UNCHANGED taken, Everything' = Everything
  PROVE  Accounted'
BY DEF Accounted

LEMMA InitDropsNothing == CollectorInit => Accounted
<1> SUFFICES ASSUME CollectorInit, NEW i \in Inodes
             PROVE  From(i, Everything) = taken[i]
  BY DEF Accounted
<1>1. processed = <<>> /\ dropped = <<>> /\ queue = <<>> /\ pass.results = <<>> /\ taken[i] = <<>>
  BY RestingIs DEF CollectorInit, Init
<1>2. Everything = <<>>
  BY <1>1 DEF Everything, Handed
<1>3. From(i, <<>>) = <<>>
  <2>1. Len([k \in 1..Len(<<>>) |-> <<>>[k].text]) = 0
    OBVIOUS
  <2> QED BY <2>1, PickedOfNothing DEF From
<1> QED BY <1>1, <1>2, <1>3

\* Appending to the second of two sequences.
LEMMA AppendConcat ==
  ASSUME NEW Elem, NEW s \in Seq(Elem), NEW t \in Seq(Elem), NEW e \in Elem
  PROVE  s \o Append(t, e) = Append(s \o t, e)
<1>1. Append(t, e) = t \o <<e>> /\ <<e>> \in Seq(Elem) /\ s \o t \in Seq(Elem)
  OBVIOUS
<1>2. Append(s \o t, e) = (s \o t) \o <<e>>
  BY <1>1
<1>3. (s \o t) \o <<e>> = s \o (t \o <<e>>)
  BY <1>1, ConcatAssociative
<1> QED BY <1>1, <1>2, <1>3

\* The lines that a chunk adds are taken and are in the results.
LEMMA ReadChunkDropsNothing ==
  ASSUME Passing, Batches, Accounted, ReadChunk, UNCHANGED loop
  PROVE  Accounted'
<1> SUFFICES ASSUME NEW k \in Inodes PROVE From(k, Everything') = taken'[k]
  BY DEF Accounted
<1> DEFINE i == pass.inode
           before == Handed \o queue
           added == [j \in DOMAIN Fed.lines |-> [inode |-> i, text |-> Fed.lines[j]]]
<1>1. /\ i \in Inodes
      /\ taken' = [taken EXCEPT ![i] = @ \o Fed.lines]
      /\ pass' = [pass EXCEPT !.bytesLeft = @ - Len(Chunk), !.results = @ \o added]
      /\ Fed.lines = <<>> \/ \E line \in Bytes : Fed.lines = <<line>>
  BY ReadChunkIs
<1>2. before \in Seq(Line) /\ pass.results \in Seq(Line) /\ Everything \in Seq(Line)
  BY EverythingType
<1>3. taken \in [Inodes -> Seq(Bytes)] /\ pass \in PassType
  BY DEF Passing, TypeOK, PassType
<1>4. pass'.results = pass.results \o added
  BY <1>1, <1>3 DEF PassType
<1>5. Everything' = before \o pass'.results
  BY DEF Everything, Handed, loop
<1>6. From(k, Everything) = taken[k]
  BY DEF Accounted
<1>7. taken'[k] = IF k = i THEN taken[i] \o Fed.lines ELSE taken[k]
  BY <1>1, <1>3
<1> HIDE DEF i, before
<1>8. CASE Fed.lines = <<>>
  <2>1. pass.results \o added = pass.results
    BY <1>1, <1>2, <1>8, ResultsGrow
  <2>2. Everything' = Everything
    BY <1>4, <1>5, <2>1 DEF Everything, before
  <2>3. taken[i] \o <<>> = taken[i]
    BY <1>1, <1>3
  <2> QED BY <1>6, <1>7, <1>8, <2>2, <2>3
<1>9. CASE Fed.lines # <<>>
  <2> DEFINE text == Fed.lines[1]
             line == [inode |-> i, text |-> text]
  <2>1. /\ text \in Bytes /\ line \in Line /\ Fed.lines = <<text>>
        /\ pass.results \o added = Append(pass.results, line)
    BY <1>1, <1>2, <1>9, ResultsGrow
  <2> HIDE DEF added
  <2>2. line.inode = i /\ line.text = text
    OBVIOUS
  <2> HIDE DEF text, line
  <2>3. before \o Append(pass.results, line) = Append(before \o pass.results, line)
    <3>1. before \in Seq(Line) /\ pass.results \in Seq(Line) /\ line \in Line
      BY <1>2, <2>1
    <3> QED BY <3>1, AppendConcat
  <2>4. Everything' = Append(Everything, line)
    BY <1>4, <1>5, <2>1, <2>3 DEF Everything, before
  <2>5. From(k, Everything') = IF k = i THEN Append(taken[k], text) ELSE taken[k]
    <3>1. From(k, Append(Everything, line)) =
            IF line.inode = k THEN Append(From(k, Everything), line.text) ELSE From(k, Everything)
      BY <1>2, <2>1, FromStep
    <3> QED BY <1>6, <2>2, <2>4, <3>1
  <2>6. taken[i] \o Fed.lines = Append(taken[i], text)
    BY <1>1, <1>3, <2>1
  <2> QED BY <1>7, <2>5, <2>6
<1> QED BY <1>8, <1>9

LEMMA StepDropsNothing ==
  Passing /\ Batches /\ Accounted /\ [CollectorNext]_everything => Accounted'
<1> SUFFICES ASSUME Passing, Batches, Accounted, [CollectorNext]_everything PROVE Accounted'
  OBVIOUS
<1>1. /\ processed \in Seq(Line) /\ Handed \in Seq(Line) /\ queue \in Seq(Line)
      /\ pass.results \in Seq(Line) /\ Handed \o queue \in Seq(Line)
  BY EverythingType
<1>2. CASE Logging /\ UNCHANGED loop
  <2>1. UNCHANGED <<taken, pass, queue, processed, dropped>>
    BY <1>2 DEF Logging, Write, Rotate, Truncate, reader, loop
  <2> QED BY <2>1, MovedOn DEF Everything, Handed
<1>3. CASE ReadChunk /\ UNCHANGED loop
  BY <1>3, ReadChunkDropsNothing
<1>4. CASE (Visit \/ VisitFails \/ LeaveFile \/ ReadFails) /\ UNCHANGED loop
  <2>1. UNCHANGED <<taken, queue, processed, dropped>>
    BY <1>4 DEF Visit, VisitFails, LeaveFile, ReadFails, NextFile, loop
  <2>2. pass'.results = pass.results
    <3>1. pass \in PassType
      BY DEF Passing, TypeOK, PassType
    <3> QED BY <1>4, <3>1 DEF Visit, VisitFails, LeaveFile, ReadFails, NextFile, PassType
  <2> QED BY <2>1, <2>2, MovedOn DEF Everything, Handed
<1>5. CASE Poll
  <2>1. UNCHANGED <<taken, queue, processed, dropped>>
    BY <1>5 DEF Poll, BeginPass
  <2>2. pass.results = <<>> /\ pass'.results = <<>>
    BY <1>5, RestingIs DEF Poll, BeginPass, Passing, InHand, Resting
  <2> QED BY <2>1, <2>2, MovedOn DEF Everything, Handed
<1>6. CASE Collected
  <2>1. UNCHANGED <<taken, processed, dropped>> /\ queue' = pass.results /\ queue = <<>>
    BY <1>6 DEF Collected, EndPass, Batches
  <2>2. pass'.results = <<>>
    BY <1>6, RestingIs DEF Collected, EndPass
  <2>3. Handed \o <<>> \o pass.results = Handed \o pass.results \o <<>>
    <3>1. Handed \o <<>> = Handed
      BY <1>1
    <3>2. Handed \o pass.results \in Seq(Line)
      BY <1>1
    <3>3. (Handed \o pass.results) \o <<>> = Handed \o pass.results
      BY <3>2, ConcatEmptySeq
    <3> QED BY <3>1, <3>3
  <2> QED BY <2>1, <2>2, <2>3, MovedOn DEF Everything, Handed
<1>7. CASE Emit
  <2>1. /\ queue # <<>> /\ processed' = Append(processed, Head(queue)) /\ queue' = Tail(queue)
        /\ mode = "emitting" /\ UNCHANGED <<taken, pass, dropped>>
    BY <1>7 DEF Emit, vars, reader
  <2>2. dropped = <<>>
    BY <2>1 DEF Batches
  <2>3. Handed = processed /\ Handed' = Append(processed, Head(queue))
    BY <1>1, <2>1, <2>2 DEF Handed
  <2>4. Append(processed, Head(queue)) \o Tail(queue) = processed \o queue
    <3>1. Head(queue) \in Line /\ Tail(queue) \in Seq(Line) /\ queue = <<Head(queue)>> \o Tail(queue)
      BY <1>1, <2>1
    <3>2. Append(processed, Head(queue)) = processed \o <<Head(queue)>> /\ <<Head(queue)>> \in Seq(Line)
      BY <1>1, <3>1
    <3>3. (processed \o <<Head(queue)>>) \o Tail(queue) = processed \o (<<Head(queue)>> \o Tail(queue))
      BY <1>1, <3>1, <3>2, ConcatAssociative
    <3> QED BY <3>1, <3>2, <3>3
  <2> QED BY <2>1, <2>3, <2>4, MovedOn DEF Everything
<1>8. CASE Sleep
  <2>1. UNCHANGED <<taken, pass, queue, processed, dropped>>
    BY <1>8 DEF Sleep, vars, reader
  <2> QED BY <2>1, MovedOn DEF Everything, Handed
<1>9. CASE EmitFails
  <2>1. /\ mode = "emitting" /\ dropped' = queue /\ queue' = <<>>
        /\ UNCHANGED <<taken, pass, processed>>
    BY <1>9 DEF EmitFails, vars, reader
  <2>2. dropped = <<>>
    BY <2>1 DEF Batches
  <2>3. Handed = processed /\ Handed' = processed \o queue
    BY <1>1, <2>1, <2>2 DEF Handed
  <2>4. Handed' \o queue' = Handed \o queue
    BY <1>1, <2>1, <2>3
  <2> QED BY <2>1, <2>4, MovedOn DEF Everything
<1>10. CASE UNCHANGED everything
  <2>1. UNCHANGED <<taken, pass, queue, processed, dropped>>
    BY <1>10 DEF everything, vars, reader, loop
  <2> QED BY <2>1, MovedOn DEF Everything, Handed
<1> QED BY <1>2, <1>3, <1>4, <1>5, <1>6, <1>7, <1>8, <1>9, <1>10 DEF CollectorNext, Reading

\* What the reader took of a file is what the loop has handed on or is about to,
\* each line once and in order; an event that fails costs the rest of its batch, at
\* most, and nothing before it.
THEOREM NoBatchDropped == CollectorSpec => []NothingDropped
<1>1. CollectorInit => Accounted
  BY InitDropsNothing
<1>2. Passing /\ Batches /\ Accounted /\ [CollectorNext]_everything => Accounted'
  BY StepDropsNothing
<1>3. CollectorSpec => []Passing
  BY CollectorReads, PassesInvariant
<1>4. Batches /\ Accounted => NothingDropped
  BY DEF Batches, Accounted, NothingDropped, Everything, Handed
<1> QED BY <1>1, <1>2, <1>3, <1>4, BatchesInvariant, PTL DEF CollectorSpec
=============================================================================

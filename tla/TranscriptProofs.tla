-------------------------- MODULE TranscriptProofs --------------------------
(***************************************************************************)
(* What a user reads: proofs about Transcript, and at the end about Panels,*)
(* the searches and panels beside it.                                      *)
(*                                                                         *)
(* Transcript, for any rows, page sizes, caps and bounds:                  *)
(* between its ends the window of messages is whole, and it is grouped     *)
(* exactly; the page reaches the first row, keeps its position while older *)
(* messages come, and counts on its badge what came.                       *)
(*                                                                         *)
(* Folds (merging, deleting, grouping, flattening) are reasoned about by   *)
(* way of the sequence of their accumulators: if a property fails at one   *)
(* of them, it fails at a first one.  What is known of the window is kept  *)
(* apart from what a step does to it: one lemma says what the window and   *)
(* the view become, another that the invariant is kept.                    *)
(***************************************************************************)
EXTENDS Transcript, Panels, WellFoundedInduction, TLAPS

(***************************************************************************)
(* Folds                                                                   *)
(***************************************************************************)

\* A nonempty set of naturals has a least element.
LEMMA Least ==
  ASSUME NEW T, T \subseteq Nat, T # {}
  PROVE  \E x \in T : \A y \in T : x <= y
<1>1. PICK x \in T : \A y \in T : ~ (<<y, x>> \in OpToRel(<, Nat))
  BY WFMin, NatLessThanWellFounded
<1>2. \A y \in T : ~(y < x)
  BY <1>1 DEF OpToRel
<1> QED BY <1>2

\* What holds at the start and is kept by every step holds at each step up to n.
LEMMA Along ==
  ASSUME NEW n \in Nat, NEW P, 0 \in P, \A k \in 0..(n - 1) : k \in P => k + 1 \in P
  PROVE  0..n \subseteq P
<1> SUFFICES ASSUME NEW j \in 0..n, j \notin P
             PROVE  FALSE
  OBVIOUS
<1>1. PICK x \in (0..n) \ P : \A y \in (0..n) \ P : x <= y
  <2>1. (0..n) \ P \subseteq Nat /\ (0..n) \ P # {}
    OBVIOUS
  <2> QED BY <2>1, Least
<1>2. x # 0 /\ x - 1 \in 0..(n - 1)
  BY <1>1
<1>3. x - 1 \in P
  BY <1>1, <1>2
<1>4. x - 1 + 1 \in P
  BY <1>2, <1>3
<1> QED BY <1>1, <1>4

\* A nonempty set of numbers up to n has a greatest element.
LEMMA Greatest ==
  ASSUME NEW n \in Nat, NEW s, s \subseteq 1..n, s # {}
  PROVE  Max(s) \in s /\ \A y \in s : y <= Max(s)
<1> DEFINE T == {b \in Nat : \A y \in s : y <= b}
<1>1. PICK b \in T : \A c \in T : b <= c
  <2>1. n \in T
    OBVIOUS
  <2> HIDE DEF T
  <2>2. T \subseteq Nat
    BY DEF T
  <2> QED BY <2>1, <2>2, Least
<1>2. b \in s
  <2> SUFFICES ASSUME b \notin s
               PROVE  FALSE
    OBVIOUS
  <2>1. PICK y \in s : TRUE
    OBVIOUS
  <2>2. b - 1 \in Nat
    BY <1>1, <2>1
  <2>3. \A x \in s : x \in Nat /\ x <= b /\ x # b
    BY <1>1
  <2>4. \A x \in s : x <= b - 1
    BY <1>1, <2>3
  <2>5. b - 1 \in T
    BY <2>2, <2>4
  <2> QED BY <1>1, <2>5
<1>3. \E x \in s : \A y \in s : x >= y
  BY <1>1, <1>2
<1>4. Max(s) \in s /\ \A y \in s : Max(s) >= y
  BY <1>3 DEF Max
<1> QED BY <1>4

\* The steps of the folds of the model: a message is merged into the window, kept
\* by a deletion of x, put into a group.
Step(kind, a, m, x) ==
  CASE kind = "merge" -> Placed(a, m, x)
    [] kind = "delete" -> IF m.id = x THEN a ELSE Append(a, m)
    [] kind = "group" -> Grouped(a, m)

\* f is the function by which a fold over seq is defined.
Folds(f, kind, base, seq, x, D) ==
  f = [s \in SUBSET D |-> IF s = {} THEN base ELSE Step(kind, f[s \ {Max(s)}], seq[Max(s)], x)]

\* There is such a function.
LEMMA FoldExists ==
  ASSUME NEW n \in Nat, NEW kind, NEW base, NEW seq, NEW x
  PROVE  \E f : Folds(f, kind, base, seq, x, 1..n)
<1> DEFINE P == {k \in Nat : \E f : Folds(f, kind, base, seq, x, 1..k)}
<1>1. 0 \in P
  <2>1. SUBSET (1..0) = {{}}
    OBVIOUS
  <2>2. Folds([s \in SUBSET (1..0) |-> base], kind, base, seq, x, 1..0)
    BY <2>1 DEF Folds
  <2> QED BY <2>2
<1>2. ASSUME NEW k \in Nat, k \in P
      PROVE  k + 1 \in P
  <2>1. PICK f : Folds(f, kind, base, seq, x, 1..k)
    BY <1>2
  <2> DEFINE g == [s \in SUBSET (1..(k + 1)) |->
                     IF k + 1 \in s THEN Step(kind, f[s \ {k + 1}], seq[k + 1], x) ELSE f[s]]
  <2>2. ASSUME NEW s \in SUBSET (1..(k + 1))
        PROVE  g[s] = IF s = {} THEN base ELSE Step(kind, g[s \ {Max(s)}], seq[Max(s)], x)
    <3>1. CASE s = {}
      <4>1. f[s] = base
        BY <2>1, <3>1 DEF Folds
      <4> QED BY <3>1, <4>1
    <3>2. CASE s # {} /\ k + 1 \in s
      <4>1. Max(s) = k + 1
        <5>0. k + 1 \in Nat /\ s \subseteq 1..(k + 1)
          OBVIOUS
        <5>1. Max(s) \in s /\ \A y \in s : y <= Max(s)
          <6> HIDE DEF g
          <6> QED BY <3>2, <5>0, Greatest
        <5> HIDE DEF g
        <5>2. Max(s) \in 1..(k + 1) /\ k + 1 <= Max(s)
          BY <5>0, <5>1, <3>2
        <5> QED BY <5>2
      <4>2. s \ {k + 1} \in SUBSET (1..(k + 1)) /\ k + 1 \notin s \ {k + 1}
        OBVIOUS
      <4>3. g[s \ {k + 1}] = f[s \ {k + 1}]
        BY <4>2
      <4> QED BY <3>2, <4>1, <4>3
    <3>3. CASE s # {} /\ k + 1 \notin s
      <4>1. s \in SUBSET (1..k)
        BY <3>3
      <4>2. f[s] = Step(kind, f[s \ {Max(s)}], seq[Max(s)], x)
        BY <2>1, <3>3, <4>1 DEF Folds
      <4>3. g[s \ {Max(s)}] = f[s \ {Max(s)}]
        BY <3>3
      <4> QED BY <3>3, <4>2, <4>3
    <3> QED BY <3>1, <3>2, <3>3
  <2>3. Folds(g, kind, base, seq, x, 1..(k + 1))
    <3> DEFINE h == [s \in SUBSET (1..(k + 1)) |->
                       IF s = {} THEN base ELSE Step(kind, g[s \ {Max(s)}], seq[Max(s)], x)]
    <3>1. g = h
      <4> HIDE DEF g
      <4>1. \A s \in SUBSET (1..(k + 1)) : g[s] = h[s]
        BY <2>2
      <4>2. g = [s \in SUBSET (1..(k + 1)) |-> g[s]]
        BY DEF g
      <4> QED BY <4>1, <4>2
    <3> QED BY <3>1 DEF Folds
  <2> QED BY <2>3
<1>3. 0..n \subseteq P
  <2> HIDE DEF P
  <2> QED BY <1>1, <1>2, Along
<1> QED BY <1>3

\* A fold takes the elements one after the other.
LEMMA FoldSteps ==
  ASSUME NEW n \in Nat, NEW kind, NEW base, NEW seq, NEW x, NEW f,
         Folds(f, kind, base, seq, x, 1..n)
  PROVE  \E acc :
           /\ acc[0] = base
           /\ \A k \in 0..(n - 1) : acc[k + 1] = Step(kind, acc[k], seq[k + 1], x)
           /\ f[1..n] = acc[n]
<1> DEFINE acc == [k \in 0..n |-> f[1..k]]
<1>3. acc[0] = base
  <2>1. 1..0 = {}
    OBVIOUS
  <2> QED BY <2>1 DEF Folds
<1>4. ASSUME NEW k \in 0..(n - 1)
      PROVE  acc[k + 1] = Step(kind, acc[k], seq[k + 1], x)
  <2>0. 1..(k + 1) \subseteq 1..n /\ k + 1 \in 1..(k + 1)
    OBVIOUS
  <2>1. 1..(k + 1) \in SUBSET (1..n) /\ 1..(k + 1) # {}
    BY <2>0
  <2>2. Max(1..(k + 1)) = k + 1
    <3>1. Max(1..(k + 1)) \in 1..(k + 1) /\ \A y \in 1..(k + 1) : y <= Max(1..(k + 1))
      BY <2>0, <2>1, Greatest
    <3> QED BY <3>1, <2>0
  <2>3. (1..(k + 1)) \ {k + 1} = 1..k
    OBVIOUS
  <2>4. f[1..(k + 1)] = Step(kind, f[1..k], seq[k + 1], x)
    BY <2>1, <2>2, <2>3 DEF Folds
  <2> QED BY <2>4
<1>5. f[1..n] = acc[n]
  OBVIOUS
<1> HIDE DEF acc
<1> QED BY <1>3, <1>4, <1>5

\* The three folds.
Merges(acc, w, incoming, n, close) ==
  /\ acc[0] = [win |-> w, fresh |-> <<>>, known |-> Ids(w)]
  /\ \A k \in 0..(n - 1) : acc[k + 1] = Placed(acc[k], incoming[k + 1], close)
  /\ PlacedAll(w, incoming, close) = acc[n]

\* The accumulators of a merge, one message after the other.
LEMMA MergeSteps ==
  ASSUME NEW w, NEW n \in Nat, NEW incoming, DOMAIN incoming = 1..n, NEW close
  PROVE  \E acc : Merges(acc, w, incoming, n, close)
<1> DEFINE base == [win |-> w, fresh |-> <<>>, known |-> Ids(w)]
           Is(g) == g = [s \in SUBSET (DOMAIN incoming) |->
                           IF s = {} THEN base
                           ELSE Placed(g[s \ {Max(s)}], incoming[Max(s)], close)]
           f == CHOOSE g : Is(g)
<1>1. PlacedAll(w, incoming, close) = f[DOMAIN incoming]
  BY DEF PlacedAll, FoldLeft, MapThenFoldSet
<1> HIDE DEF base
<1>2. ASSUME NEW g
      PROVE  Is(g) <=> Folds(g, "merge", base, incoming, close, 1..n)
  BY DEF Folds, Step
<1>3. Folds(f, "merge", base, incoming, close, 1..n)
  <2>1. \E g : Is(g)
    <3> HIDE DEF Is
    <3> QED BY <1>2, FoldExists
  <2>2. Is(f)
    <3> HIDE DEF Is
    <3> QED BY <2>1
  <2> HIDE DEF f, Is
  <2> QED BY <1>2, <2>2
<1> HIDE DEF f, Is
<1>4. PICK acc :
           /\ acc[0] = base
           /\ \A k \in 0..(n - 1) : acc[k + 1] = Step("merge", acc[k], incoming[k + 1], close)
           /\ f[1..n] = acc[n]
  BY <1>3, FoldSteps
<1> QED BY <1>1, <1>4 DEF Step, base, Merges

\* acc[k]: what a deletion has kept of the first k entries.
Deletes(acc, w, n, id) ==
  /\ acc[0] = <<>>
  /\ \A k \in 0..(n - 1) :
       acc[k + 1] = IF w[k + 1].id = id THEN acc[k] ELSE Append(acc[k], w[k + 1])
  /\ DeleteMessage(w, id) = acc[n]

\* A deletion goes through the window entry by entry.
LEMMA DeleteSteps ==
  ASSUME NEW w, NEW n \in Nat, DOMAIN w = 1..n, NEW id
  PROVE  \E acc : Deletes(acc, w, n, id)
<1> DEFINE Is(g) == g = [s \in SUBSET (DOMAIN w) |->
                           IF s = {} THEN <<>>
                           ELSE IF w[Max(s)].id = id THEN g[s \ {Max(s)}]
                           ELSE Append(g[s \ {Max(s)}], w[Max(s)])]
           f == CHOOSE g : Is(g)
<1>1. DeleteMessage(w, id) = f[DOMAIN w]
  BY DEF DeleteMessage, FoldLeft, MapThenFoldSet
<1>2. ASSUME NEW g
      PROVE  Is(g) <=> Folds(g, "delete", <<>>, w, id, 1..n)
  BY DEF Folds, Step
<1>3. Folds(f, "delete", <<>>, w, id, 1..n)
  <2>1. \E g : Is(g)
    <3> HIDE DEF Is
    <3> QED BY <1>2, FoldExists
  <2>2. Is(f)
    <3> HIDE DEF Is
    <3> QED BY <2>1
  <2> HIDE DEF f, Is
  <2> QED BY <1>2, <2>2
<1> HIDE DEF f, Is
<1>4. PICK acc :
           /\ acc[0] = <<>>
           /\ \A k \in 0..(n - 1) : acc[k + 1] = Step("delete", acc[k], w[k + 1], id)
           /\ f[1..n] = acc[n]
  BY <1>3, FoldSteps
<1> QED BY <1>1, <1>4 DEF Step, Deletes

\* acc[k]: the groups of the first k messages.
Groups(acc, w, n) ==
  /\ acc[0] = <<>>
  /\ \A k \in 0..(n - 1) : acc[k + 1] = Grouped(acc[k], w[k + 1])
  /\ BuildMessageGroups(w) = acc[n]

\* The groups are built message by message.
LEMMA GroupSteps ==
  ASSUME NEW w, NEW n \in Nat, DOMAIN w = 1..n
  PROVE  \E acc : Groups(acc, w, n)
<1> DEFINE Is(g) == g = [s \in SUBSET (DOMAIN w) |->
                           IF s = {} THEN <<>> ELSE Grouped(g[s \ {Max(s)}], w[Max(s)])]
           f == CHOOSE g : Is(g)
<1>1. BuildMessageGroups(w) = f[DOMAIN w]
  BY DEF BuildMessageGroups, FoldLeft, MapThenFoldSet
<1>2. ASSUME NEW g
      PROVE  Is(g) <=> Folds(g, "group", <<>>, w, 0, 1..n)
  BY DEF Folds, Step
<1>3. Folds(f, "group", <<>>, w, 0, 1..n)
  <2>1. \E g : Is(g)
    <3> HIDE DEF Is
    <3> QED BY <1>2, FoldExists
  <2>2. Is(f)
    <3> HIDE DEF Is
    <3> QED BY <2>1
  <2> HIDE DEF f, Is
  <2> QED BY <1>2, <2>2
<1> HIDE DEF f, Is
<1>4. PICK acc :
           /\ acc[0] = <<>>
           /\ \A k \in 0..(n - 1) : acc[k + 1] = Step("group", acc[k], w[k + 1], 0)
           /\ f[1..n] = acc[n]
  BY <1>3, FoldSteps
<1> QED BY <1>1, <1>4 DEF Step, Groups

\* To flatten is to append one sequence after the other.
Flattens(flat, seqs, n) ==
  /\ flat[1] = seqs[1]
  /\ \A k, j \in 1..n : j = k + 1 => flat[j] = flat[k] \o seqs[j]
  /\ FlattenSeq(seqs) = flat[n]

\* Flattening, one sequence after the other.
LEMMA FlattenSteps ==
  ASSUME NEW n \in Nat \ {0}, NEW seqs, DOMAIN seqs = 1..n, Len(seqs) = n
  PROVE  \E flat : Flattens(flat, seqs, n)
<1> DEFINE Is(g, m) == g = [i \in 1..m |-> IF i = 1 THEN seqs[i] ELSE g[i - 1] \o seqs[i]]
           P == {k \in Nat : \E g : Is(g, k)}
<1>1. 0 \in P
  <2>1. 1..0 = {}
    OBVIOUS
  <2>2. Is([i \in 1..0 |-> 0], 0)
    BY <2>1
  <2> QED BY <2>2
<1>2. ASSUME NEW k \in Nat, k \in P
      PROVE  k + 1 \in P
  <2>1. PICK g : Is(g, k)
    BY <1>2
  <2> DEFINE h == [i \in 1..(k + 1) |->
                     IF i = k + 1 THEN IF i = 1 THEN seqs[i] ELSE g[i - 1] \o seqs[i] ELSE g[i]]
             r == [i \in 1..(k + 1) |-> IF i = 1 THEN seqs[i] ELSE h[i - 1] \o seqs[i]]
  <2>2. ASSUME NEW i \in 1..(k + 1)
        PROVE  h[i] = r[i]
    <3>1. CASE i = k + 1
      <4>1. i # 1 => i - 1 \in 1..(k + 1) /\ i - 1 # k + 1
        BY <3>1
      <4> QED BY <3>1, <4>1
    <3>2. CASE i # k + 1
      <4>1. i \in 1..k
        BY <3>2
      <4>2. g[i] = IF i = 1 THEN seqs[i] ELSE g[i - 1] \o seqs[i]
        BY <2>1, <4>1
      <4>3. i # 1 => i - 1 \in 1..(k + 1) /\ i - 1 # k + 1
        OBVIOUS
      <4> QED BY <3>2, <4>2, <4>3
    <3> QED BY <3>1, <3>2
  <2>3. h = r
    <3> HIDE DEF h
    <3>1. h = [i \in 1..(k + 1) |-> h[i]]
      BY DEF h
    <3> QED BY <2>2, <3>1
  <2>4. \E q : q = [i \in 1..(k + 1) |-> IF i = 1 THEN seqs[i] ELSE q[i - 1] \o seqs[i]]
    <3> HIDE DEF h
    <3>1. h = [i \in 1..(k + 1) |-> IF i = 1 THEN seqs[i] ELSE h[i - 1] \o seqs[i]]
      BY <2>3
    <3> WITNESS h
    <3> QED BY <3>1
  <2>5. k + 1 \in Nat
    OBVIOUS
  <2> QED BY <2>4, <2>5, Zenon
<1>3. n \in P
  <2> HIDE DEF P
  <2>1. 0..n \subseteq P
    BY <1>1, <1>2, Along
  <2> QED BY <2>1
<1> DEFINE flat == CHOOSE g : Is(g, n)
<1>4. flat = [i \in 1..n |-> IF i = 1 THEN seqs[i] ELSE flat[i - 1] \o seqs[i]]
  <2>1. Is(flat, n)
    BY <1>3
  <2> HIDE DEF flat
  <2> QED BY <2>1
<1>5. FlattenSeq(seqs) = flat[n]
  BY DEF FlattenSeq
<1> HIDE DEF flat, Is, P
<1>6. flat[1] = seqs[1]
  BY <1>4
<1>7. ASSUME NEW k \in 1..n, NEW j \in 1..n, j = k + 1
      PROVE  flat[j] = flat[k] \o seqs[j]
  <2>1. j # 1 /\ j - 1 = k
    BY <1>7
  <2>2. flat[j] = flat[j - 1] \o seqs[j]
    BY <1>4, <2>1
  <2> QED BY <2>1, <2>2
<1> QED BY <1>5, <1>6, <1>7 DEF Flattens

\* Messages as the server sends them: in the order of the rows.
IsPage(p) ==
  /\ p \in Seq(Entry)
  /\ \A i \in 1..Len(p) : p[i].cid = 0 /\ p[i].time = 2 * p[i].id
  /\ \A i, j \in 1..Len(p) : i < j => p[i].id < p[j].id

\* d is w without some of its entries.
Within(d, w) ==
  \E e \in [1..Len(d) -> 1..Len(w)] :
    /\ \A i \in 1..Len(d) : d[i] = w[e[i]]
    /\ \A i, j \in 1..Len(d) : i < j => e[i] < e[j]

\* The entries of a window and their ids.
LEMMA IdsOf ==
  ASSUME NEW S, NEW w \in Seq(S)
  PROVE  /\ Len(w) \in Nat /\ DOMAIN w = 1..Len(w) /\ \A i \in 1..Len(w) : w[i] \in S
         /\ Ids(w) = {w[i].id : i \in 1..Len(w)}
         /\ w = <<>> <=> Len(w) = 0
<1>1. Len(w) \in Nat /\ DOMAIN w = 1..Len(w) /\ \A i \in 1..Len(w) : w[i] \in S
  OBVIOUS
<1>2. w = <<>> <=> Len(w) = 0
  OBVIOUS
<1>3. Ids(w) = {w[i].id : i \in 1..Len(w)}
  BY <1>1 DEF Ids
<1> QED BY <1>1, <1>2, <1>3

\* What a merge of the first k messages of a page has come to: fr is what was new.
Merged(a, fr, w, p, k) ==
  /\ a = [win |-> w, fresh |-> fr, known |-> Ids(w) \cup {p[i].id : i \in 1..k}]
  /\ Len(fr) <= k
  /\ \A i \in 1..Len(fr) : \E j \in 1..k : fr[i] = p[j]
  /\ {fr[i].id : i \in 1..Len(fr)} = {p[i].id : i \in 1..k} \ Ids(w)
  /\ \A i, j \in 1..Len(fr) : i < j => fr[i].id < fr[j].id

\* A page without cids replaces nothing: what the window does not have is new, in
\* the page's order.
LEMMA PageIsNew ==
  ASSUME NEW w \in Seq(Entry), NEW p, IsPage(p)
  PROVE  LET all == PlacedAll(w, p, {}) IN
         /\ all.win = w
         /\ IsPage(all.fresh) /\ Len(all.fresh) <= Len(p)
         /\ Ids(all.fresh) = Ids(p) \ Ids(w)
<1> DEFINE n == Len(p)
<1>1. p \in Seq(Entry) /\ n \in Nat /\ DOMAIN p = 1..n /\ \A i \in 1..n : p[i] \in Entry
  BY IdsOf DEF IsPage
<1> HIDE DEF n
<1>2. PICK acc : Merges(acc, w, p, n, {})
  BY <1>1, MergeSteps
<1> DEFINE P == {k \in 0..n : \E fr \in Seq(Entry) : Merged(acc[k], fr, w, p, k)}
<1>3. 0 \in P
  <2>1. <<>> \in Seq(Entry) /\ Len(<<>>) = 0 /\ 1..0 = {} /\ {p[i].id : i \in 1..0} = {}
    OBVIOUS
  <2>2. acc[0] = [win |-> w, fresh |-> <<>>, known |-> Ids(w) \cup {p[i].id : i \in 1..0}]
    BY <1>2, <2>1 DEF Merges
  <2>3. Merged(acc[0], <<>>, w, p, 0)
    <3>1. {<<>>[i].id : i \in 1..Len(<<>>)} = {}
      BY <2>1
    <3> QED BY <2>1, <2>2, <3>1 DEF Merged
  <2>4. 0 \in 0..n
    BY <1>1
  <2> QED BY <2>1, <2>3, <2>4, Zenon
<1>4. ASSUME NEW k \in 0..(n - 1), k \in P
      PROVE  k + 1 \in P
  <2> DEFINE m == p[k + 1]
  <2>1. PICK fr \in Seq(Entry) : Merged(acc[k], fr, w, p, k)
    BY <1>4
  <2>2. m \in Entry /\ m.cid = 0 /\ k + 1 \in 1..n /\ k \in Nat /\ k + 1 \in 0..n
    BY <1>1 DEF IsPage, n
  <2>3. OwnEntry(w, m) = {} /\ Twins(w, m, {}) = {}
    BY <2>2 DEF OwnEntry, Twins
  <2>4. acc[k + 1] = IF m.id \in acc[k].known THEN acc[k]
                     ELSE [acc[k] EXCEPT !.fresh = Append(@, m), !.known = @ \cup {m.id}]
    <3>1. acc[k + 1] = Placed(acc[k], m, {})
      BY <1>2 DEF Merges
    <3>2. acc[k].win = w
      BY <2>1 DEF Merged
    <3> HIDE DEF m
    <3> QED BY <2>3, <3>1, <3>2 DEF Placed
  <2>5. {p[i].id : i \in 1..(k + 1)} = {p[i].id : i \in 1..k} \cup {m.id}
    <3>1. 1..(k + 1) = (1..k) \cup {k + 1}
      BY <2>2
    <3> QED BY <3>1
  <2>6. \A i \in 1..k : p[i].id < m.id /\ p[i].id # m.id
    <3>1. \A i \in 1..k : i \in 1..n /\ i < k + 1
      BY <1>1, <2>2
    <3>2. \A i \in 1..k : p[i].id < m.id
      BY <2>2, <3>1 DEF IsPage, n
    <3>3. \A i \in 1..k : p[i].id \in Int
      BY <1>1, <3>1 DEF Entry
    <3>4. m.id \in Int
      BY <2>2 DEF Entry
    <3> HIDE DEF m
    <3> QED BY <3>2, <3>3, <3>4
  <2>7. m.id \in acc[k].known <=> m.id \in Ids(w)
    <3>1. acc[k].known = Ids(w) \cup {p[i].id : i \in 1..k}
      BY <2>1 DEF Merged
    <3> HIDE DEF m
    <3>2. m.id \notin {p[i].id : i \in 1..k}
      BY <2>6
    <3> QED BY <3>1, <3>2
  <2>8. CASE m.id \in Ids(w)
    <3>1. acc[k + 1] = [win |-> w, fresh |-> fr, known |-> Ids(w) \cup {p[i].id : i \in 1..(k + 1)}]
      BY <2>1, <2>4, <2>5, <2>7, <2>8 DEF Merged
    <3>2. {fr[i].id : i \in 1..Len(fr)} = {p[i].id : i \in 1..(k + 1)} \ Ids(w)
      BY <2>1, <2>5, <2>8 DEF Merged
    <3>3. Len(fr) <= k + 1 /\ \A i \in 1..Len(fr) : \E j \in 1..(k + 1) : fr[i] = p[j]
      BY <2>1, <2>2 DEF Merged
    <3>4. Merged(acc[k + 1], fr, w, p, k + 1)
      BY <2>1, <3>1, <3>2, <3>3 DEF Merged
    <3> QED BY <2>2, <3>4
  <2>9. CASE m.id \notin Ids(w)
    <3> DEFINE fm == Append(fr, m)
    <3>0. fm \in Seq(Entry) /\ Len(fm) = Len(fr) + 1 /\ fm[Len(fr) + 1] = m
          /\ Len(fr) \in Nat /\ \A i \in 1..Len(fr) : fm[i] = fr[i]
      BY <2>1, <2>2
    <3>1. acc[k + 1] = [win |-> w, fresh |-> fm, known |-> Ids(w) \cup {p[i].id : i \in 1..(k + 1)}]
      <4>1. acc[k + 1] = [acc[k] EXCEPT !.fresh = Append(@, m), !.known = @ \cup {m.id}]
        <5> HIDE DEF m
        <5> QED BY <2>4, <2>7, <2>9
      <4> DEFINE known == Ids(w) \cup {p[i].id : i \in 1..k}
      <4>2. acc[k] = [win |-> w, fresh |-> fr, known |-> known]
        BY <2>1 DEF Merged
      <4>3. known \cup {m.id} = Ids(w) \cup {p[i].id : i \in 1..(k + 1)}
        BY <2>5
      <4>5. Append(fr, m) = fm
        OBVIOUS
      <4> HIDE DEF m, known, fm
      <4>4. acc[k].fresh = fr /\ acc[k].known = known
        BY <4>2
      <4>6. acc[k + 1] = [acc[k] EXCEPT !.fresh = fm, !.known = known \cup {m.id}]
        BY <4>1, <4>4, <4>5
      <4>7. acc[k + 1] = [win |-> w, fresh |-> fm, known |-> known \cup {m.id}]
        <5> DEFINE a == acc[k]
                   e == known \cup {m.id}
        <5>1. a = [win |-> w, fresh |-> fr, known |-> known]
          BY <4>2
        <5>2. acc[k + 1] = [a EXCEPT !.fresh = fm, !.known = e]
          BY <4>6
        <5> HIDE DEF a, e
        <5>3. [a EXCEPT !.fresh = fm, !.known = e] = [win |-> w, fresh |-> fm, known |-> e]
          <6> DEFINE b == [a EXCEPT !.fresh = fm]
          <6>1. b = [win |-> w, fresh |-> fm, known |-> known]
            BY <5>1
          <6>2. [a EXCEPT !.fresh = fm, !.known = e] = [b EXCEPT !.known = e]
            OBVIOUS
          <6> HIDE DEF b
          <6>3. [b EXCEPT !.known = e] = [win |-> w, fresh |-> fm, known |-> e]
            BY <6>1
          <6> QED BY <6>2, <6>3
        <5> QED BY <5>2, <5>3 DEF e
      <4> QED BY <4>3, <4>7
    <3> HIDE DEF fm
    <3>2. 1..Len(fm) = (1..Len(fr)) \cup {Len(fr) + 1}
      BY <3>0
    <3>3. {fm[i].id : i \in 1..Len(fm)} = {fr[i].id : i \in 1..Len(fr)} \cup {m.id}
      BY <3>0, <3>2
    <3>4. {fm[i].id : i \in 1..Len(fm)} = {p[i].id : i \in 1..(k + 1)} \ Ids(w)
      BY <2>1, <2>5, <2>9, <3>3 DEF Merged
    <3>5. Len(fm) <= k + 1 /\ \A i \in 1..Len(fm) : \E j \in 1..(k + 1) : fm[i] = p[j]
      <4>1. Len(fm) <= k + 1
        BY <2>1, <2>2, <3>0 DEF Merged
      <4>2. k + 1 \in 1..(k + 1) /\ 1..k \subseteq 1..(k + 1)
        BY <2>2
      <4>3. ASSUME NEW i \in 1..Len(fr)
            PROVE  \E j \in 1..(k + 1) : fm[i] = p[j]
        BY <2>1, <3>0, <4>2 DEF Merged
      <4> QED BY <3>0, <3>2, <4>1, <4>2, <4>3
    <3>6. \A i, j \in 1..Len(fm) : i < j => fm[i].id < fm[j].id
      <4> SUFFICES ASSUME NEW i \in 1..Len(fm), NEW j \in 1..Len(fm), i < j
                   PROVE  fm[i].id < fm[j].id
        OBVIOUS
      <4>1. i \in 1..Len(fr) /\ fm[i] = fr[i]
        BY <3>0
      <4>2. CASE j \in 1..Len(fr)
        BY <2>1, <3>0, <4>1, <4>2 DEF Merged
      <4>3. CASE j = Len(fr) + 1
        <5>1. PICK q \in 1..k : fr[i] = p[q]
          BY <2>1, <4>1 DEF Merged
        <5> QED BY <2>6, <3>0, <4>1, <4>3, <5>1
      <4> QED BY <3>0, <3>2, <4>2, <4>3
    <3>7. Merged(acc[k + 1], fm, w, p, k + 1)
      BY <3>0, <3>1, <3>4, <3>5, <3>6 DEF Merged
    <3> QED BY <2>2, <3>0, <3>7
  <2> QED BY <2>8, <2>9
<1>5. n \in P
  <2> HIDE DEF P
  <2>1. 0..n \subseteq P
    BY <1>1, <1>3, <1>4, Along
  <2> QED BY <1>1, <2>1
<1>6. PICK fr \in Seq(Entry) : Merged(acc[n], fr, w, p, n)
  BY <1>5
<1>7. IsPage(fr)
  <2>1. \A i \in 1..Len(fr) : \E j \in 1..n : fr[i] = p[j]
    BY <1>6 DEF Merged
  <2>2. \A i \in 1..Len(fr) : fr[i].cid = 0 /\ fr[i].time = 2 * fr[i].id
    BY <2>1 DEF IsPage, n
  <2> QED BY <1>6, <2>2 DEF IsPage, Merged
<1>8. Ids(fr) = Ids(p) \ Ids(w)
  <2>1. Ids(fr) = {fr[i].id : i \in 1..Len(fr)}
    BY <1>6, IdsOf
  <2>2. Ids(p) = {p[i].id : i \in 1..n}
    BY <1>1, IdsOf DEF n
  <2> QED BY <1>6, <2>1, <2>2 DEF Merged
<1>9. PlacedAll(w, p, {}) = [win |-> w, fresh |-> fr, known |-> Ids(w) \cup {p[i].id : i \in 1..n}]
  BY <1>2, <1>6 DEF Merged, Merges
<1>10. Len(fr) <= Len(p)
  BY <1>6 DEF Merged, n
<1> QED BY <1>7, <1>8, <1>9, <1>10

\* d is fr, then as much of w as there is room for.
InFront(d, fr, w) ==
  /\ d \in Seq(Entry) /\ Len(fr) <= Len(d) /\ Len(d) <= Len(fr) + Len(w)
  /\ \A i \in 1..Len(fr) : d[i] = fr[i]
  /\ \A i \in 1..(Len(d) - Len(fr)) : d[Len(fr) + i] = w[i]
  /\ Len(d) < Len(fr) + Len(w) => Len(d) = HistoryCap
  /\ Len(w) <= HistoryCap => Len(d) <= HistoryCap
  /\ fr = <<>> => d = w

\* A page of older messages comes before the window.
LEMMA PageInFront ==
  ASSUME NEW w \in Seq(Entry), NEW p, IsPage(p), Len(p) <= HistoryCap
  PROVE  LET fr == Fresh(w, p, {}) IN
         /\ IsPage(fr) /\ fr \in Seq(Entry) /\ Len(fr) <= Len(p) /\ Ids(fr) = Ids(p) \ Ids(w)
         /\ InFront(PrependHistory(w, p, {}), fr, w)
<1> DEFINE fr == Fresh(w, p, {})
           all == fr \o w
           d == PrependHistory(w, p, {})
<1>1. /\ PlacedAll(w, p, {}).win = w /\ PlacedAll(w, p, {}).fresh = fr
      /\ IsPage(fr) /\ Len(fr) <= Len(p) /\ Ids(fr) = Ids(p) \ Ids(w)
  BY PageIsNew DEF Fresh
<1>2. d = IF fr = <<>> \/ Len(all) <= HistoryCap THEN all ELSE SubSeq(all, 1, HistoryCap)
  BY <1>1 DEF PrependHistory, Merge
<1>3. fr \in Seq(Entry) /\ HistoryCap \in Nat \ {0} /\ p \in Seq(Entry)
  BY <1>1, MessageWindowAssumption DEF IsPage
<1> HIDE DEF fr, d
<1>4. /\ all \in Seq(Entry) /\ Len(all) = Len(fr) + Len(w) /\ Len(fr) \in Nat /\ Len(w) \in Nat
      /\ \A i \in 1..Len(fr) : all[i] = fr[i]
      /\ \A i \in 1..Len(w) : all[Len(fr) + i] = w[i]
  BY <1>3
<1>5. CASE fr = <<>>
  <2>1. all = w
    BY <1>3, <1>5
  <2>2. d = w /\ Len(fr) = 0
    BY <1>2, <1>5, <2>1
  <2>3. InFront(d, fr, w)
    BY <1>5, <2>2, <1>4 DEF InFront
  <2> QED BY <1>1, <1>3, <2>3 DEF d, fr
<1>6. CASE fr # <<>> /\ Len(all) <= HistoryCap
  <2>1. d = all
    BY <1>2, <1>6
  <2>2. InFront(d, fr, w)
    BY <1>3, <1>4, <1>6, <2>1 DEF InFront
  <2> QED BY <1>1, <1>3, <2>2 DEF d, fr
<1>7. CASE fr # <<>> /\ Len(all) > HistoryCap
  <2> HIDE DEF all
  <2>1. d = SubSeq(all, 1, HistoryCap)
    BY <1>2, <1>4, <1>3, <1>7
  <2>2. /\ d \in Seq(Entry) /\ Len(d) = HistoryCap
        /\ \A i \in 1..HistoryCap : d[i] = all[i]
    BY <1>3, <1>4, <1>7, <2>1
  <2>3. Len(fr) <= HistoryCap
    BY <1>1, <1>3
  <2>4. \A i \in 1..Len(fr) : d[i] = fr[i]
    BY <1>3, <1>4, <2>2, <2>3
  <2>5. \A i \in 1..(Len(d) - Len(fr)) : d[Len(fr) + i] = w[i]
    <3> SUFFICES ASSUME NEW i \in 1..(Len(d) - Len(fr))
                 PROVE  d[Len(fr) + i] = w[i]
      OBVIOUS
    <3>1. Len(fr) + i \in 1..HistoryCap /\ i \in 1..Len(w)
      BY <1>3, <1>4, <1>7, <2>2, <2>3
    <3> QED BY <1>4, <2>2, <3>1
  <2>6. InFront(d, fr, w)
    BY <1>3, <1>4, <1>7, <2>2, <2>3, <2>4, <2>5 DEF InFront
  <2> QED BY <1>1, <1>3, <2>6 DEF d, fr
<1> QED BY <1>4, <1>3, <1>5, <1>6, <1>7

\* d is w without its first entries and with m at the end.
AtEnd(d, w, m) ==
  \E cut \in 0..Len(w) :
    /\ d \in Seq(Entry) /\ Len(d) = Len(w) - cut + 1
    /\ \A i \in 1..(Len(w) - cut) : d[i] = w[i + cut]
    /\ d[Len(d)] = m
    /\ cut > 0 => Len(d) = MessageCap
    /\ Len(d) <= MessageCap

\* A merge of one message is one placing.
LEMMA MergeOne ==
  ASSUME NEW w, NEW m
  PROVE  PlacedAll(w, <<m>>, {}) = Placed([win |-> w, fresh |-> <<>>, known |-> Ids(w)], m, {})
<1>1. 1 \in Nat /\ DOMAIN <<m>> = 1..1 /\ <<m>>[1] = m /\ 0 \in 0..(1 - 1) /\ 0 + 1 = 1
  OBVIOUS
<1>2. PICK acc : Merges(acc, w, <<m>>, 1, {})
  BY <1>1, MergeSteps
<1>3. acc[0 + 1] = Placed(acc[0], <<m>>[0 + 1], {})
  BY <1>1, <1>2 DEF Merges
<1> QED BY <1>1, <1>2, <1>3 DEF Merges

\* A message that is in no way in the window yet goes to its end.
LEMMA NewAtEnd ==
  ASSUME NEW w \in Seq(Entry), NEW m \in Entry, m.id \notin Ids(w),
         m.cid # 0 => m.cid \notin Ids(w)
  PROVE  Fresh(w, <<m>>, {}) = <<m>> /\ AtEnd(AddMessage(w, m, {}), w, m)
<1> DEFINE a == [win |-> w, fresh |-> <<>>, known |-> Ids(w)]
           b == Placed(a, m, {})
           all == Append(w, m)
           d == AddMessage(w, m, {})
<1>1. OwnEntry(w, m) = {} /\ Twins(w, m, {}) = {}
  BY DEF OwnEntry, Twins, Ids
<1>2. b = [a EXCEPT !.fresh = Append(@, m), !.known = @ \cup {m.id}]
  BY <1>1 DEF Placed
<1>3. b.win = w /\ b.fresh = <<m>>
  <2>1. Append(<<>>, m) = <<m>>
    OBVIOUS
  <2>2. a.fresh = <<>> /\ a.win = w /\ "fresh" \in DOMAIN a
    OBVIOUS
  <2> HIDE DEF a, b
  <2>3. b.fresh = Append(a.fresh, m) /\ b.win = a.win
    BY <1>2, <2>2
  <2> QED BY <2>1, <2>2, <2>3
<1>4. PlacedAll(w, <<m>>, {}) = b
  BY MergeOne
<1> HIDE DEF b
<1>5. Fresh(w, <<m>>, {}) = <<m>>
  BY <1>3, <1>4 DEF Fresh
<1>6. MessageCap \in Nat \ {0} /\ Len(w) \in Nat
  BY MessageWindowAssumption
<1>7. /\ all \in Seq(Entry) /\ Len(all) = Len(w) + 1 /\ all[Len(w) + 1] = m
      /\ \A i \in 1..Len(w) : all[i] = w[i]
  OBVIOUS
<1>8. d = IF Len(all) <= MessageCap THEN all ELSE SubSeq(all, Len(all) - MessageCap + 1, Len(all))
  <2>1. w \o <<m>> = all /\ <<m>> # <<>>
    OBVIOUS
  <2> QED BY <1>3, <1>4, <2>1 DEF AddMessage, Merge
<1> HIDE DEF all, d
<1>9. CASE Len(all) <= MessageCap
  <2>1. d = all
    BY <1>8, <1>9
  <2> DEFINE cut == 0
  <2>2. cut \in 0..Len(w)
    BY <1>6
  <2>3. /\ d \in Seq(Entry) /\ Len(d) = Len(w) - cut + 1
        /\ \A i \in 1..(Len(w) - cut) : d[i] = w[i + cut]
        /\ d[Len(d)] = m
        /\ cut > 0 => Len(d) = MessageCap
        /\ Len(d) <= MessageCap
    BY <1>6, <1>7, <1>9, <2>1
  <2>4. AtEnd(d, w, m)
    BY <2>2, <2>3 DEF AtEnd
  <2> QED BY <1>5, <2>4 DEF d
<1>10. CASE Len(all) > MessageCap
  <2> DEFINE cut == Len(w) + 1 - MessageCap
  <2>1. cut \in 0..Len(w) /\ cut \in Nat /\ Len(all) = MessageCap + cut
    BY <1>6, <1>7, <1>10
  <2>2. d = SubSeq(all, cut + 1, Len(all))
    <3>1. Len(all) - MessageCap + 1 = cut + 1 /\ ~(Len(all) <= MessageCap)
      BY <1>6, <1>7, <1>10
    <3> QED BY <1>8, <3>1
  <2> HIDE DEF cut
  <2>3. /\ d \in Seq(Entry) /\ Len(d) = MessageCap
        /\ \A i \in 1..MessageCap : d[i] = all[i + cut]
    <3>1. /\ d \in Seq(Entry) /\ Len(d) = Len(all) - (cut + 1) + 1
          /\ \A i \in 1..Len(d) : d[i] = all[i + (cut + 1) - 1]
      BY <1>6, <1>7, <2>1, <2>2
    <3>2. Len(d) = MessageCap
      BY <1>6, <1>7, <2>1, <3>1
    <3>3. ASSUME NEW i \in 1..MessageCap
          PROVE  d[i] = all[i + cut]
      <4>1. i + (cut + 1) - 1 = i + cut
        BY <2>1
      <4> QED BY <3>1, <3>2, <4>1
    <3> QED BY <3>1, <3>2, <3>3
  <2>4. \A i \in 1..(Len(w) - cut) : d[i] = w[i + cut]
    <3> SUFFICES ASSUME NEW i \in 1..(Len(w) - cut)
                 PROVE  d[i] = w[i + cut]
      OBVIOUS
    <3>1. i \in 1..MessageCap /\ i + cut \in 1..Len(w)
      BY <1>6, <1>7, <2>1
    <3> QED BY <1>7, <2>3, <3>1
  <2>5. d[Len(d)] = m
    <3>0. Len(d) = MessageCap /\ Len(all) = Len(w) + 1
      BY <1>7, <2>3
    <3>1. Len(d) \in 1..MessageCap /\ Len(d) + cut = Len(w) + 1
      BY <1>6, <2>1, <3>0
    <3> QED BY <1>7, <2>3, <3>1
  <2>6. Len(d) = Len(w) - cut + 1
    <3>0. Len(d) = MessageCap /\ Len(all) = Len(w) + 1
      BY <1>7, <2>3
    <3> QED BY <1>6, <2>1, <3>0
  <2>7. AtEnd(d, w, m)
    BY <1>6, <2>1, <2>3, <2>4, <2>5, <2>6 DEF AtEnd
  <2> QED BY <1>5, <2>7 DEF d
<1> QED BY <1>6, <1>7, <1>9, <1>10

\* The echo of a message the page shows replaces it.
LEMMA EchoReplaces ==
  ASSUME NEW w \in Seq(Entry), NEW m \in Entry, NEW i \in 1..Len(w),
         w[i].id = m.cid, m.cid # 0, \A j \in 1..Len(w) : w[j].id = m.cid => j = i
  PROVE  Fresh(w, <<m>>, {}) = <<>> /\ AddMessage(w, m, {}) = [w EXCEPT ![i] = m]
<1> DEFINE a == [win |-> w, fresh |-> <<>>, known |-> Ids(w)]
           b == Placed(a, m, {})
<1>1. OwnEntry(w, m) = {i}
  BY DEF OwnEntry
<1>2. Min({i}) = i
  BY DEF Min
<1>3. b = [a EXCEPT !.win[i] = m, !.known = @ \cup {m.id}]
  BY <1>1, <1>2 DEF Placed
<1>4. b.win = [w EXCEPT ![i] = m] /\ b.fresh = <<>>
  BY <1>3
<1>5. PlacedAll(w, <<m>>, {}) = b
  BY MergeOne
<1> HIDE DEF b
<1>6. Fresh(w, <<m>>, {}) = <<>>
  BY <1>4, <1>5 DEF Fresh
<1>7. [w EXCEPT ![i] = m] \in Seq(Entry) /\ [w EXCEPT ![i] = m] \o <<>> = [w EXCEPT ![i] = m]
  OBVIOUS
<1>8. AddMessage(w, m, {}) = [w EXCEPT ![i] = m]
  BY <1>4, <1>5, <1>7 DEF AddMessage, Merge
<1> QED BY <1>6, <1>8

\* The first k entries of w without those of the id: a[i] is w[e[i]].
Kept(a, e, w, k, id) ==
  /\ Len(e) = Len(a) /\ Len(a) <= k
  /\ \A i \in 1..Len(a) : e[i] \in i..k /\ a[i] = w[e[i]] /\ a[i].id # id
  /\ \A i, j \in 1..Len(a) : i < j => e[i] < e[j]
  /\ \A p \in 1..k : w[p].id # id => \E i \in 1..Len(a) : e[i] = p
  /\ \A p \in 1..k : w[p].id = id => Len(a) < k

\* A deletion keeps the other entries, in their order.
LEMMA DeleteKeeps ==
  ASSUME NEW w \in Seq(Entry), NEW id
  PROVE  /\ DeleteMessage(w, id) \in Seq(Entry)
         /\ \E e \in Seq(Nat) : Kept(DeleteMessage(w, id), e, w, Len(w), id)
<1> DEFINE n == Len(w)
<1>1. n \in Nat /\ DOMAIN w = 1..n /\ \A i \in 1..n : w[i] \in Entry
  BY IdsOf
<1> HIDE DEF n
<1>2. PICK acc : Deletes(acc, w, n, id)
  BY <1>1, DeleteSteps
<1> DEFINE P == {k \in 0..n : acc[k] \in Seq(Entry) /\ \E e \in Seq(Nat) : Kept(acc[k], e, w, k, id)}
<1>3. 0 \in P
  <2>1. <<>> \in Seq(Entry) /\ <<>> \in Seq(Nat) /\ Len(<<>>) = 0 /\ 1..0 = {}
    OBVIOUS
  <2>2. Kept(<<>>, <<>>, w, 0, id)
    BY <2>1 DEF Kept
  <2>3. 0 \in 0..n /\ acc[0] = <<>>
    BY <1>1, <1>2 DEF Deletes
  <2> QED BY <2>1, <2>2, <2>3, Zenon
<1>4. ASSUME NEW k \in 0..(n - 1), k \in P
      PROVE  k + 1 \in P
  <2> DEFINE a == acc[k]
  <2>1. PICK e \in Seq(Nat) : Kept(a, e, w, k, id)
    BY <1>4
  <2>2. a \in Seq(Entry) /\ k \in Nat /\ k + 1 \in 0..n /\ k + 1 \in 1..n /\ w[k + 1] \in Entry
    BY <1>1, <1>4
  <2>3. acc[k + 1] = IF w[k + 1].id = id THEN a ELSE Append(a, w[k + 1])
    BY <1>2 DEF Deletes
  <2> HIDE DEF a
  <2>0. Len(a) \in Nat /\ 1..(k + 1) = (1..k) \cup {k + 1}
    BY <2>2
  <2>4. CASE w[k + 1].id = id
    <3>1. Kept(a, e, w, k + 1, id)
      <4>1. Len(a) < k + 1 /\ Len(e) = Len(a)
        BY <2>0, <2>1, <2>2 DEF Kept
      <4>2. \A i \in 1..Len(a) : e[i] \in i..(k + 1) /\ a[i] = w[e[i]] /\ a[i].id # id
        BY <2>0, <2>1, <2>2 DEF Kept
      <4>3. \A i, j \in 1..Len(a) : i < j => e[i] < e[j]
        BY <2>1 DEF Kept
      <4>4. \A p \in 1..(k + 1) : w[p].id # id => \E i \in 1..Len(a) : e[i] = p
        BY <2>0, <2>1, <2>4 DEF Kept
      <4> QED BY <4>1, <4>2, <4>3, <4>4, <2>0, <2>2 DEF Kept
    <3>2. acc[k + 1] = a
      BY <2>3, <2>4
    <3> QED BY <2>1, <2>2, <3>1, <3>2, Zenon
  <2>5. CASE w[k + 1].id # id
    <3> DEFINE b == Append(a, w[k + 1])
               f == Append(e, k + 1)
    <3>1. /\ b \in Seq(Entry) /\ Len(b) = Len(a) + 1 /\ b[Len(a) + 1] = w[k + 1]
          /\ \A i \in 1..Len(a) : b[i] = a[i]
      BY <2>2
    <3>2. Len(e) = Len(a)
      BY <2>1 DEF Kept
    <3>3. /\ f \in Seq(Nat) /\ Len(f) = Len(a) + 1 /\ f[Len(a) + 1] = k + 1
          /\ \A i \in 1..Len(a) : f[i] = e[i]
      BY <2>1, <2>2, <3>2
    <3>4. acc[k + 1] = b
      BY <2>3, <2>5
    <3> HIDE DEF b, f
    <3>5. 1..Len(b) = (1..Len(a)) \cup {Len(a) + 1} /\ Len(a) <= k
      BY <2>0, <2>1, <3>1 DEF Kept
    <3>6. Kept(b, f, w, k + 1, id)
      <4>1. Len(b) <= k + 1 /\ Len(f) = Len(b)
        BY <2>0, <2>2, <3>1, <3>3, <3>5
      <4>2. ASSUME NEW i \in 1..Len(b)
            PROVE  f[i] \in i..(k + 1) /\ b[i] = w[f[i]] /\ b[i].id # id
        <5>1. CASE i \in 1..Len(a)
          <6>1. e[i] \in i..k /\ a[i] = w[e[i]] /\ a[i].id # id
            BY <2>1, <5>1 DEF Kept
          <6>2. f[i] = e[i] /\ b[i] = a[i]
            BY <3>1, <3>3, <5>1
          <6> QED BY <2>2, <5>1, <6>1, <6>2
        <5>2. CASE i = Len(a) + 1
          BY <2>0, <2>2, <2>5, <3>1, <3>3, <3>5, <5>2
        <5> QED BY <3>5, <5>1, <5>2
      <4>3. ASSUME NEW i \in 1..Len(b), NEW j \in 1..Len(b), i < j
            PROVE  f[i] < f[j]
        <5>1. i \in 1..Len(a)
          BY <2>0, <3>1, <4>3
        <5>2. CASE j \in 1..Len(a)
          BY <2>1, <3>3, <4>3, <5>1, <5>2 DEF Kept
        <5>3. CASE j = Len(a) + 1
          <6>1. e[i] \in i..k
            BY <2>1, <5>1 DEF Kept
          <6> QED BY <2>2, <3>3, <5>1, <5>3, <6>1
        <5> QED BY <3>5, <5>2, <5>3
      <4>4. ASSUME NEW p \in 1..(k + 1), w[p].id # id
            PROVE  \E i \in 1..Len(b) : f[i] = p
        <5>1. CASE p \in 1..k
          <6>1. PICK i \in 1..Len(a) : e[i] = p
            BY <2>1, <4>4, <5>1 DEF Kept
          <6> QED BY <3>3, <3>5, <6>1
        <5>2. CASE p = k + 1
          BY <3>3, <3>5, <5>2
        <5> QED BY <2>0, <5>1, <5>2
      <4>5. ASSUME NEW p \in 1..(k + 1), w[p].id = id
            PROVE  Len(b) < k + 1
        <5>1. p \in 1..k
          BY <2>0, <2>5, <4>5
        <5>2. Len(a) < k
          BY <2>1, <4>5, <5>1 DEF Kept
        <5> QED BY <2>0, <2>2, <3>1, <5>2
      <4> QED BY <4>1, <4>2, <4>3, <4>4, <4>5 DEF Kept
    <3> QED BY <2>2, <3>1, <3>3, <3>4, <3>6, Zenon
  <2> QED BY <2>4, <2>5
<1>5. n \in P
  <2> HIDE DEF P
  <2>1. 0..n \subseteq P
    BY <1>1, <1>3, <1>4, Along
  <2> QED BY <1>1, <2>1
<1>6. DeleteMessage(w, id) = acc[n]
  BY <1>2 DEF Deletes
<1> QED BY <1>5, <1>6 DEF n

\* What a deletion does to the ids and to the ends of the window.
LEMMA DeleteEnds ==
  ASSUME NEW w \in Seq(Entry), NEW id, NEW d, d = DeleteMessage(w, id)
  PROVE  /\ d \in Seq(Entry) /\ Len(d) <= Len(w) /\ Within(d, w)
         /\ Ids(d) = Ids(w) \ {id}
         /\ id \in Ids(w) => Len(d) < Len(w)
         /\ w # <<>> /\ w[1].id # id => d # <<>> /\ d[1] = w[1]
         /\ w # <<>> /\ Last(w).id # id => d # <<>> /\ Last(d) = Last(w)
<1>1. d \in Seq(Entry)
  BY DeleteKeeps
<1>2. PICK e \in Seq(Nat) : Kept(d, e, w, Len(w), id)
  BY DeleteKeeps
<1>3. Len(w) \in Nat /\ Len(d) \in Nat /\ Len(e) = Len(d) /\ Len(d) <= Len(w)
  BY <1>1, <1>2 DEF Kept
<1>4. \A i \in 1..Len(d) : e[i] \in i..Len(w) /\ e[i] \in 1..Len(w) /\ d[i] = w[e[i]] /\ d[i].id # id
  BY <1>2, <1>3 DEF Kept
<1>5. \A i, j \in 1..Len(d) : i < j => e[i] < e[j]
  BY <1>2 DEF Kept
<1>6. \A p \in 1..Len(w) : w[p].id # id => \E i \in 1..Len(d) : e[i] = p
  BY <1>2 DEF Kept
<1>7. Within(d, w)
  <2>1. e = [i \in 1..Len(d) |-> e[i]]
    BY <1>3
  <2>2. e \in [1..Len(d) -> 1..Len(w)]
    BY <1>4, <2>1
  <2> QED BY <1>4, <1>5, <2>2 DEF Within
<1>8. Ids(d) = Ids(w) \ {id}
  <2>0. Ids(w) = {w[i].id : i \in 1..Len(w)}
    BY IdsOf
  <2>1. Ids(d) = {d[i].id : i \in 1..Len(d)}
    BY <1>1, IdsOf
  <2>2. \A x \in Ids(d) : x \in Ids(w) \ {id}
    BY <1>4, <2>0, <2>1
  <2>3. ASSUME NEW x \in Ids(w), x # id
        PROVE  x \in Ids(d)
    <3>1. PICK p \in 1..Len(w) : w[p].id = x
      BY <2>0
    <3>2. PICK i \in 1..Len(d) : e[i] = p
      BY <1>6, <2>3, <3>1
    <3>3. d[i].id = x
      BY <1>4, <3>1, <3>2
    <3> QED BY <2>1, <3>3
  <2> QED BY <2>2, <2>3
<1>9. id \in Ids(w) => Len(d) < Len(w)
  BY <1>2, IdsOf DEF Kept
<1>10. ASSUME w # <<>>, w[1].id # id
       PROVE  d # <<>> /\ d[1] = w[1]
  <2>1. 1 \in 1..Len(w)
    BY <1>3, <1>10
  <2>2. PICK i \in 1..Len(d) : e[i] = 1
    BY <1>6, <1>10, <2>1
  <2>3. i = 1
    BY <1>3, <1>4, <2>2
  <2>4. d[1] = w[1]
    BY <1>4, <2>2, <2>3
  <2>5. d # <<>>
    BY <1>1, <2>2
  <2> QED BY <2>4, <2>5
<1>11. ASSUME w # <<>>, Last(w).id # id
       PROVE  d # <<>> /\ Last(d) = Last(w)
  <2>1. Len(w) \in 1..Len(w) /\ w[Len(w)].id # id
    BY <1>3, <1>11 DEF Last
  <2>2. PICK i \in 1..Len(d) : e[i] = Len(w)
    BY <1>6, <2>1
  <2>3. i = Len(d)
    <3> SUFFICES ASSUME i < Len(d)
                 PROVE  FALSE
      BY <1>3
    <3>1. Len(d) \in 1..Len(d)
      BY <1>3
    <3>2. e[i] < e[Len(d)] /\ e[Len(d)] \in 1..Len(w)
      BY <1>4, <1>5, <3>1
    <3> QED BY <1>3, <2>2, <3>2
  <2>4. d[Len(d)] = w[Len(w)]
    BY <1>4, <2>2, <2>3
  <2>5. d # <<>>
    BY <1>1, <2>2
  <2> QED BY <2>4, <2>5 DEF Last
<1> QED BY <1>1, <1>3, <1>7, <1>8, <1>9, <1>10, <1>11

\* A sequence more at the end is the end of what is flattened.
LEMMA FlattenMore ==
  ASSUME NEW S, NEW gs \in Seq(Seq(S)), NEW s \in Seq(S)
  PROVE  FlattenSeq(gs) \in Seq(S) /\ FlattenSeq(Append(gs, s)) = FlattenSeq(gs) \o s
<1> DEFINE n == Len(gs)
           more == Append(gs, s)
<1>1. n \in Nat /\ DOMAIN gs = 1..n /\ \A i \in 1..n : gs[i] \in Seq(S)
  OBVIOUS
<1>2. /\ more \in Seq(Seq(S)) /\ Len(more) = n + 1 /\ DOMAIN more = 1..(n + 1) /\ more[n + 1] = s
      /\ \A i \in 1..n : more[i] = gs[i]
  OBVIOUS
<1> HIDE DEF n, more
<1>3. n + 1 \in Nat \ {0}
  BY <1>1
<1>4. PICK after : Flattens(after, more, n + 1)
  BY <1>2, <1>3, FlattenSteps
<1>5. CASE n = 0
  <2>1. gs = <<>>
    BY <1>5 DEF n
  <2>2. FlattenSeq(gs) = <<>>
    BY <2>1 DEF FlattenSeq
  <2>3. FlattenSeq(more) = s
    BY <1>2, <1>4, <1>5 DEF Flattens
  <2> QED BY <2>2, <2>3 DEF more
<1>6. CASE n # 0
  <2>0. n \in Nat \ {0}
    BY <1>1, <1>6
  <2>1. PICK flat : Flattens(flat, gs, n)
    BY <1>1, <2>0, FlattenSteps DEF n
  <2> DEFINE P == {k \in 0..n : k # 0 => flat[k] = after[k] /\ flat[k] \in Seq(S)}
  <2>2. 0 \in P
    BY <1>1
  <2>3. ASSUME NEW k \in 0..(n - 1), k \in P
        PROVE  k + 1 \in P
    <3>0. k + 1 \in 0..n /\ k + 1 \in 1..n
      BY <1>1
    <3>1. CASE k = 0
      <4>1. flat[1] = gs[1] /\ after[1] = more[1]
        BY <1>4, <2>1 DEF Flattens
      <4>2. flat[1] = after[1] /\ flat[1] \in Seq(S)
        BY <1>1, <1>2, <3>0, <3>1, <4>1
      <4> QED BY <3>0, <3>1, <4>2
    <3>2. CASE k # 0
      <4>0. k \in 1..n /\ k + 1 \in 1..n /\ k \in 1..(n + 1) /\ k + 1 \in 1..(n + 1)
        BY <1>1, <3>2
      <4>2. flat[k + 1] = flat[k] \o gs[k + 1]
        BY <2>1, <4>0, Zenon DEF Flattens
      <4>3. after[k + 1] = after[k] \o more[k + 1]
        BY <1>4, <4>0, Zenon DEF Flattens
      <4>4. flat[k] = after[k] /\ flat[k] \in Seq(S)
        BY <2>3, <3>2
      <4>5. more[k + 1] = gs[k + 1] /\ gs[k + 1] \in Seq(S)
        BY <1>1, <1>2, <3>0
      <4>6. flat[k] \o gs[k + 1] \in Seq(S)
        BY <4>4, <4>5
      <4>7. flat[k + 1] = after[k + 1] /\ flat[k + 1] \in Seq(S)
        BY <4>2, <4>3, <4>4, <4>5, <4>6, Zenon
      <4> QED BY <3>0, <4>7
    <3> QED BY <3>1, <3>2
  <2>4. n \in P
    <3> HIDE DEF P
    <3>1. 0..n \subseteq P
      BY <1>1, <2>2, <2>3, Along
    <3> QED BY <1>1, <3>1
  <2>5. flat[n] = after[n] /\ flat[n] \in Seq(S)
    BY <1>6, <2>4
  <2>6. after[n + 1] = after[n] \o more[n + 1]
    <3>1. n \in 1..(n + 1) /\ n + 1 \in 1..(n + 1)
      BY <2>0
    <3> QED BY <1>4, <3>1, Zenon DEF Flattens
  <2>7. FlattenSeq(gs) = flat[n] /\ FlattenSeq(more) = after[n + 1]
    BY <1>4, <2>1 DEF Flattens
  <2>8. FlattenSeq(more) = FlattenSeq(gs) \o s
    BY <1>2, <2>5, <2>6, <2>7, Zenon
  <2> QED BY <2>5, <2>7, <2>8 DEF more
<1> QED BY <1>5, <1>6

\* The last element replaced by x, and one more element.
LEMMA LastOf ==
  ASSUME NEW S, NEW gs \in Seq(S), gs # <<>>, NEW x \in S
  PROVE  LET n == Len(gs)
             front == SubSeq(gs, 1, n - 1)
             after == [gs EXCEPT ![n] = x]
         IN /\ n \in Nat \ {0} /\ front \in Seq(S)
            /\ gs = Append(front, gs[n]) /\ after = Append(front, x)
            /\ after \in Seq(S) /\ Len(after) = n /\ after[n] = x
            /\ \A i \in 1..n : i # n => after[i] = gs[i]
<1> DEFINE n == Len(gs)
           front == SubSeq(gs, 1, n - 1)
           after == [gs EXCEPT ![n] = x]
<1>1. n \in Nat \ {0}
  OBVIOUS
<1>2. front \in Seq(S) /\ Len(front) = n - 1 /\ \A i \in 1..(n - 1) : front[i] = gs[i]
  <2>1. n - 1 \in Nat /\ n - 1 <= Len(gs) /\ (n - 1) - 1 + 1 = n - 1
    BY <1>1
  <2> DEFINE q == n - 1
  <2> HIDE DEF q
  <2>2. q \in Nat /\ q <= Len(gs)
    BY <2>1 DEF q
  <2>3. /\ SubSeq(gs, 1, q) \in Seq(S) /\ Len(SubSeq(gs, 1, q)) = q
        /\ \A i \in 1..q : SubSeq(gs, 1, q)[i] = gs[i]
    BY <2>2
  <2> QED BY <2>3 DEF q
<1>3. /\ after \in Seq(S) /\ Len(after) = n /\ after[n] = x
      /\ \A i \in 1..n : i # n => after[i] = gs[i]
  BY <1>1
<1> HIDE DEF front, after
<1>4. gs = Append(front, gs[n])
  BY <1>1, <1>2
<1>5. after = Append(front, x)
  BY <1>1, <1>2, <1>3
<1> QED BY <1>1, <1>2, <1>3, <1>4, <1>5 DEF front, after

\* The first k + 1 elements are the first k and one more.
LEMMA OneMore ==
  ASSUME NEW S, NEW gs \in Seq(S), NEW x \in S
  PROVE  LET after == Append(gs, x) IN
         /\ Len(gs) \in Nat /\ \A i \in 1..Len(gs) : gs[i] \in S
         /\ after \in Seq(S) /\ Len(after) = Len(gs) + 1 /\ after[Len(gs) + 1] = x
         /\ \A i \in 1..Len(gs) : after[i] = gs[i]
  OBVIOUS

\* The message belongs to the group of the one before it.
Follows(m, before) == m.user = before.user /\ m.text # "" /\ m.time < before.time + GroupWindow

\* The groups gs are the first k messages of v, cut where they have to be.
GroupsOf(gs, v, k) ==
  /\ gs \in Seq(Seq(Entry)) /\ FlattenSeq(gs) = SubSeq(v, 1, k)
  /\ \A g \in 1..Len(gs) : Len(gs[g]) > 0
  /\ \A g \in 1..Len(gs) : \A i \in 2..Len(gs[g]) : Follows(gs[g][i], gs[g][i - 1])
  /\ \A g \in 2..Len(gs) : ~Follows(gs[g][1], gs[g - 1][Len(gs[g - 1])])

\* The condition of buildMessageGroups is that one.
LEMMA JoinsIfFollows ==
  ASSUME NEW group, NEW m \in Entry, group[Len(group)] \in Entry
  PROVE  JoinsGroup(group, m) <=> Follows(m, group[Len(group)])
<1> DEFINE last == group[Len(group)]
<1>1. m.time \in Int /\ last.time \in Int /\ GroupWindow \in Int
  BY TranscriptAssumption DEF Entry
<1>2. m.time - last.time < GroupWindow <=> m.time < last.time + GroupWindow
  BY <1>1
<1> HIDE DEF last
<1>3. JoinsGroup(group, m) <=>
        m.user = last.user /\ m.text # "" /\ m.time - last.time < GroupWindow
  BY DEF JoinsGroup, Last, last
<1>4. JoinsGroup(group, m) <=> Follows(m, last)
  BY <1>2, <1>3 DEF Follows
<1> QED BY <1>4 DEF last

\* One message more, and the groups are still exactly cut.
LEMMA GroupedKeeps ==
  ASSUME NEW v \in Seq(Entry), NEW k \in 0..(Len(v) - 1), NEW gs, GroupsOf(gs, v, k)
  PROVE  GroupsOf(Grouped(gs, v[k + 1]), v, k + 1)
<1> DEFINE m == v[k + 1]
           n == Len(gs)
<1>1. /\ m \in Entry /\ k \in Nat /\ Len(v) \in Nat
      /\ gs \in Seq(Seq(Entry)) /\ n \in Nat /\ \A g \in 1..n : gs[g] \in Seq(Entry) /\ Len(gs[g]) \in Nat
  BY DEF GroupsOf
<1>2. Append(SubSeq(v, 1, k), m) = SubSeq(v, 1, k + 1)
  <2>1. Len(SubSeq(v, 1, k)) = k /\ Len(SubSeq(v, 1, k + 1)) = k + 1
    BY <1>1
  <2> QED BY <1>1, <2>1
<1>3. FlattenSeq(gs) = SubSeq(v, 1, k) /\ SubSeq(v, 1, k) \in Seq(Entry)
  BY <1>1 DEF GroupsOf
<1> HIDE DEF m, n
<1>4. CASE gs # <<>> /\ JoinsGroup(Last(gs), m)
  <2> DEFINE last == gs[n]
             longer == Append(last, m)
             front == SubSeq(gs, 1, n - 1)
             after == [gs EXCEPT ![n] = longer]
  <2>1. Grouped(gs, m) = after
    BY <1>4 DEF Grouped, n
  <2>2. n \in 1..n /\ n # 0 /\ last \in Seq(Entry) /\ Len(last) > 0 /\ Len(last) \in Nat
    BY <1>1, <1>4 DEF GroupsOf, n
  <2>3. /\ longer \in Seq(Entry) /\ Len(longer) = Len(last) + 1 /\ longer[Len(last) + 1] = m
        /\ \A i \in 1..Len(last) : longer[i] = last[i]
    BY <1>1, <2>2
  <2> HIDE DEF last, longer
  <2>4. /\ front \in Seq(Seq(Entry)) /\ gs = Append(front, last) /\ after = Append(front, longer)
        /\ after \in Seq(Seq(Entry)) /\ Len(after) = n /\ after[n] = longer
        /\ \A i \in 1..n : i # n => after[i] = gs[i]
    <3> DEFINE S == Seq(Entry)
    <3>1. gs \in Seq(S) /\ gs # <<>> /\ longer \in S
      BY <1>1, <1>4, <2>3
    <3> HIDE DEF S
    <3>2. LET l == Len(gs)
              f == SubSeq(gs, 1, l - 1)
              a == [gs EXCEPT ![l] = longer]
          IN /\ l \in Nat \ {0} /\ f \in Seq(S)
             /\ gs = Append(f, gs[l]) /\ a = Append(f, longer)
             /\ a \in Seq(S) /\ Len(a) = l /\ a[l] = longer
             /\ \A i \in 1..l : i # l => a[i] = gs[i]
      BY <3>1, LastOf
    <3> QED BY <3>2 DEF n, last, S
  <2>5. FlattenSeq(front) \in Seq(Entry) /\ FlattenSeq(gs) = FlattenSeq(front) \o last
    <3>1. front \in Seq(Seq(Entry)) /\ last \in Seq(Entry) /\ gs = Append(front, last)
      BY <2>2, <2>4
    <3> HIDE DEF front
    <3> QED BY <3>1, FlattenMore
  <2>6. FlattenSeq(after) = FlattenSeq(front) \o longer
    <3>1. front \in Seq(Seq(Entry)) /\ longer \in Seq(Entry) /\ after = Append(front, longer)
      BY <2>3, <2>4
    <3> HIDE DEF front, after
    <3> QED BY <3>1, FlattenMore
  <2>7. FlattenSeq(front) \o longer = Append(FlattenSeq(front) \o last, m)
    <3> DEFINE before == FlattenSeq(front)
    <3>1. before \in Seq(Entry) /\ last \in Seq(Entry) /\ m \in Entry
      BY <1>1, <2>2, <2>5
    <3> HIDE DEF before, front
    <3> QED BY <3>1 DEF longer
  <2>8. FlattenSeq(after) = SubSeq(v, 1, k + 1)
    BY <1>2, <1>3, <2>5, <2>6, <2>7
  <2>9. \A g \in 1..n : Len(gs[g]) > 0
    BY <1>1 DEF GroupsOf, n
  <2> HIDE DEF front, after
  <2>10. \A g \in 1..n : Len(after[g]) > 0
    <3>1. Len(longer) > 0 /\ after[n] = longer
      BY <2>2, <2>3, <2>4
    <3>2. \A g \in 1..n : g # n => Len(after[g]) > 0
      BY <2>4, <2>9
    <3> QED BY <3>1, <3>2
  <2>11. ASSUME NEW g \in 1..n, NEW i \in 2..Len(after[g])
         PROVE  Follows(after[g][i], after[g][i - 1])
    <3>1. CASE g # n
      <4>1. after[g] = gs[g]
        BY <2>4, <3>1
      <4> QED BY <2>11, <4>1 DEF GroupsOf, n
    <3>2. CASE g = n /\ i \in 2..Len(last)
      <4>1. after[g] = longer /\ i \in 1..Len(last) /\ i - 1 \in 1..Len(last)
        BY <2>2, <2>4, <3>2
      <4>2. after[g][i] = last[i] /\ after[g][i - 1] = last[i - 1]
        BY <2>3, <4>1
      <4>3. Follows(last[i], last[i - 1])
        BY <2>2, <3>2 DEF GroupsOf, n, last
      <4> QED BY <4>2, <4>3
    <3>3. CASE g = n /\ i = Len(last) + 1
      <4>1. after[g] = longer /\ i - 1 = Len(last) /\ Len(last) \in 1..Len(last)
        BY <2>2, <2>4, <3>3
      <4>2. after[g][i] = m /\ after[g][i - 1] = last[Len(last)]
        BY <2>3, <3>3, <4>1
      <4>3. JoinsGroup(last, m)
        BY <1>4 DEF Last, n, last
      <4>4. last[Len(last)] \in Entry
        BY <2>2
      <4> QED BY <1>1, <4>2, <4>3, <4>4, JoinsIfFollows
    <3>4. g = n => i \in 2..Len(last) \/ i = Len(last) + 1
      <4>1. g = n => Len(after[g]) = Len(last) + 1
        BY <2>3, <2>4
      <4> QED BY <2>2, <2>11, <4>1
    <3> QED BY <3>1, <3>2, <3>3, <3>4
  <2>12. ASSUME NEW g \in 2..n
         PROVE  ~Follows(after[g][1], after[g - 1][Len(after[g - 1])])
    <3>1. g \in 1..n /\ g - 1 \in 1..n /\ g - 1 # n
      BY <1>1
    <3>2. after[g - 1] = gs[g - 1]
      BY <2>4, <3>1
    <3>3. after[g][1] = gs[g][1]
      <4>1. CASE g # n
        BY <2>4, <3>1, <4>1
      <4>2. CASE g = n
        <5>1. after[g] = longer /\ 1 \in 1..Len(last)
          BY <2>2, <2>4, <4>2
        <5>2. longer[1] = last[1]
          BY <2>3, <5>1
        <5> QED BY <4>2, <5>1, <5>2 DEF last
      <4> QED BY <4>1, <4>2
    <3> QED BY <3>2, <3>3 DEF GroupsOf, n
  <2> QED BY <2>1, <2>4, <2>8, <2>10, <2>11, <2>12 DEF GroupsOf, m
<1>5. CASE ~(gs # <<>> /\ JoinsGroup(Last(gs), m))
  <2> DEFINE one == <<m>>
             after == Append(gs, one)
  <2>1. Grouped(gs, m) = after
    BY <1>5 DEF Grouped
  <2>2. one \in Seq(Entry) /\ Len(one) = 1 /\ one[1] = m
    BY <1>1
  <2>3. FlattenSeq(after) = FlattenSeq(gs) \o one
    <3> HIDE DEF one
    <3> QED BY <1>1, <2>2, FlattenMore
  <2>4. FlattenSeq(gs) \o one = Append(FlattenSeq(gs), m)
    BY <1>1, <1>3
  <2>5. FlattenSeq(after) = SubSeq(v, 1, k + 1)
    BY <1>2, <1>3, <2>3, <2>4
  <2> HIDE DEF one
  <2>6. /\ after \in Seq(Seq(Entry)) /\ Len(after) = n + 1 /\ after[n + 1] = one
        /\ \A i \in 1..n : after[i] = gs[i]
    <3> DEFINE S == Seq(Entry)
    <3>1. gs \in Seq(S) /\ one \in S
      BY <1>1, <2>2
    <3> HIDE DEF S
    <3>2. /\ after \in Seq(S) /\ Len(after) = Len(gs) + 1 /\ after[Len(gs) + 1] = one
          /\ \A i \in 1..Len(gs) : after[i] = gs[i]
      BY <3>1, OneMore
    <3> QED BY <3>2 DEF n, S
  <2> HIDE DEF after
  <2>7. \A g \in 1..(n + 1) : Len(after[g]) > 0
    <3>1. \A g \in 1..n : Len(gs[g]) > 0
      BY <1>1 DEF GroupsOf, n
    <3>2. ASSUME NEW g \in 1..(n + 1)
          PROVE  Len(after[g]) > 0
      <4>1. CASE g \in 1..n
        BY <2>6, <3>1, <4>1
      <4>2. CASE g = n + 1
        <5>1. after[g] = one
          BY <2>6, <4>2
        <5>2. Len(one) = 1
          BY <2>2
        <5>3. Len(after[g]) = 1
          BY <5>1, <5>2, Zenon
        <5> QED BY <5>3
      <4>3. g \in 1..n \/ g = n + 1
        <5>1. n \in Nat
          BY <1>1
        <5> QED BY <5>1
      <4> QED BY <4>1, <4>2, <4>3
    <3> QED BY <3>2
  <2>8. ASSUME NEW g \in 1..(n + 1), NEW i \in 2..Len(after[g])
        PROVE  Follows(after[g][i], after[g][i - 1])
    <3>1. CASE g \in 1..n
      <4>1. after[g] = gs[g]
        BY <2>6, <3>1
      <4> QED BY <2>8, <3>1, <4>1 DEF GroupsOf, n
    <3>2. CASE g = n + 1
      <4>1. Len(after[g]) = 1
        BY <2>2, <2>6, <3>2
      <4>2. i \in 2..1
        BY <2>8, <4>1
      <4> QED BY <4>2
    <3>3. g \in 1..n \/ g = n + 1
      <4>1. n \in Nat
        BY <1>1
      <4> QED BY <4>1
    <3> QED BY <3>1, <3>2, <3>3
  <2>9. ASSUME NEW g \in 2..(n + 1)
        PROVE  ~Follows(after[g][1], after[g - 1][Len(after[g - 1])])
    <3>1. CASE g \in 2..n
      <4>1. g \in 1..n /\ g - 1 \in 1..n
        BY <1>1, <3>1
      <4> QED BY <2>6, <3>1, <4>1 DEF GroupsOf, n
    <3>2. CASE g = n + 1
      <4>1. g - 1 = n /\ n \in 1..n /\ gs # <<>>
        BY <1>1, <2>9, <3>2 DEF n
      <4>2. ~JoinsGroup(gs[n], m)
        BY <1>5, <4>1 DEF Last, n
      <4>3. gs[n] \in Seq(Entry) /\ Len(gs[n]) > 0
        BY <1>1, <4>1 DEF GroupsOf, n
      <4>4. gs[n][Len(gs[n])] \in Entry
        BY <4>3
      <4>5. ~Follows(m, gs[n][Len(gs[n])])
        BY <1>1, <4>2, <4>4, JoinsIfFollows
      <4> QED BY <2>2, <2>6, <3>2, <4>1, <4>5
    <3> QED BY <1>1, <3>1, <3>2
  <2> QED BY <2>1, <2>5, <2>6, <2>7, <2>8, <2>9 DEF GroupsOf, m
<1> QED BY <1>4, <1>5

\* The groups of a list of messages are the messages, cut where they have to be.
LEMMA GroupsAreExact ==
  ASSUME NEW v \in Seq(Entry)
  PROVE  GroupsOf(BuildMessageGroups(v), v, Len(v))
<1> DEFINE n == Len(v)
<1>1. n \in Nat /\ DOMAIN v = 1..n
  OBVIOUS
<1> HIDE DEF n
<1>2. PICK acc : Groups(acc, v, n)
  BY <1>1, GroupSteps
<1> DEFINE P == {k \in 0..n : GroupsOf(acc[k], v, k)}
<1>3. 0 \in P
  <2>1. acc[0] = <<>> /\ 0 \in 0..n
    BY <1>1, <1>2 DEF Groups
  <2>2. FlattenSeq(<<>>) = <<>> /\ SubSeq(v, 1, 0) = <<>>
    BY DEF FlattenSeq
  <2>3. <<>> \in Seq(Seq(Entry)) /\ Len(<<>>) = 0
    OBVIOUS
  <2>4. GroupsOf(<<>>, v, 0)
    <3>1. 1..0 = {} /\ 2..0 = {}
      OBVIOUS
    <3> DEFINE e == <<>>
    <3>2. e \in Seq(Seq(Entry)) /\ Len(e) = 0 /\ FlattenSeq(e) = SubSeq(v, 1, 0)
      BY <2>2, <2>3
    <3> HIDE DEF e
    <3>3. GroupsOf(e, v, 0)
      BY <3>1, <3>2 DEF GroupsOf
    <3> QED BY <3>3 DEF e
  <2> QED BY <2>1, <2>4
<1>4. ASSUME NEW k \in 0..(n - 1), k \in P
      PROVE  k + 1 \in P
  <2>1. acc[k + 1] = Grouped(acc[k], v[k + 1])
    BY <1>2 DEF Groups
  <2>2. GroupsOf(acc[k + 1], v, k + 1)
    BY <1>4, <2>1, GroupedKeeps DEF n
  <2>3. k + 1 \in 0..n
    BY <1>1
  <2> QED BY <2>2, <2>3
<1>5. n \in P
  <2> HIDE DEF P
  <2>1. 0..n \subseteq P
    BY <1>1, <1>3, <1>4, Along
  <2> QED BY <1>1, <2>1
<1> QED BY <1>2, <1>5 DEF Groups, n

(***************************************************************************)
(* What holds of a window                                                  *)
(***************************************************************************)

\* Ids of rows.
Positive(S) == {id \in S : id > 0}

\* The rows the page has had.
Reached == Positive(Ids(win)) \cup gone \cup lost

\* An entry is a row of the n there are, or one the page made after row k, which it
\* had reached.
KnownEntry(e, n, rows) ==
  \/ e.id \in 1..n /\ e.time = 2 * e.id
  \/ e.id \in {Own, Card} /\ \E k \in 0..n : e.time = 2 * k + 1 /\ (k = 0 \/ k \in rows)

\* Every entry of the window is known.
Known(w, n, rows) == \A i \in 1..Len(w) : KnownEntry(w[i], n, rows)

\* No id is shown twice.
Distinct(w) == \A i, j \in 1..Len(w) : w[i].id = w[j].id => i = j

\* No row stands after the page's own entry.
OwnIsLast(w) == \A i, j \in 1..Len(w) : i < j /\ w[i].id = Own => w[j].id <= 0

\* A row stands after everything that is older.
Sorted(w) == \A i, j \in 1..Len(w) : i < j /\ w[j].id > 0 => w[i].time < w[j].time

\* What every window of n rows is like.
WindowOK(w, n, rows) ==
  w \in Seq(Entry) /\ Known(w, n, rows) /\ Distinct(w) /\ OwnIsLast(w)

\* What is known of an entry bounds its id and its time.
LEMMA KnownFacts ==
  ASSUME NEW n \in Nat, NEW rows, NEW e \in Entry, KnownEntry(e, n, rows)
  PROVE  /\ e.id \in Int /\ e.time \in Int /\ e.cid \in Int
         /\ e.id \in Own..n /\ e.time \in 1..(2 * n + 1)
         /\ e.id > 0 => e.time = 2 * e.id
  BY DEF KnownEntry, Entry, Own, Card

\* What was known stays known when rows are added.
LEMMA KnownGrows ==
  ASSUME NEW n \in Nat, NEW n2 \in Nat, n <= n2, NEW rows, NEW rows2, rows \subseteq rows2,
         NEW e, KnownEntry(e, n, rows)
  PROVE  KnownEntry(e, n2, rows2)
  BY DEF KnownEntry

\* A window without some of its entries is as good.
LEMMA WithinKeeps ==
  ASSUME NEW n \in Nat, NEW n2 \in Nat, n <= n2, NEW rows, NEW rows2, rows \subseteq rows2,
         NEW w, WindowOK(w, n, rows), NEW d \in Seq(Entry), Within(d, w)
  PROVE  /\ WindowOK(d, n2, rows2) /\ (Sorted(w) => Sorted(d))
         /\ Ids(d) \subseteq Ids(w)
<1>1. PICK e \in [1..Len(d) -> 1..Len(w)] :
        /\ \A i \in 1..Len(d) : d[i] = w[e[i]]
        /\ \A i, j \in 1..Len(d) : i < j => e[i] < e[j]
  BY DEF Within
<1>2. \A i \in 1..Len(d) : e[i] \in 1..Len(w)
  BY <1>1
<1>3. Known(d, n2, rows2)
  BY <1>1, <1>2, KnownGrows DEF WindowOK, Known
<1>4. Distinct(d)
  <2> SUFFICES ASSUME NEW i \in 1..Len(d), NEW j \in 1..Len(d), d[i].id = d[j].id, i < j
               PROVE  FALSE
    <3>1. Len(d) \in Nat
      OBVIOUS
    <3> QED BY <3>1 DEF Distinct
  <2>1. e[i] < e[j] /\ e[i] \in 1..Len(w) /\ e[j] \in 1..Len(w)
    BY <1>1, <1>2
  <2>2. w \in Seq(Entry) /\ Len(w) \in Nat
    BY DEF WindowOK
  <2>3. e[i] = e[j]
    BY <1>1, <2>1 DEF WindowOK, Distinct
  <2> QED BY <2>1, <2>2, <2>3
<1>5. OwnIsLast(d)
  BY <1>1, <1>2 DEF WindowOK, OwnIsLast
<1>6. Sorted(w) => Sorted(d)
  BY <1>1, <1>2 DEF Sorted
<1>7. Ids(d) \subseteq Ids(w)
  <2>1. Ids(d) = {d[i].id : i \in 1..Len(d)}
    BY IdsOf
  <2>2. Ids(w) = {w[i].id : i \in 1..Len(w)}
    BY IdsOf DEF WindowOK
  <2> QED BY <1>1, <1>2, <2>1, <2>2
<1> QED BY <1>3, <1>4, <1>5, <1>6, <1>7 DEF WindowOK

\* So is a window with a new entry at its end,
LEMMA AtEndKeeps ==
  ASSUME NEW n \in Nat, NEW n2 \in Nat, n <= n2, NEW rows, NEW rows2, rows \subseteq rows2,
         NEW w, WindowOK(w, n, rows), NEW m \in Entry, KnownEntry(m, n2, rows2),
         m.id \notin Ids(w), Own \in Ids(w) => m.id <= 0, NEW d, AtEnd(d, w, m)
  PROVE  /\ WindowOK(d, n2, rows2) /\ Len(d) <= MessageCap
         /\ Ids(d) \subseteq Ids(w) \cup {m.id} /\ m.id \in Ids(d) /\ d # <<>> /\ Last(d) = m
         /\ (Sorted(w) /\ (m.id > 0 => \A i \in 1..Len(w) : w[i].time < m.time) => Sorted(d))
<1>1. PICK cut \in 0..Len(w) :
    /\ d \in Seq(Entry) /\ Len(d) = Len(w) - cut + 1
    /\ \A i \in 1..(Len(w) - cut) : d[i] = w[i + cut]
    /\ d[Len(d)] = m
    /\ cut > 0 => Len(d) = MessageCap
    /\ Len(d) <= MessageCap
  BY DEF AtEnd
<1>2. w \in Seq(Entry) /\ Len(w) \in Nat /\ cut \in Nat /\ Len(d) \in Nat /\ Len(d) \in 1..Len(d)
  BY <1>1 DEF WindowOK
<1> DEFINE k == Len(w) - cut
<1>3. ASSUME NEW i \in 1..Len(d)
      PROVE  \/ (i = k + 1 /\ d[i] = m)
             \/ (i \in 1..k /\ i + cut \in 1..Len(w) /\ d[i] = w[i + cut])
  <2>1. Len(d) = k + 1 /\ k \in Nat
    BY <1>1, <1>2
  <2>2. CASE i = k + 1
    BY <1>1, <2>1, <2>2
  <2>3. CASE i # k + 1
    <3>1. i \in 1..k
      BY <2>1, <2>3
    <3>2. d[i] = w[i + cut]
      BY <1>1, <3>1
    <3>3. i + cut \in 1..Len(w)
      BY <1>1, <1>2, <3>1
    <3> QED BY <3>1, <3>2, <3>3
  <2> QED BY <2>2, <2>3
<1>4. k \in Nat /\ Len(d) = k + 1
  BY <1>1, <1>2
<1> HIDE DEF k
<1>5. Known(d, n2, rows2)
  BY <1>3, KnownGrows DEF WindowOK, Known
<1>6. Ids(w) = {w[i].id : i \in 1..Len(w)}
  BY <1>2, IdsOf
<1>7. Ids(d) = {d[i].id : i \in 1..Len(d)}
  BY <1>1, IdsOf
<1>8. \A i \in 1..Len(w) : w[i].id # m.id
  BY <1>6
<1>9. Distinct(d)
  <2> SUFFICES ASSUME NEW i \in 1..Len(d), NEW j \in 1..Len(d), d[i].id = d[j].id, i < j
               PROVE  FALSE
    BY <1>2 DEF Distinct
  <2>1. i \in 1..k /\ i + cut \in 1..Len(w) /\ d[i] = w[i + cut]
    BY <1>3, <1>4
  <2>2. CASE d[j] = m
    BY <1>8, <2>1, <2>2
  <2>3. CASE j + cut \in 1..Len(w) /\ d[j] = w[j + cut]
    <3>1. i + cut = j + cut
      BY <2>1, <2>3 DEF WindowOK, Distinct
    <3> QED BY <1>2, <3>1
  <2> QED BY <1>3, <2>2, <2>3
<1>10. OwnIsLast(d)
  <2> SUFFICES ASSUME NEW i \in 1..Len(d), NEW j \in 1..Len(d), i < j, d[i].id = Own
               PROVE  d[j].id <= 0
    BY DEF OwnIsLast
  <2>1. i \in 1..k /\ i + cut \in 1..Len(w) /\ d[i] = w[i + cut]
    BY <1>3, <1>4
  <2>2. CASE d[j] = m
    BY <1>6, <2>1, <2>2
  <2>3. CASE j + cut \in 1..Len(w) /\ d[j] = w[j + cut]
    <3>1. i + cut < j + cut
      BY <1>2
    <3> QED BY <2>1, <2>3, <3>1 DEF WindowOK, OwnIsLast
  <2> QED BY <1>3, <2>2, <2>3
<1>11. ASSUME Sorted(w), m.id > 0 => \A i \in 1..Len(w) : w[i].time < m.time
       PROVE  Sorted(d)
  <2> SUFFICES ASSUME NEW i \in 1..Len(d), NEW j \in 1..Len(d), i < j, d[j].id > 0
               PROVE  d[i].time < d[j].time
    BY DEF Sorted
  <2>1. i \in 1..k /\ i + cut \in 1..Len(w) /\ d[i] = w[i + cut]
    BY <1>3, <1>4
  <2>2. CASE d[j] = m
    BY <1>11, <2>1, <2>2
  <2>3. CASE j + cut \in 1..Len(w) /\ d[j] = w[j + cut]
    <3>1. i + cut < j + cut
      BY <1>2
    <3> QED BY <1>11, <2>1, <2>3, <3>1 DEF Sorted
  <2> QED BY <1>3, <2>2, <2>3
<1>12. Ids(d) \subseteq Ids(w) \cup {m.id}
  BY <1>3, <1>6, <1>7
<1>13. m.id \in Ids(d) /\ d # <<>> /\ Last(d) = m
  BY <1>1, <1>2, <1>7 DEF Last
<1> QED BY <1>1, <1>5, <1>9, <1>10, <1>11, <1>12, <1>13 DEF WindowOK

\* one with older rows in front,
LEMMA InFrontKeeps ==
  ASSUME NEW n \in Nat, NEW rows, NEW rows2, rows \subseteq rows2,
         NEW w, WindowOK(w, n, rows), NEW fr, IsPage(fr), \A id \in Ids(fr) : id \in 1..n,
         Ids(fr) \cap Ids(w) = {}, NEW d, InFront(d, fr, w)
  PROVE  /\ WindowOK(d, n, rows2)
         /\ Ids(fr) \subseteq Ids(d) /\ Ids(d) \subseteq Ids(fr) \cup Ids(w)
         /\ (/\ Sorted(w)
             /\ \A i \in 1..Len(fr), j \in 1..Len(w) : w[j].id > 0 => fr[i].time < w[j].time
             => Sorted(d))
<1> DEFINE f == Len(fr)
<1>1. /\ d \in Seq(Entry) /\ f <= Len(d) /\ Len(d) <= f + Len(w)
      /\ \A i \in 1..f : d[i] = fr[i]
      /\ \A i \in 1..(Len(d) - f) : d[f + i] = w[i]
  BY DEF InFront
<1>2. /\ w \in Seq(Entry) /\ Len(w) \in Nat /\ Len(d) \in Nat /\ fr \in Seq(Entry) /\ f \in Nat
      /\ \A i \in 1..f : fr[i] \in Entry
  BY <1>1 DEF WindowOK, IsPage
<1>3. Ids(w) = {w[i].id : i \in 1..Len(w)}
  BY <1>2, IdsOf
<1>4. Ids(d) = {d[i].id : i \in 1..Len(d)}
  BY <1>1, IdsOf
<1>5. Ids(fr) = {fr[i].id : i \in 1..f}
  BY <1>2, IdsOf
<1> HIDE DEF f
<1>6. ASSUME NEW i \in 1..Len(d)
      PROVE  \/ (i \in 1..f /\ d[i] = fr[i])
             \/ (i > f /\ i - f \in 1..Len(w) /\ d[i] = w[i - f])
  <2>1. CASE i <= f
    BY <1>1, <1>2, <2>1
  <2>2. CASE i > f
    <3>1. i - f \in 1..(Len(d) - f) /\ i - f \in 1..Len(w) /\ f + (i - f) = i
      BY <1>1, <1>2, <2>2
    <3> QED BY <1>1, <2>2, <3>1
  <2> QED BY <1>2, <2>1, <2>2
<1>7. \A i \in 1..f : fr[i].id \in 1..n /\ fr[i].id \notin Ids(w) /\ fr[i].time = 2 * fr[i].id
  BY <1>5 DEF IsPage, f
<1>8. \A i, j \in 1..f : i < j => fr[i].id < fr[j].id
  BY DEF IsPage, f
<1>9. Known(d, n, rows2)
  <2> SUFFICES ASSUME NEW i \in 1..Len(d)
               PROVE  KnownEntry(d[i], n, rows2)
    BY DEF Known
  <2>1. CASE i \in 1..f /\ d[i] = fr[i]
    BY <1>7, <2>1 DEF KnownEntry
  <2>2. CASE i - f \in 1..Len(w) /\ d[i] = w[i - f]
    BY <2>2, KnownGrows DEF WindowOK, Known
  <2> QED BY <1>6, <2>1, <2>2
<1>10. Distinct(d)
  <2> SUFFICES ASSUME NEW i \in 1..Len(d), NEW j \in 1..Len(d), d[i].id = d[j].id, i < j
               PROVE  FALSE
    BY <1>2 DEF Distinct
  <2>1. CASE j \in 1..f /\ d[j] = fr[j]
    <3>1. i \in 1..f /\ d[i] = fr[i]
      BY <1>2, <1>6, <2>1
    <3>2. fr[i].id < fr[j].id /\ fr[i].id \in 1..n /\ fr[j].id \in 1..n
      BY <1>7, <1>8, <2>1, <3>1
    <3> QED BY <2>1, <3>1, <3>2
  <2>2. CASE j > f /\ j - f \in 1..Len(w) /\ d[j] = w[j - f]
    <3>1. CASE i \in 1..f /\ d[i] = fr[i]
      BY <1>3, <1>7, <2>2, <3>1
    <3>2. CASE i - f \in 1..Len(w) /\ d[i] = w[i - f]
      <4>1. i - f = j - f
        BY <2>2, <3>2 DEF WindowOK, Distinct
      <4> QED BY <1>2, <4>1
    <3> QED BY <1>6, <3>1, <3>2
  <2> QED BY <1>6, <2>1, <2>2
<1>11. OwnIsLast(d)
  <2> SUFFICES ASSUME NEW i \in 1..Len(d), NEW j \in 1..Len(d), i < j, d[i].id = Own
               PROVE  d[j].id <= 0
    BY DEF OwnIsLast
  <2>1. ~(i \in 1..f /\ d[i] = fr[i])
    BY <1>7 DEF Own
  <2>2. i > f /\ i - f \in 1..Len(w) /\ d[i] = w[i - f]
    BY <1>6, <2>1
  <2>3. j > f /\ j - f \in 1..Len(w) /\ d[j] = w[j - f] /\ i - f < j - f
    BY <1>2, <1>6, <2>2
  <2> QED BY <2>2, <2>3 DEF WindowOK, OwnIsLast
<1>12. ASSUME Sorted(w),
              \A i \in 1..f, j \in 1..Len(w) : w[j].id > 0 => fr[i].time < w[j].time
       PROVE  Sorted(d)
  <2> SUFFICES ASSUME NEW i \in 1..Len(d), NEW j \in 1..Len(d), i < j, d[j].id > 0
               PROVE  d[i].time < d[j].time
    BY DEF Sorted
  <2>1. CASE j \in 1..f /\ d[j] = fr[j]
    <3>1. i \in 1..f /\ d[i] = fr[i]
      BY <1>2, <1>6, <2>1
    <3>2. fr[i].id < fr[j].id /\ fr[i].id \in 1..n /\ fr[j].id \in 1..n
          /\ fr[i].time = 2 * fr[i].id /\ fr[j].time = 2 * fr[j].id
      BY <1>7, <1>8, <2>1, <3>1
    <3>3. fr[i].time < fr[j].time
      BY SMTT(40), <3>2
    <3> QED BY <2>1, <3>1, <3>3
  <2>2. CASE j > f /\ j - f \in 1..Len(w) /\ d[j] = w[j - f]
    <3>1. CASE i \in 1..f /\ d[i] = fr[i]
      BY <1>12, <2>2, <3>1
    <3>2. CASE i - f \in 1..Len(w) /\ d[i] = w[i - f]
      <4>1. i - f < j - f
        BY <1>2
      <4> QED BY <1>12, <2>2, <3>2, <4>1 DEF Sorted
    <3> QED BY <1>6, <3>1, <3>2
  <2> QED BY <1>6, <2>1, <2>2
<1>13. Ids(d) \subseteq Ids(fr) \cup Ids(w)
  BY <1>3, <1>4, <1>5, <1>6
<1>14. Ids(fr) \subseteq Ids(d)
  <2>1. \A i \in 1..f : i \in 1..Len(d)
    BY <1>1, <1>2
  <2> QED BY <1>1, <1>4, <1>5, <2>1
<1> QED BY <1>1, <1>9, <1>10, <1>11, <1>12, <1>13, <1>14 DEF WindowOK, f

\* d is w with m, row n, in the place of the page's own entry.
Replaces(d, w, m, at, n) ==
  /\ at \in 1..Len(w) /\ w[at].id = Own
  /\ m \in Entry /\ m.id = n /\ m.time = 2 * n
  /\ d \in Seq(Entry) /\ Len(d) = Len(w) /\ d[at] = m
  /\ \A i \in 1..Len(w) : i # at => d[i] = w[i]

\* An echo replaces the id of the own entry.
LEMMA EchoIds ==
  ASSUME NEW n \in Nat, NEW rows, NEW w, WindowOK(w, n, rows), NEW at, NEW m, NEW d,
         Replaces(d, w, m, at, n + 1)
  PROVE  Ids(d) = (Ids(w) \ {Own}) \cup {n + 1} /\ Len(d) = Len(w)
<1>1. w \in Seq(Entry) /\ Len(w) \in Nat
  BY DEF WindowOK
<1>2. /\ at \in 1..Len(w) /\ w[at].id = Own /\ m.id = n + 1
      /\ d \in Seq(Entry) /\ Len(d) = Len(w) /\ d[at] = m
      /\ \A i \in 1..Len(w) : i # at => d[i] = w[i]
  BY DEF Replaces
<1>5. \A i, j \in 1..Len(w) : w[i].id = w[j].id => i = j
  BY DEF WindowOK, Distinct
<1>9. Ids(d) = (Ids(w) \ {Own}) \cup {n + 1}
  <2>1. Ids(w) = {w[i].id : i \in 1..Len(w)}
    BY <1>1, IdsOf
  <2>2. Ids(d) = {d[i].id : i \in 1..Len(d)}
    BY <1>2, IdsOf
  <2>3. \A i \in 1..Len(w) : w[i].id = Own <=> i = at
    BY <1>2, <1>5
  <2>4. \A i \in 1..Len(d) : d[i].id \in (Ids(w) \ {Own}) \cup {n + 1}
    BY <1>2, <2>1, <2>3
  <2>5. \A i \in 1..Len(w) : i # at => w[i].id \in Ids(d)
    BY <1>2, <2>2
  <2>6. n + 1 \in Ids(d)
    BY <1>2, <2>2
  <2>7. Ids(d) \subseteq (Ids(w) \ {Own}) \cup {n + 1}
    BY <2>2, <2>4
  <2>8. (Ids(w) \ {Own}) \cup {n + 1} \subseteq Ids(d)
    BY <2>1, <2>3, <2>5, <2>6
  <2> QED BY <2>7, <2>8
<1> QED BY <1>2, <1>9

\* and one whose own entry was replaced by its row.
LEMMA EchoKeeps ==
  ASSUME NEW n \in Nat, NEW rows, NEW rows2, rows \subseteq rows2,
         NEW w, WindowOK(w, n, rows), NEW at, NEW m, NEW d, Replaces(d, w, m, at, n + 1)
  PROVE  WindowOK(d, n + 1, rows2) /\ (Sorted(w) => Sorted(d))
<1>1. w \in Seq(Entry) /\ Len(w) \in Nat /\ \A i \in 1..Len(w) : w[i] \in Entry
  BY DEF WindowOK
<1>2. /\ at \in 1..Len(w) /\ w[at].id = Own
      /\ m \in Entry /\ m.id = n + 1 /\ m.time = 2 * (n + 1)
      /\ d \in Seq(Entry) /\ Len(d) = Len(w) /\ d[at] = m
      /\ \A i \in 1..Len(w) : i # at => d[i] = w[i]
  BY DEF Replaces
<1>3. \A i \in 1..Len(w) : /\ w[i].id \in Own..n /\ w[i].time \in 1..(2 * n + 1)
                           /\ KnownEntry(w[i], n, rows)
  BY <1>1, KnownFacts DEF WindowOK, Known
<1>4. Known(d, n + 1, rows2)
  <2> SUFFICES ASSUME NEW i \in 1..Len(d)
               PROVE  KnownEntry(d[i], n + 1, rows2)
    BY DEF Known
  <2>1. CASE i = at
    BY <1>2, <2>1 DEF KnownEntry
  <2>2. CASE i # at
    <3>1. n + 1 \in Nat /\ n <= n + 1
      OBVIOUS
    <3> QED BY <1>2, <1>3, <2>2, <3>1, KnownGrows
  <2> QED BY <2>1, <2>2
<1>5. \A i, j \in 1..Len(w) : w[i].id = w[j].id => i = j
  BY DEF WindowOK, Distinct
<1>6. Distinct(d)
  <2> SUFFICES ASSUME NEW i \in 1..Len(w), NEW j \in 1..Len(w), d[i].id = d[j].id
               PROVE  i = j
    BY <1>2 DEF Distinct
  <2>1. CASE i # at /\ j # at
    BY <1>2, <1>5, <2>1
  <2>2. CASE i = at /\ j # at
    <3>1. d[i].id = n + 1 /\ d[j].id \in Own..n
      BY <1>2, <1>3, <2>2
    <3> QED BY <3>1
  <2>3. CASE i # at /\ j = at
    <3>1. d[j].id = n + 1 /\ d[i].id \in Own..n
      BY <1>2, <1>3, <2>3
    <3> QED BY <3>1
  <2> QED BY <2>1, <2>2, <2>3
<1>7. OwnIsLast(d)
  <2> SUFFICES ASSUME NEW i \in 1..Len(w), NEW j \in 1..Len(w), i < j, d[i].id = Own
               PROVE  FALSE
    BY <1>2 DEF OwnIsLast
  <2>1. i # at
    BY <1>2 DEF Own
  <2>2. w[i].id = Own
    BY <1>2, <2>1
  <2> QED BY <1>2, <1>5, <2>1, <2>2
<1>8. ASSUME Sorted(w)
      PROVE  Sorted(d)
  <2> SUFFICES ASSUME NEW i \in 1..Len(w), NEW j \in 1..Len(w), i < j, d[j].id > 0
               PROVE  d[i].time < d[j].time
    BY <1>2 DEF Sorted
  <2>1. CASE j = at
    <3>1. i # at /\ d[i].time \in 1..(2 * n + 1) /\ d[j].time = 2 * (n + 1)
      BY <1>2, <1>3, <2>1
    <3> QED BY <3>1
  <2>2. CASE j # at /\ i # at
    BY <1>2, <1>8, <2>2 DEF Sorted
  <2>3. CASE j # at /\ i = at
    <3>1. w[j].id > 0
      BY <1>2, <2>3
    <3>2. w[j].id <= 0
      BY <1>2, <2>3 DEF WindowOK, OwnIsLast
    <3>3. w[j].id \in Own..n
      BY <1>3
    <3> QED BY <3>1, <3>2, <3>3 DEF Own
  <2> QED BY <2>1, <2>2, <2>3
<1> QED BY <1>2, <1>4, <1>6, <1>7, <1>8 DEF WindowOK

(***************************************************************************)
(* The view                                                                *)
(***************************************************************************)

\* The states of the transcript.
Views ==
  [conv : {"public", "private"}, loading : BOOLEAN, error : BOOLEAN, more : BOOLEAN,
   restore : BOOLEAN, first : Int \cup {None}, auto : BOOLEAN, badge : Nat,
   seen : Int \cup {None}, all : BOOLEAN]

\* The id of the newest entry.
LastId(w) == IF w = <<>> THEN None ELSE Last(w).id

\* The least element of a set of positions.
LEMMA LeastOf ==
  ASSUME NEW n \in Nat, NEW s, s \subseteq 1..n, s # {}
  PROVE  Min(s) \in s /\ \A y \in s : Min(s) <= y
<1>1. s \subseteq Nat
  OBVIOUS
<1>2. \E x \in s : \A y \in s : x <= y
  BY <1>1, Least
<1> QED BY <1>2 DEF Min

\* What counting leaves alone, and what it counts.
Counted(c, v, w) ==
  /\ c \in Views /\ c.seen = LastId(w)
  /\ c.conv = v.conv /\ c.loading = v.loading /\ c.error = v.error /\ c.more = v.more
  /\ c.restore = v.restore /\ c.first = v.first /\ c.auto = v.auto
  /\ (v.seen = None \/ v.auto \/ v.seen = LastId(w) \/ v.seen \notin Ids(w)
      => c.badge = v.badge)
  /\ \A i \in 1..Len(w) :
       /\ i # Len(w) /\ v.seen = w[i].id /\ ~v.auto /\ v.seen # None
       /\ \A j \in 1..Len(w) : w[j].id = v.seen => j = i
       => c.badge = v.badge + Len(w) - i

\* CountNew does what Counted says.
LEMMA Counts ==
  ASSUME NEW v \in Views, NEW w \in Seq(Entry)
  PROVE  Counted(CountNew(v, w), v, w)
<1> DEFINE c == CountNew(v, w)
<1>1. /\ Len(w) \in Nat /\ DOMAIN w = 1..Len(w) /\ \A i \in 1..Len(w) : w[i] \in Entry
      /\ Ids(w) = {w[i].id : i \in 1..Len(w)} /\ (w = <<>> <=> Len(w) = 0)
  BY IdsOf
<1>2. CASE w = <<>>
  BY <1>1, <1>2 DEF CountNew, LastId, Views, Counted
<1>3. CASE w # <<>>
  <2> DEFINE n == Len(w)
             at == {i \in 1..n : w[i].id = v.seen}
             last == Last(w).id
  <2>1. last \in Int /\ last = LastId(w) /\ last = w[n].id /\ n \in 1..n /\ n \in Nat
    BY <1>1, <1>3 DEF Last, LastId, Entry
  <2>2. c = IF v.seen = None \/ v.seen = last \/ v.auto \/ at = {}
            THEN [v EXCEPT !.seen = last]
            ELSE [v EXCEPT !.seen = last, !.badge = @ + n - Min(at)]
    BY <1>1, <1>3 DEF CountNew
  <2> HIDE DEF c, n
  <2>3. at # {} => Min(at) \in at
    <3>1. at \subseteq 1..n
      OBVIOUS
    <3> HIDE DEF at
    <3> QED BY <2>1, <3>1, LeastOf
  <2>4. at # {} => v.badge + n - Min(at) \in Nat
    <3>1. v.badge \in Nat
      BY DEF Views
    <3>2. at # {} => Min(at) \in 1..n
      BY <2>3
    <3> HIDE DEF at
    <3> QED BY <2>1, <3>1, <3>2
  <2>5. v.seen \notin Ids(w) => at = {}
    BY <1>1 DEF n
  <2>6. ASSUME NEW i \in 1..n, i # n, v.seen = w[i].id,
               \A j \in 1..n : w[j].id = v.seen => j = i
        PROVE  Min(at) = i /\ at # {} /\ v.seen # last
    <3>1. at = {i}
      BY <2>6
    <3> QED BY <2>1, <2>3, <2>6, <3>1
  <2> HIDE DEF at, last
  <2>7. CASE v.seen = None \/ v.seen = last \/ v.auto \/ at = {}
    <3>1. c = [v EXCEPT !.seen = last]
      BY <2>2, <2>7
    <3>2. /\ c \in Views /\ c.seen = last
          /\ c.conv = v.conv /\ c.loading = v.loading /\ c.error = v.error /\ c.more = v.more
          /\ c.restore = v.restore /\ c.first = v.first /\ c.auto = v.auto /\ c.badge = v.badge
      BY <2>1, <3>1 DEF Views
    <3>3. (v.seen = None \/ v.auto \/ v.seen = LastId(w) \/ v.seen \notin Ids(w)
           => c.badge = v.badge)
      BY <3>2
    <3>4. \A i \in 1..n :
            /\ i # n /\ v.seen = w[i].id /\ ~v.auto /\ v.seen # None
            /\ \A j \in 1..n : w[j].id = v.seen => j = i
            => c.badge = v.badge + n - i
      BY <2>6, <2>7
    <3>5. \A i \in 1..Len(w) :
            /\ i # Len(w) /\ v.seen = w[i].id /\ ~v.auto /\ v.seen # None
            /\ \A j \in 1..Len(w) : w[j].id = v.seen => j = i
            => c.badge = v.badge + Len(w) - i
      BY <3>4 DEF n
    <3> QED BY <2>1, <3>2, <3>3, <3>5 DEF Counted, c
  <2>8. CASE ~(v.seen = None \/ v.seen = last \/ v.auto \/ at = {})
    <3> DEFINE b == v.badge + n - Min(at)
    <3>1. c = [v EXCEPT !.seen = last, !.badge = b]
      BY <2>2, <2>8
    <3>2. b \in Nat
      BY <2>4, <2>8
    <3> HIDE DEF b
    <3>3. /\ c \in Views /\ c.seen = last
          /\ c.conv = v.conv /\ c.loading = v.loading /\ c.error = v.error /\ c.more = v.more
          /\ c.restore = v.restore /\ c.first = v.first /\ c.auto = v.auto /\ c.badge = b
      BY <2>1, <3>1, <3>2 DEF Views
    <3>4. (v.seen = None \/ v.auto \/ v.seen = LastId(w) \/ v.seen \notin Ids(w)
           => c.badge = v.badge)
      BY <2>1, <2>5, <2>8
    <3>5. \A i \in 1..n :
            /\ i # n /\ v.seen = w[i].id /\ ~v.auto /\ v.seen # None
            /\ \A j \in 1..n : w[j].id = v.seen => j = i
            => c.badge = v.badge + n - i
      BY <2>6, <3>3 DEF b
    <3>6. \A i \in 1..Len(w) :
            /\ i # Len(w) /\ v.seen = w[i].id /\ ~v.auto /\ v.seen # None
            /\ \A j \in 1..Len(w) : w[j].id = v.seen => j = i
            => c.badge = v.badge + Len(w) - i
      BY <3>5 DEF n
    <3> QED BY <2>1, <3>3, <3>4, <3>6 DEF Counted, c
  <2> QED BY <2>7, <2>8 DEF c
<1> QED BY <1>2, <1>3

\* The position is restored when the first entry is another one.
Restores(v, bumped, before, after) ==
  /\ v.restore /\ (bumped \/ Len(before) # Len(after))
  /\ ~(v.first # None /\ FirstId(after) = v.first)

\* What the layout effect leaves alone, and what it ends.
LEMMA Lays ==
  ASSUME NEW v \in Views, NEW bumped, NEW before, NEW after,
         NEW l, l = Layout(v, bumped, before, after)
  PROVE  /\ l \in Views
         /\ l.conv = v.conv /\ l.error = v.error /\ l.more = v.more /\ l.auto = v.auto
         /\ l.badge = v.badge /\ l.seen = v.seen
         /\ (Restores(v, bumped, before, after) => ~l.restore /\ ~l.loading)
         /\ (~Restores(v, bumped, before, after) => l = v)
<1>1. CASE Restores(v, bumped, before, after)
  <2>1. l = [v EXCEPT !.restore = FALSE, !.first = None, !.loading = FALSE]
    BY <1>1 DEF Layout, Restores
  <2> QED BY <1>1, <2>1 DEF Views
<1>2. CASE ~Restores(v, bumped, before, after)
  BY <1>2 DEF Layout, Restores
<1> QED BY <1>1, <1>2

\* The render after the window became w.
Committed(c, v, bumped, before, after) ==
  /\ c \in Views /\ c.seen = LastId(after)
  /\ c.conv = v.conv /\ c.error = v.error /\ c.more = v.more /\ c.auto = v.auto
  /\ (Restores(v, bumped, before, after) => ~c.restore /\ ~c.loading)
  /\ (~Restores(v, bumped, before, after) =>
        c.restore = v.restore /\ c.loading = v.loading /\ c.first = v.first)
  /\ (v.seen = None \/ v.auto \/ v.seen = LastId(after) \/ v.seen \notin Ids(after)
      => c.badge = v.badge)
  /\ \A i \in 1..Len(after) :
       /\ i # Len(after) /\ v.seen = after[i].id /\ ~v.auto /\ v.seen # None
       /\ \A j \in 1..Len(after) : after[j].id = v.seen => j = i
       => c.badge = v.badge + Len(after) - i

\* Commit does what Committed says.
LEMMA Commits ==
  ASSUME NEW v \in Views, NEW bumped, NEW w \in Seq(Entry)
  PROVE  /\ Shown(v, w) \in Seq(Entry)
         /\ Committed(Commit(v, bumped, w), v, bumped, Shown(v, win), Shown(v, w))
<1> DEFINE before == Shown(v, win)
           after == Shown(v, w)
           l == Layout(v, bumped, before, after)
           c == Commit(v, bumped, w)
<1>1. after \in Seq(Entry)
  BY TranscriptAssumption DEF Shown
<1>2. c = CountNew(l, after)
  BY DEF Commit
<1> HIDE DEF before, after, l, c
<1>3. /\ l \in Views
      /\ l.conv = v.conv /\ l.error = v.error /\ l.more = v.more /\ l.auto = v.auto
      /\ l.badge = v.badge /\ l.seen = v.seen
      /\ (Restores(v, bumped, before, after) => ~l.restore /\ ~l.loading)
      /\ (~Restores(v, bumped, before, after) => l = v)
  BY Lays DEF l
<1>4. Counted(c, l, after)
  BY <1>1, <1>2, <1>3, Counts
<1>5. Committed(c, v, bumped, before, after)
  BY <1>3, <1>4 DEF Counted, Committed
<1> QED BY <1>1, <1>5 DEF before, after, c

(***************************************************************************)
(* Rows the server sends                                                   *)
(***************************************************************************)

\* A set of rows without holes.
Convex(S) == \A a, b \in S : \A r \in Int : a <= r /\ r <= b => r \in S

\* Min and Max of two numbers.
LEMMA TwoOf ==
  ASSUME NEW a \in Int, NEW b \in Int
  PROVE  /\ Min({a, b}) = (IF a <= b THEN a ELSE b)
         /\ Max({a, b}) = (IF a >= b THEN a ELSE b)
<1>1. \A x \in {a, b} : (\A y \in {a, b} : x <= y) <=> x = (IF a <= b THEN a ELSE b)
  OBVIOUS
<1>2. \A x \in {a, b} : (\A y \in {a, b} : x >= y) <=> x = (IF a >= b THEN a ELSE b)
  OBVIOUS
<1>3. Min({a, b}) = (IF a <= b THEN a ELSE b)
  BY <1>1 DEF Min
<1>4. Max({a, b}) = (IF a >= b THEN a ELSE b)
  BY <1>2 DEF Max
<1> QED BY <1>3, <1>4

\* A time lies just before a row or is that of a row.
LEMMA Halves ==
  ASSUME NEW t \in Nat \ {0}
  PROVE  (t - 1) \div 2 \in Nat /\ (t = 2 * ((t - 1) \div 2) + 1 \/ t = 2 * ((t - 1) \div 2) + 2)
OBVIOUS

\* Of n rows and no more, the last before a time, when k rows are older than it.
Span(rows, n, k) ==
  /\ IsPage(rows) /\ Len(rows) <= n
  /\ \A r \in Int : r \in Ids(rows) <=> 1 <= r /\ k - n + 1 <= r /\ r <= k
  /\ k > 0 => k \in Ids(rows)
  /\ Len(rows) < n => \A r \in 1..k : r \in Ids(rows)
  /\ Ids(rows) \subseteq 1..k

\* The message of a row.
LEMMA MessageIs ==
  ASSUME NEW r \in 1..Len(Author)
  PROVE  /\ Message(r) \in Entry /\ Message(r).id = r /\ Message(r).cid = 0
         /\ Message(r).time = 2 * r
<1>1. Author[r] \in Range(Author) /\ r \in Int
  BY TranscriptAssumption
<1> DEFINE tx == IF r \in gone THEN "" ELSE "t"
<1>2. Message(r) = [id |-> r, cid |-> 0, user |-> Author[r], text |-> tx, time |-> 2 * r]
  BY DEF Message
<1>3. tx \in Texts
  BY DEF Texts
<1>4. 2 * r \in Int
  BY <1>1
<1> HIDE DEF tx
<1> QED BY <1>1, <1>2, <1>3, <1>4 DEF Entry

\* GetRoomMessages reads the last n rows before the time.
LEMMA LatestIs ==
  ASSUME stored \in Nat, stored <= Len(Author), NEW n \in Nat \ {0}, NEW t \in 1..(2 * stored + 1)
  PROVE  \E k \in 0..stored : /\ t = 2 * k + 1 \/ t = 2 * k + 2
                              /\ Span(Latest(n, t), n, k)
<1> DEFINE k == (t - 1) \div 2
           first == IF k - n + 1 <= 1 THEN 1 ELSE k - n + 1
           len == k - first + 1
           rows == Latest(n, t)
<1>1. k \in 0..stored /\ (t = 2 * k + 1 \/ t = 2 * k + 2)
  BY Halves
<1>2. Min({k, stored}) = k
  <2>1. k \in Int /\ stored \in Int /\ k <= stored
    BY <1>1
  <2> HIDE DEF k
  <2> QED BY <2>1, TwoOf
<1>3. Max({1, k - n + 1}) = first
  <2> DEFINE b == k - n + 1
  <2>1. b \in Int /\ first = IF b <= 1 THEN 1 ELSE b
    BY <1>1
  <2> HIDE DEF b, k, first
  <2>2. b \in Int /\ 1 \in Int
    BY <2>1
  <2>3. Max({1, b}) = (IF 1 >= b THEN 1 ELSE b)
    BY <2>2, TwoOf
  <2>4. Max({1, b}) = first
    BY <2>1, <2>3
  <2> QED BY <2>4 DEF b
<1>4. rows = [i \in 1..(k - first + 1) |-> Message(first + i - 1)]
  BY <1>2, <1>3 DEF Latest
<1> HIDE DEF k
<1>5. first \in Nat \ {0} /\ len \in Nat /\ len <= n /\ first + len = k + 1
  BY <1>1
<1>6. len < n => first = 1
  BY <1>1
<1>7. \A r \in Int : first <= r <=> 1 <= r /\ k - n + 1 <= r
  BY <1>1
<1> HIDE DEF first
<1>8. Len(Author) \in Nat
  BY TranscriptAssumption
<1>9. \A i \in 1..len : first + i - 1 \in 1..Len(Author) /\ first + i - 1 <= k
  BY <1>1, <1>5, <1>8
<1>10. \A i \in 1..len : /\ Message(first + i - 1) \in Entry
                         /\ Message(first + i - 1).id = first + i - 1
                         /\ Message(first + i - 1).cid = 0
                         /\ Message(first + i - 1).time = 2 * (first + i - 1)
  BY <1>9, MessageIs
<1> DEFINE g(i) == Message(first + i - 1)
<1>11. rows = [i \in 1..len |-> g(i)]
  BY <1>4
<1> HIDE DEF rows, len
<1>12. \A i \in 1..len : g(i) \in Entry
  BY <1>10
<1> HIDE DEF g
<1>13. rows \in Seq(Entry) /\ Len(rows) = len /\ \A i \in 1..len : rows[i] = g(i)
  BY <1>5, <1>11, <1>12
<1>14. \A i \in 1..len : /\ rows[i].id = first + i - 1 /\ rows[i].cid = 0
                         /\ rows[i].time = 2 * rows[i].id
  BY <1>10, <1>13 DEF g
<1>15. IsPage(rows)
  BY <1>5, <1>13, <1>14 DEF IsPage
<1>16. Ids(rows) = {rows[i].id : i \in 1..Len(rows)}
  BY <1>13, IdsOf
<1>17. \A r \in Int : r \in Ids(rows) <=> first <= r /\ r <= k
  <2> SUFFICES ASSUME NEW r \in Int
               PROVE  r \in Ids(rows) <=> first <= r /\ r <= k
    OBVIOUS
  <2>1. ASSUME r \in Ids(rows)
        PROVE  first <= r /\ r <= k
    BY <1>1, <1>5, <1>13, <1>14, <1>16, <2>1
  <2>2. ASSUME first <= r, r <= k
        PROVE  r \in Ids(rows)
    <3>1. r - first + 1 \in 1..len /\ first + (r - first + 1) - 1 = r
      BY <1>1, <1>5, <2>2
    <3> QED BY <1>13, <1>14, <1>16, <3>1
  <2> QED BY <2>1, <2>2
<1>18. Ids(rows) \subseteq 1..k
  <2>1. \A i \in 1..len : rows[i].id \in Int
    BY <1>5, <1>14
  <2>2. \A r \in Ids(rows) : r \in Int
    BY <1>13, <1>16, <2>1
  <2> QED BY <1>1, <1>5, <1>17, <2>2
<1>19. k > 0 => k \in Ids(rows)
  <2>1. k > 0 => first <= k
    BY <1>1, <1>7
  <2> QED BY <1>1, <1>17, <2>1
<1>20. Len(rows) < n => \A r \in 1..k : r \in Ids(rows)
  BY <1>1, <1>6, <1>13, <1>17
<1>21. Span(rows, n, k)
  BY <1>5, <1>7, <1>13, <1>15, <1>17, <1>18, <1>19, <1>20 DEF Span
<1> QED BY <1>1, <1>21 DEF rows

(***************************************************************************)
(* The first history                                                       *)
(***************************************************************************)

\* A page of rows is a good window.
LEMMA PageOK ==
  ASSUME NEW n \in Nat, NEW rows, NEW w, IsPage(w), Ids(w) \subseteq 1..n
  PROVE  WindowOK(w, n, rows) /\ Sorted(w)
<1>1. w \in Seq(Entry) /\ Ids(w) = {w[i].id : i \in 1..Len(w)} /\ Len(w) \in Nat
  BY IdsOf DEF IsPage
<1>2. \A i \in 1..Len(w) : w[i].id \in 1..n /\ w[i].time = 2 * w[i].id
  BY <1>1 DEF IsPage
<1>3. \A i, j \in 1..Len(w) : i < j => w[i].id < w[j].id
  BY DEF IsPage
<1>4. Known(w, n, rows)
  BY <1>2 DEF Known, KnownEntry
<1>5. Distinct(w)
  <2> SUFFICES ASSUME NEW i \in 1..Len(w), NEW j \in 1..Len(w), w[i].id = w[j].id, i < j
               PROVE  FALSE
    BY <1>1 DEF Distinct
  <2>1. w[i].id < w[j].id /\ w[i].id \in 1..n /\ w[j].id \in 1..n
    BY <1>2, <1>3
  <2> QED BY <2>1
<1>6. OwnIsLast(w)
  BY <1>2 DEF OwnIsLast, Own
<1>7. Sorted(w)
  BY <1>2, <1>3 DEF Sorted
<1> QED BY <1>1, <1>4, <1>5, <1>6, <1>7 DEF WindowOK

\* What SetHistory makes of the first page.
LEMMA FirstHistory ==
  ASSUME NEW p, IsPage(p), Convex(Ids(p)), NEW w, w = SetHistory(<<>>, p, {})
  PROVE  /\ IsPage(w) /\ Ids(w) \subseteq Ids(p) /\ Convex(Ids(w)) /\ Len(w) <= MessageCap
         /\ \A b \in Ids(p) : (\A x \in Ids(p) : x <= b) => b \in Ids(w)
         /\ p # <<>> => w # <<>>
         /\ Fresh(<<>>, p, {}) = <<>> => w = <<>>
<1> DEFINE all == PlacedAll(<<>>, p, {})
           fr == all.fresh
<1>1. /\ all.win = <<>> /\ IsPage(fr) /\ Len(fr) <= Len(p)
      /\ Ids(fr) = Ids(p) \ Ids(<<>>)
  <2>1. <<>> \in Seq(Entry)
    OBVIOUS
  <2> QED BY <2>1, PageIsNew
<1>2. Ids(<<>>) = {}
  BY DEF Ids
<1>3. Fresh(<<>>, p, {}) = fr
  BY DEF Fresh
<1>4. w = IF fr = <<>> \/ Len(<<>> \o fr) <= MessageCap THEN <<>> \o fr
          ELSE SubSeq(<<>> \o fr, Len(<<>> \o fr) - MessageCap + 1, Len(<<>> \o fr))
  BY <1>1 DEF SetHistory, Merge
<1> HIDE DEF all, fr
<1> DEFINE n == Len(fr)
           cut == n - MessageCap
<1>5. fr \in Seq(Entry) /\ n \in Nat
  BY <1>1 DEF IsPage
<1>6. <<>> \o fr = fr
  BY <1>5
<1>7. MessageCap \in Nat \ {0}
  BY MessageWindowAssumption
<1>8. \A i, j \in 1..n : i < j => fr[i].id < fr[j].id
  BY <1>1 DEF IsPage
<1>9. \A i \in 1..n : fr[i] \in Entry /\ fr[i].id \in Int /\ fr[i].cid = 0 /\ fr[i].time = 2 * fr[i].id
  <2>1. \A i \in 1..n : fr[i] \in Entry
    BY <1>5
  <2>2. \A i \in 1..n : fr[i].cid = 0 /\ fr[i].time = 2 * fr[i].id
    BY <1>1 DEF IsPage
  <2>3. \A e \in Entry : e.id \in Int
    BY DEF Entry
  <2> QED BY <2>1, <2>2, <2>3
<1>10. Ids(fr) = {fr[i].id : i \in 1..n} /\ Ids(fr) = Ids(p)
  BY <1>1, <1>2, <1>5, IdsOf
<1>11. p # <<>> => fr # <<>>
  <2>1. p \in Seq(Entry)
    BY DEF IsPage
  <2>2. Ids(p) = {p[i].id : i \in 1..Len(p)} /\ (p = <<>> <=> Len(p) = 0) /\ Len(p) \in Nat
    BY <2>1, IdsOf
  <2>3. p # <<>> => Ids(p) # {}
    BY <2>2
  <2>4. fr = <<>> => Ids(fr) = {}
    BY DEF Ids
  <2> QED BY <1>10, <2>3, <2>4
<1>12. CASE fr = <<>> \/ n <= MessageCap
  <2>1. w = fr
    BY <1>4, <1>6, <1>12
  <2>2. Len(w) <= MessageCap
    BY <1>7, <1>12, <2>1
  <2> QED BY <1>1, <1>3, <1>10, <1>11, <2>1, <2>2
<1>13. CASE ~(fr = <<>> \/ n <= MessageCap)
  <2>1. w = SubSeq(fr, cut + 1, n)
    BY <1>4, <1>6, <1>13
  <2>2. cut \in Nat /\ n = cut + MessageCap
    BY <1>5, <1>7, <1>13
  <2>3. w \in Seq(Entry) /\ Len(w) = MessageCap /\ \A i \in 1..MessageCap : w[i] = fr[i + cut]
    <3>1. n = Len(fr)
      OBVIOUS
    <3> HIDE DEF cut, n
    <3>2. /\ w \in Seq(Entry) /\ Len(w) = n - (cut + 1) + 1
          /\ \A i \in 1..Len(w) : w[i] = fr[i + (cut + 1) - 1]
      <4> DEFINE from == cut + 1
      <4>1. fr \in Seq(Entry) /\ from \in 1..Len(fr) /\ n = Len(fr) /\ from <= n /\ from \in Nat /\ n \in Nat
        BY <1>5, <1>7, <2>2, <3>1
      <4>2. w = SubSeq(fr, from, n)
        BY <2>1
      <4> HIDE DEF from
      <4>3. Len(SubSeq(fr, from, n)) = n - from + 1
        BY <4>1
      <4>4. SubSeq(fr, from, n) \in Seq(Entry)
        BY <4>1, <4>3
      <4>5. \A i \in 1..Len(SubSeq(fr, from, n)) : SubSeq(fr, from, n)[i] = fr[i + from - 1]
        BY <4>1, <4>3
      <4> QED BY <4>2, <4>3, <4>4, <4>5 DEF from
    <3>3. Len(w) = MessageCap
      BY <1>5, <1>7, <2>2, <3>2
    <3>4. ASSUME NEW i \in 1..MessageCap
          PROVE  w[i] = fr[i + cut]
      <4>1. i + (cut + 1) - 1 = i + cut
        BY <1>5, <1>7, <2>2
      <4> QED BY <3>2, <3>3, <4>1
    <3> QED BY <3>2, <3>3, <3>4
  <2> HIDE DEF n, cut
  <2>4. \A i \in 1..MessageCap : i + cut \in 1..n
    BY <1>5, <1>7, <2>2
  <2>5. IsPage(w)
    <3>1. \A i \in 1..Len(w) : w[i].cid = 0 /\ w[i].time = 2 * w[i].id
      BY <1>9, <2>3, <2>4
    <3>2. ASSUME NEW i \in 1..Len(w), NEW j \in 1..Len(w), i < j
          PROVE  w[i].id < w[j].id
      <4>1. i + cut < j + cut /\ i + cut \in 1..n /\ j + cut \in 1..n
        BY <1>7, <2>2, <2>3, <2>4, <3>2
      <4>2. w[i] = fr[i + cut] /\ w[j] = fr[j + cut]
        BY <2>3
      <4> QED BY <1>8, <4>1, <4>2
    <3> QED BY <2>3, <3>1, <3>2 DEF IsPage
  <2>6. Ids(w) = {w[i].id : i \in 1..Len(w)}
    BY <2>3, IdsOf
  <2>7. Ids(w) \subseteq Ids(fr)
    BY <1>10, <2>3, <2>4, <2>6
  <2>8. ASSUME NEW x \in Ids(w), NEW r \in Ids(fr), x <= r
        PROVE  r \in Ids(w)
    <3>1. PICK i \in 1..MessageCap : x = fr[i + cut].id
      BY <2>3, <2>6
    <3>2. PICK j \in 1..n : r = fr[j].id
      BY <1>10
    <3>3. i + cut \in 1..n /\ fr[i + cut].id \in Int /\ fr[j].id \in Int
      BY <1>9, <2>4
    <3>4. ~(j < i + cut)
      <4>1. j < i + cut => fr[j].id < fr[i + cut].id
        BY <1>8, <3>3
      <4> QED BY <2>8, <3>1, <3>2, <3>3, <4>1
    <3>5. j - cut \in 1..MessageCap /\ (j - cut) + cut = j
      BY <1>5, <1>7, <2>2, <3>4
    <3> QED BY <2>3, <2>6, <3>2, <3>5
  <2>9. Convex(Ids(w))
    BY <1>10, <2>7, <2>8 DEF Convex
  <2>10. \A b \in Ids(p) : (\A x \in Ids(p) : x <= b) => b \in Ids(w)
    <3>1. w[1].id \in Ids(w)
      BY <1>7, <2>3, <2>6
    <3> QED BY <1>10, <2>7, <2>8, <3>1
  <2>11. w # <<>>
    BY <1>7, <2>3
  <2> QED BY <1>3, <1>7, <1>10, <1>13, <2>3, <2>5, <2>7, <2>9, <2>10, <2>11
<1> QED BY <1>12, <1>13

(***************************************************************************)
(* The invariant                                                           *)
(***************************************************************************)

\* The times of the entries.
Times(w) == {w[i].time : i \in 1..Len(w)}

\* The times that divide the rows: of what is asked for and of the window's entries.
Marks(q, w) == {t \in ToSet(q) : t > 0} \cup Times(w)

\* The first row that is not older than t has been reached.
Borders(t, n, rows) ==
  \A k \in 0..n : t = 2 * k + 1 \/ t = 2 * k + 2 => k = n \/ k + 1 \in rows

\* A join comes first in the queue, and one own message is sent at a time.
QueueOK(q, n) ==
  /\ q \in Seq(Int)
  /\ \A i \in 1..Len(q) : q[i] \in Own..(2 * n + 1) /\ (q[i] = Join => i = 1)
  /\ \A i, j \in 1..Len(q) : q[i] = Own /\ q[j] = Own => i = j

\* The ranges of the variables.
Types ==
  /\ stored \in Rows..Len(Author) /\ gone \subseteq 1..stored /\ lost \subseteq 1..stored
  /\ online \in BOOLEAN /\ loaded \in BOOLEAN /\ calm \in BOOLEAN
  /\ view \in Views
  /\ timers \in Seq({"scroll", "retry"}) /\ Len(timers) <= asks
  /\ asks \in 0..MaxAsk /\ drops \in 0..MaxDrops /\ cards \in {0, 1} /\ unseen \in Nat

\* What is so before the first history, without a socket, and while an own
\* message waits for its echo.
Stages ==
  /\ ~online => asked = <<>>
  /\ ~loaded => win = <<>> /\ gone = {} /\ lost = {} /\ view.more /\ cards = 0
  /\ ~loaded /\ online => asked = <<Join>>
  /\ Own \in Ids(win) \cup ToSet(asked) => stored < Len(Author) /\ Author[stored + 1] = Me

\* The window is a good one of the rows reached, and not too long.
Window == WindowOK(win, stored, Reached) /\ Len(win) <= HistoryCap

\* What the page has had has no holes, and in the room it ends with the last row.
Covered ==
  /\ Convex(Reached)
  /\ InRoom => /\ stored > 0 => stored \in Reached
               /\ \A t \in Marks(asked, win) : Borders(t, stored, Reached)

\* The inductive invariant.
Inv == Types /\ QueueOK(asked, stored) /\ Stages /\ Window /\ Covered

(***************************************************************************)
(* Sets of rows and queues                                                 *)
(***************************************************************************)

\* Two sets of rows that touch have no hole between them.
LEMMA ConvexUnion ==
  ASSUME NEW S, NEW T, S \subseteq Int, T \subseteq Int, Convex(S), Convex(T),
         \/ S = {} \/ T = {} \/ \E a \in S, b \in T : a = b \/ a = b + 1 \/ b = a + 1
  PROVE  Convex(S \cup T)
<1>1. CASE S = {} \/ T = {}
  <2>1. S \cup T = S \/ S \cup T = T
    BY <1>1
  <2> QED BY <2>1
<1>2. CASE \E a \in S, b \in T : a = b \/ a = b + 1 \/ b = a + 1
  <2>1. PICK a \in S, b \in T : a = b \/ a = b + 1 \/ b = a + 1
    BY <1>2
  <2>2. a \in Int /\ b \in Int /\ a <= b + 1 /\ b <= a + 1
    BY <2>1
  <2>3. \A x, y \in S : \A r \in Int : x <= r /\ r <= y => r \in S
    BY DEF Convex
  <2>4. \A x, y \in T : \A r \in Int : x <= r /\ r <= y => r \in T
    BY DEF Convex
  <2> SUFFICES ASSUME NEW x \in S \cup T, NEW y \in S \cup T, NEW r \in Int, x <= r, r <= y
               PROVE  r \in S \cup T
    BY DEF Convex
  <2>5. x \in Int /\ y \in Int
    OBVIOUS
  <2>6. CASE x \in S /\ y \in T
    <3>1. CASE r <= a
      BY <2>3, <2>6, <3>1
    <3>2. CASE r > a
      <4>1. b <= r
        BY <2>2, <3>2
      <4> QED BY <2>4, <2>6, <4>1
    <3> QED BY <2>2, <3>1, <3>2
  <2>7. CASE x \in T /\ y \in S
    <3>1. CASE r <= b
      BY <2>4, <2>7, <3>1
    <3>2. CASE r > b
      <4>1. a <= r
        BY <2>2, <3>2
      <4> QED BY <2>3, <2>7, <4>1
    <3> QED BY <2>2, <3>1, <3>2
  <2> QED BY <2>3, <2>4, <2>6, <2>7
<1> QED BY <1>1, <1>2

\* A border stays one when rows are reached and when one is added.
LEMMA BordersGrow ==
  ASSUME NEW n \in Nat, NEW S, NEW T, S \subseteq T, NEW t \in 1..(2 * n + 1), Borders(t, n, S)
  PROVE  Borders(t, n, T) /\ (n + 1 \in T => Borders(t, n + 1, T))
<1>1. \A k \in 0..n : t = 2 * k + 1 \/ t = 2 * k + 2 => k = n \/ k + 1 \in T
  BY DEF Borders
<1>2. ASSUME n + 1 \in T, NEW k \in 0..(n + 1), t = 2 * k + 1 \/ t = 2 * k + 2
      PROVE  k = n + 1 \/ k + 1 \in T
  <2>1. k \in 0..n
    BY <1>2
  <2> QED BY <1>1, <1>2, <2>1
<1> QED BY <1>1, <1>2 DEF Borders

\* An answer takes the first request away.
LEMMA QueueTail ==
  ASSUME NEW n \in Nat, NEW q, QueueOK(q, n), q # <<>>
  PROVE  /\ QueueOK(Tail(q), n) /\ ToSet(Tail(q)) \subseteq ToSet(q)
         /\ Join \notin ToSet(Tail(q)) /\ (Head(q) = Own => Own \notin ToSet(Tail(q)))
         /\ Head(q) \in ToSet(q) /\ Head(q) \in Own..(2 * n + 1)
         /\ (Join \in ToSet(q) => Head(q) = Join)
<1> DEFINE d == Tail(q)
<1>1. q \in Seq(Int) /\ Len(q) \in Nat \ {0} /\ DOMAIN q = 1..Len(q)
  BY DEF QueueOK
<1>2. /\ d \in Seq(Int) /\ Len(d) = Len(q) - 1 /\ DOMAIN d = 1..Len(d)
      /\ \A i \in 1..Len(d) : d[i] = q[i + 1]
  BY <1>1
<1>3. Head(q) = q[1] /\ 1 \in 1..Len(q)
  BY <1>1
<1> HIDE DEF d
<1>4. ToSet(q) = {q[i] : i \in 1..Len(q)}
  BY <1>1 DEF ToSet
<1>5. ToSet(d) = {d[i] : i \in 1..Len(d)}
  BY <1>2 DEF ToSet
<1>6. \A i \in 1..Len(d) : i + 1 \in 1..Len(q) /\ i + 1 # 1 /\ i \in Nat
  BY <1>1, <1>2
<1>7. \A i \in 1..Len(d) : d[i] \in Own..(2 * n + 1) /\ d[i] # Join
  BY <1>2, <1>6 DEF QueueOK
<1>8. ASSUME NEW i \in 1..Len(d), NEW j \in 1..Len(d), d[i] = Own, d[j] = Own
      PROVE  i = j
  <2>1. i + 1 = j + 1
    BY <1>2, <1>6, <1>8 DEF QueueOK
  <2> QED BY <1>6, <2>1
<1>9. QueueOK(d, n)
  BY <1>2, <1>7, <1>8 DEF QueueOK
<1>10. ToSet(d) \subseteq ToSet(q) /\ Join \notin ToSet(d)
  BY <1>2, <1>4, <1>5, <1>6, <1>7
<1>11. Head(q) = Own => Own \notin ToSet(d)
  BY <1>2, <1>3, <1>5, <1>6 DEF QueueOK
<1>12. Head(q) \in ToSet(q) /\ Head(q) \in Own..(2 * n + 1) /\ (Join \in ToSet(q) => Head(q) = Join)
  BY <1>3, <1>4 DEF QueueOK
<1> QED BY <1>9, <1>10, <1>11, <1>12 DEF d

\* A request comes at the end.
LEMMA QueueAppend ==
  ASSUME NEW n \in Nat, NEW q, QueueOK(q, n), NEW x \in Own..(2 * n + 1), x # Join,
         x = Own => Own \notin ToSet(q)
  PROVE  QueueOK(Append(q, x), n) /\ ToSet(Append(q, x)) = ToSet(q) \cup {x}
<1> DEFINE d == Append(q, x)
<1>1. q \in Seq(Int) /\ Len(q) \in Nat /\ DOMAIN q = 1..Len(q) /\ x \in Int
  BY DEF QueueOK, Own
<1>2. /\ d \in Seq(Int) /\ Len(d) = Len(q) + 1 /\ DOMAIN d = 1..Len(d)
      /\ d[Len(q) + 1] = x /\ \A i \in 1..Len(q) : d[i] = q[i]
  BY <1>1
<1> HIDE DEF d
<1>3. ToSet(q) = {q[i] : i \in 1..Len(q)}
  BY <1>1 DEF ToSet
<1>4. ToSet(d) = {d[i] : i \in 1..Len(d)}
  BY <1>2 DEF ToSet
<1>5. \A i \in 1..Len(d) : i \in 1..Len(q) \/ i = Len(q) + 1
  BY <1>1, <1>2
<1>6. \A i \in 1..Len(q) : i \in 1..Len(d)
  BY <1>1, <1>2
<1>7. Len(q) + 1 \in 1..Len(d)
  BY <1>1, <1>2
<1>8. \A i \in 1..Len(d) : d[i] \in Own..(2 * n + 1) /\ (d[i] = Join => i = 1)
  BY <1>2, <1>5 DEF QueueOK
<1>9. ASSUME NEW i \in 1..Len(d), NEW j \in 1..Len(d), d[i] = Own, d[j] = Own
      PROVE  i = j
  BY <1>2, <1>3, <1>5, <1>9 DEF QueueOK
<1>10. ToSet(d) = ToSet(q) \cup {x}
  BY <1>2, <1>3, <1>4, <1>5, <1>6, <1>7
<1> QED BY <1>2, <1>8, <1>9, <1>10 DEF QueueOK, d

(***************************************************************************)
(* What follows from the invariant                                         *)
(***************************************************************************)

\* Ranges that follow from the invariant.
LEMMA Ranges ==
  ASSUME Inv
  PROVE  /\ stored \in Nat /\ Len(Author) \in Nat /\ stored <= Len(Author)
         /\ win \in Seq(Entry) /\ Ids(win) \subseteq Own..stored
         /\ Reached \subseteq 1..stored
         /\ \A t \in Marks(asked, win) : t \in 1..(2 * stored + 1)
         /\ InRoom => loaded
<1>1. stored \in Nat /\ Len(Author) \in Nat /\ stored <= Len(Author)
  BY TranscriptAssumption DEF Inv, Types
<1>2. win \in Seq(Entry) /\ \A i \in 1..Len(win) : KnownEntry(win[i], stored, Reached) /\ win[i] \in Entry
  BY DEF Inv, Window, WindowOK, Known
<1>3. \A i \in 1..Len(win) : win[i].id \in Own..stored /\ win[i].time \in 1..(2 * stored + 1)
  BY <1>1, <1>2, KnownFacts
<1>4. Ids(win) = {win[i].id : i \in 1..Len(win)}
  BY <1>2, IdsOf
<1>5. Ids(win) \subseteq Own..stored
  BY <1>3, <1>4
<1>6. Positive(Ids(win)) \subseteq 1..stored
  BY <1>1, <1>5 DEF Positive, Own
<1>7. Reached \subseteq 1..stored
  BY <1>6 DEF Reached, Inv, Types
<1>8. ASSUME NEW t \in ToSet(asked), t > 0
      PROVE  t \in 1..(2 * stored + 1)
  <2>1. DOMAIN asked = 1..Len(asked) /\ \A i \in 1..Len(asked) : asked[i] \in Own..(2 * stored + 1)
    BY DEF Inv, QueueOK
  <2>2. t \in Own..(2 * stored + 1)
    BY <2>1 DEF ToSet
  <2> QED BY <1>1, <1>8, <2>2 DEF Own
<1>9. \A t \in Marks(asked, win) : t \in 1..(2 * stored + 1)
  BY <1>3, <1>8 DEF Marks, Times
<1>10. InRoom => loaded
  <2>1. Join \in ToSet(<<Join>>)
    BY DEF ToSet
  <2> QED BY <2>1 DEF InRoom, Inv, Stages
<1> QED BY <1>1, <1>2, <1>5, <1>7, <1>9, <1>10

\* What the window becomes, what was cut off, and what is deleted leave no row out.
LEMMA ReachedBecomes ==
  ASSUME Inv, NEW skipped, skipped \subseteq 1..stored,
         lost' = (lost \cup skipped \cup {id \in Ids(win) : id > 0}) \ Ids(win'),
         gone \subseteq gone', gone' \subseteq gone \cup Positive(Ids(win))
  PROVE  Reached' = Reached \cup Positive(Ids(win')) \cup skipped
<1>1. stored \in Nat
  BY Ranges
<1>2. \A r \in lost \cup skipped : r > 0
  BY <1>1 DEF Inv, Types
<1>3. Reached' = Positive(Ids(win')) \cup gone' \cup lost'
  BY DEF Reached, Positive, Ids
<1>4. Reached = Positive(Ids(win)) \cup gone \cup lost
  BY DEF Reached
<1>5. \A S : Positive(S) = {id \in S : id > 0}
  BY DEF Positive
<1>6. Reached' \subseteq Reached \cup Positive(Ids(win')) \cup skipped
  BY <1>3, <1>4, <1>5
<1>7. ASSUME NEW r \in lost \cup skipped \cup Positive(Ids(win))
      PROVE  r \in Positive(Ids(win')) \cup lost'
  <2>1. r > 0
    BY <1>2, <1>5
  <2> QED BY <1>5, <2>1
<1>8. Reached \cup Positive(Ids(win')) \cup skipped \subseteq Reached'
  BY <1>3, <1>4, <1>7
<1> QED BY <1>6, <1>8

(***************************************************************************)
(* Steps that leave the window alone                                       *)
(***************************************************************************)

\* The part of the invariant about what is not the room, the socket or the window.
Rest ==
  /\ calm \in BOOLEAN /\ view \in Views
  /\ timers \in Seq({"scroll", "retry"}) /\ Len(timers) <= asks
  /\ asks \in 0..MaxAsk /\ drops \in 0..MaxDrops /\ cards \in {0, 1} /\ unseen \in Nat
  /\ ~loaded => view.more /\ cards = 0

\* Steps that leave room and window alone keep the invariant.
LEMMA StandsStill ==
  ASSUME Inv, UNCHANGED <<room, online, loaded, win, lost>>, Rest',
         \/ asked' = asked
         \/ online /\ win # <<>> /\ asked' = Append(asked, win[1].time)
         \/ asked # <<>> /\ Head(asked) > 0 /\ asked' = Tail(asked)
  PROVE  Inv'
<1>1. /\ stored \in Nat /\ win \in Seq(Entry) /\ Reached \subseteq 1..stored
      /\ \A t \in Marks(asked, win) : t \in 1..(2 * stored + 1)
  BY Ranges
<1>2. Reached' = Reached
  BY DEF Reached, room
<1>3. /\ QueueOK(asked', stored) /\ Marks(asked', win) \subseteq Marks(asked, win)
      /\ (Own \in ToSet(asked') => Own \in ToSet(asked))
      /\ (Join \notin ToSet(asked') => Join \notin ToSet(asked))
      /\ (~online => asked' = <<>>) /\ (~loaded => asked' = asked)
  <2>1. CASE asked' = asked
    BY <2>1 DEF Inv, Stages
  <2>2. CASE online /\ win # <<>> /\ asked' = Append(asked, win[1].time)
    <3> DEFINE t == win[1].time
    <3>1. 1 \in 1..Len(win)
      BY <1>1, <2>2
    <3>2. t \in Times(win) /\ t \in 1..(2 * stored + 1)
      BY <1>1, <3>1 DEF Times, Marks
    <3> HIDE DEF t
    <3>3. t \in Own..(2 * stored + 1) /\ t # Join /\ t # Own
      BY <1>1, <3>2 DEF Own, Join
    <3>4. QueueOK(asked', stored) /\ ToSet(asked') = ToSet(asked) \cup {t}
      BY <1>1, <2>2, <3>3, QueueAppend DEF Inv, t
    <3>5. loaded
      BY <2>2 DEF Inv, Stages
    <3> QED BY <2>2, <3>2, <3>3, <3>4, <3>5 DEF Marks
  <2>3. CASE asked # <<>> /\ Head(asked) > 0 /\ asked' = Tail(asked)
    <3>1. /\ QueueOK(asked', stored) /\ ToSet(asked') \subseteq ToSet(asked)
          /\ (Join \in ToSet(asked) => Head(asked) = Join)
      BY <1>1, <2>3, QueueTail DEF Inv
    <3>2. Join \notin ToSet(asked)
      BY <2>3, <3>1 DEF Join
    <3>3. Head(<<Join>>) = 0
      BY DEF Join
    <3>4. loaded /\ online
      BY <2>3, <3>3 DEF Inv, Stages
    <3> QED BY <3>1, <3>2, <3>4 DEF Marks
  <2> QED BY <2>1, <2>2, <2>3
<1>4. Types'
  BY DEF Inv, Types, Rest, room
<1>5. QueueOK(asked', stored')
  BY <1>3 DEF room
<1>6. Stages'
  <2>1. Ids(win)' = Ids(win)
    BY DEF Ids
  <2>2. loaded' = loaded /\ online' = online /\ win' = win /\ stored' = stored /\ gone' = gone /\ lost' = lost
    BY DEF room
  <2>3. Own \in Ids(win') \cup ToSet(asked') => Own \in Ids(win) \cup ToSet(asked)
    BY <1>3, <2>2
  <2> QED BY <1>3, <2>2, <2>3 DEF Inv, Stages, Rest
<1>7. Window'
  BY <1>2 DEF Inv, Window, room
<1>8. Covered'
  <2>1. InRoom' => InRoom
    BY <1>3 DEF InRoom
  <2>2. \A t \in Marks(asked', win') : t \in Marks(asked, win)
    BY <1>3
  <2> QED BY <1>2, <2>1, <2>2 DEF Inv, Covered, room
<1> QED BY <1>4, <1>5, <1>6, <1>7, <1>8 DEF Inv

(***************************************************************************)
(* The user                                                                *)
(***************************************************************************)

\* What a request does, in or out of the room.
LEMMA Asks ==
  ASSUME Inv, win # <<>>, NEW kind \in {"scroll", "retry"}, Ask(kind)
  PROVE  /\ asks' \in 0..MaxAsk /\ timers' \in Seq({"scroll", "retry"}) /\ Len(timers') <= asks'
         /\ \/ asked' = asked
            \/ online /\ win # <<>> /\ asked' = Append(asked, win[1].time)
<1>1. MaxAsk \in Nat /\ asks \in 0..MaxAsk /\ asks < MaxAsk
  BY TranscriptAssumption DEF Inv, Types, Ask
<1>2. timers \in Seq({"scroll", "retry"}) /\ Len(timers) <= asks
  BY DEF Inv, Types
<1>3. timers' = Append(timers, kind) /\ asks' = asks + 1
  BY DEF Ask
<1>4. /\ timers' \in Seq({"scroll", "retry"}) /\ Len(timers') = Len(timers) + 1 /\ Len(timers) \in Nat
  BY <1>2, <1>3
<1>5. Len(timers') <= asks'
  BY <1>1, <1>2, <1>3, <1>4
<1> QED BY <1>1, <1>3, <1>4, <1>5 DEF Ask

\* Scrolling: what the view becomes.
LEMMA Scrolls ==
  ASSUME Inv, NEW top \in BOOLEAN, NEW bottom \in BOOLEAN, HandleScroll(top, bottom)
  PROVE  LET asking == top /\ view.more /\ ~view.loading /\ view.conv = "public" IN
         /\ view' \in Views /\ view'.seen = LastId(Shown(view, win))
         /\ Shown(view, win) # <<>> /\ Shown(view, win) \in Seq(Entry)
         /\ view'.conv = view.conv /\ view'.more = view.more /\ view'.error = view.error
         /\ view'.auto = bottom
         /\ asking => /\ view'.loading /\ view'.restore /\ win # <<>>
                      /\ view'.first = FirstId(win) /\ view'.first \in Int
                      /\ Ask("scroll")
         /\ ~asking => /\ view'.loading = view.loading /\ view'.restore = view.restore
                       /\ view'.first = view.first /\ UNCHANGED <<asks, asked, timers>>
         /\ (view.seen = LastId(Shown(view, win)) =>
               view'.badge = IF bottom THEN 0 ELSE view.badge)
<1> DEFINE asking == top /\ view.more /\ ~view.loading /\ view.conv = "public"
           shown == Shown(view, win)
           bad == IF bottom THEN 0 ELSE view.badge
           moved == [view EXCEPT !.auto = bottom, !.badge = bad]
           one == [moved EXCEPT !.loading = TRUE]
           two == [one EXCEPT !.restore = TRUE]
           set == [two EXCEPT !.first = shown[1].id]
           v == IF asking THEN set ELSE moved
<1>1. view \in Views /\ win \in Seq(Entry)
  BY Ranges DEF Inv, Types
<1>2. shown \in Seq(Entry) /\ shown # <<>>
  BY <1>1, TranscriptAssumption DEF Shown, HandleScroll
<1>3. 1 \in 1..Len(shown) /\ shown[1] \in Entry
  BY <1>2
<1>4. shown[1].id \in Int
  BY <1>3 DEF Entry
<1>5. /\ moved \in Views /\ moved.conv = view.conv /\ moved.more = view.more
      /\ moved.error = view.error /\ moved.auto = bottom /\ moved.badge = bad
      /\ moved.seen = view.seen /\ moved.loading = view.loading
      /\ moved.restore = view.restore /\ moved.first = view.first
  BY <1>1 DEF Views
<1>6. view' = CountNew(v, shown)
  BY DEF HandleScroll
<1> HIDE DEF shown, moved
<1>7. /\ set \in Views /\ set.conv = view.conv /\ set.more = view.more
      /\ set.error = view.error /\ set.auto = bottom /\ set.badge = bad
      /\ set.seen = view.seen /\ set.loading /\ set.restore /\ set.first = shown[1].id
  <2>1. /\ one \in Views /\ one.conv = view.conv /\ one.more = view.more
        /\ one.error = view.error /\ one.auto = bottom /\ one.badge = bad
        /\ one.seen = view.seen /\ one.loading
    BY <1>5 DEF Views
  <2> HIDE DEF one
  <2>2. /\ two \in Views /\ two.conv = view.conv /\ two.more = view.more
        /\ two.error = view.error /\ two.auto = bottom /\ two.badge = bad
        /\ two.seen = view.seen /\ two.loading /\ two.restore
    BY <2>1 DEF Views
  <2> HIDE DEF two
  <2> QED BY <1>4, <2>2 DEF Views
<1> HIDE DEF set, bad
<1>8. /\ v \in Views /\ v.conv = view.conv /\ v.more = view.more
      /\ v.error = view.error /\ v.auto = bottom /\ v.badge = bad /\ v.seen = view.seen
      /\ (asking => v.loading /\ v.restore /\ v.first = shown[1].id)
      /\ (~asking => v.loading = view.loading /\ v.restore = view.restore /\ v.first = view.first)
  BY <1>5, <1>7
<1> HIDE DEF v
<1>9. Counted(view', v, shown)
  BY <1>2, <1>6, <1>8, Counts
<1>10. asking => shown = win /\ Ask("scroll")
  BY DEF HandleScroll, shown, Shown
<1>11. ~asking => UNCHANGED <<asks, asked, timers>>
  BY DEF HandleScroll
<1>12. asking => shown[1].id = FirstId(win) /\ win # <<>>
  BY <1>2, <1>10 DEF FirstId
<1> HIDE DEF asking
<1>13. /\ view' \in Views /\ view'.seen = LastId(shown)
       /\ view'.conv = view.conv /\ view'.more = view.more /\ view'.error = view.error
       /\ view'.auto = bottom
       /\ (asking => view'.loading /\ view'.restore /\ view'.first = shown[1].id)
       /\ (~asking => view'.loading = view.loading /\ view'.restore = view.restore
                      /\ view'.first = view.first)
       /\ (view.seen = LastId(shown) => view'.badge = bad)
  BY <1>8, <1>9 DEF Counted
<1> QED BY <1>2, <1>4, <1>10, <1>11, <1>12, <1>13 DEF asking, shown, bad

\* Scrolling keeps the invariant.
LEMMA ScrollKeeps ==
  ASSUME Inv, NEW top \in BOOLEAN, NEW bottom \in BOOLEAN, HandleScroll(top, bottom)
  PROVE  Inv'
<1> DEFINE asking == top /\ view.more /\ ~view.loading /\ view.conv = "public"
<1>1. /\ view' \in Views /\ view'.more = view.more
      /\ (asking => win # <<>> /\ Ask("scroll"))
      /\ (~asking => UNCHANGED <<asks, asked, timers>>)
  BY Scrolls
<1> HIDE DEF asking
<1>2. /\ UNCHANGED <<room, online, loaded, win, drops, cards, calm, lost>>
      /\ unseen' = IF bottom THEN 0 ELSE unseen
  BY DEF HandleScroll
<1>3. /\ asks' \in 0..MaxAsk /\ timers' \in Seq({"scroll", "retry"}) /\ Len(timers') <= asks'
      /\ \/ asked' = asked
         \/ online /\ win # <<>> /\ asked' = Append(asked, win[1].time)
  BY <1>1, Asks DEF Inv, Types
<1>4. Rest'
  BY <1>1, <1>2, <1>3 DEF Rest, Inv, Types, Stages
<1> QED BY <1>2, <1>3, <1>4, StandsStill

\* So does the retry button.
LEMMA RetryKeeps ==
  ASSUME Inv, Retry
  PROVE  Inv'
<1> DEFINE one == [view EXCEPT !.error = FALSE]
           two == [one EXCEPT !.loading = TRUE]
<1>1. /\ UNCHANGED <<room, online, loaded, win, drops, cards, ghosts>>
      /\ \/ win # <<>> /\ Ask("retry")
         \/ UNCHANGED <<asks, asked, timers>>
      /\ view' = one \/ view' = two
  BY DEF Retry
<1>2. one \in Views /\ one.more = view.more
  BY DEF Inv, Types, Views
<1>3. two \in Views /\ two.more = view.more
  BY DEF Inv, Types, Views
<1> HIDE DEF one, two
<1>4. /\ asks' \in 0..MaxAsk /\ timers' \in Seq({"scroll", "retry"}) /\ Len(timers') <= asks'
      /\ \/ asked' = asked
         \/ online /\ win # <<>> /\ asked' = Append(asked, win[1].time)
  BY <1>1, Asks DEF Inv, Types
<1>5. Rest'
  BY <1>1, <1>2, <1>3, <1>4 DEF Rest, Inv, Types, Stages, ghosts
<1>6. UNCHANGED lost
  BY <1>1 DEF ghosts
<1> QED BY <1>1, <1>4, <1>5, <1>6, StandsStill

\* A time-out: what the view becomes.
LEMMA TimeOuts ==
  ASSUME Inv, TimeOut
  PROVE  /\ view' \in Views /\ view'.conv = view.conv /\ view'.more = view.more
         /\ view'.seen = view.seen /\ view'.badge = view.badge /\ view'.auto = view.auto
         /\ (view.loading => view'.error /\ ~view'.loading)
         /\ (~view.loading => view' = view)
         /\ (view'.restore => view.restore /\ view'.first = view.first)
         /\ (view.restore /\ ~view'.restore => view'.error)
<1> DEFINE one == [view EXCEPT !.loading = FALSE]
           two == [one EXCEPT !.error = TRUE]
           three == [two EXCEPT !.restore = FALSE]
           four == [three EXCEPT !.first = None]
<1>1. view' = IF ~view.loading THEN view ELSE IF Head(timers) = "scroll" THEN four ELSE two
  BY DEF TimeOut
<1>2. view \in Views
  BY DEF Inv, Types
<1>3. /\ two \in Views /\ two.conv = view.conv /\ two.more = view.more /\ two.seen = view.seen
      /\ two.badge = view.badge /\ two.auto = view.auto /\ two.error /\ ~two.loading
      /\ two.restore = view.restore /\ two.first = view.first
  BY <1>2 DEF Views
<1> HIDE DEF two
<1>4. /\ four \in Views /\ four.conv = view.conv /\ four.more = view.more /\ four.seen = view.seen
      /\ four.badge = view.badge /\ four.auto = view.auto /\ four.error /\ ~four.loading
      /\ ~four.restore
  BY <1>3 DEF Views
<1> HIDE DEF four
<1> QED BY <1>1, <1>2, <1>3, <1>4

\* Time-outs keep the invariant.
LEMMA TimeOutKeeps ==
  ASSUME Inv, TimeOut
  PROVE  Inv'
<1>1. view' \in Views /\ view'.more = view.more
  BY TimeOuts
<1>2. /\ timers # <<>> /\ timers' = Tail(timers) /\ UNCHANGED <<room, socket, win, bounds, lost, unseen>>
      /\ calm' \in BOOLEAN
  BY DEF TimeOut, KeepsCalm
<1>3. timers \in Seq({"scroll", "retry"}) /\ Len(timers) <= asks /\ asks \in Nat
  BY TranscriptAssumption DEF Inv, Types
<1>4. timers' \in Seq({"scroll", "retry"}) /\ Len(timers') <= asks
  <2>1. timers' \in Seq({"scroll", "retry"}) /\ Len(timers') = Len(timers) - 1 /\ Len(timers) \in Nat
    BY <1>2, <1>3
  <2> QED BY <1>3, <2>1
<1>5. Rest'
  BY <1>1, <1>2, <1>4 DEF Rest, Inv, Types, Stages, socket, bounds
<1>6. UNCHANGED <<room, online, loaded, win, lost>> /\ asked' = asked
  BY <1>2 DEF socket
<1> QED BY <1>5, <1>6, StandsStill

\* So do showing the hidden messages and the floating button.
LEMMA LoadOlderKeeps ==
  ASSUME Inv, HandleLoadOlder \/ ScrollToBottom
  PROVE  Inv'
<1>1. UNCHANGED <<room, socket, win, timers, bounds, calm, lost>> /\ unseen' \in Nat
  BY DEF HandleLoadOlder, ScrollToBottom, ghosts, Inv, Types
<1>2. \/ view' = [view EXCEPT !.all = TRUE]
      \/ view' = [view EXCEPT !.badge = 0]
  BY DEF HandleLoadOlder, ScrollToBottom
<1>3. view' \in Views /\ view'.more = view.more
  <2>1. view \in Views
    BY DEF Inv, Types
  <2>2. CASE view' = [view EXCEPT !.all = TRUE]
    BY <2>1, <2>2 DEF Views
  <2>3. CASE view' = [view EXCEPT !.badge = 0]
    BY <2>1, <2>3 DEF Views
  <2> QED BY <1>2, <2>2, <2>3
<1>4. Rest'
  BY <1>1, <1>3 DEF Rest, Inv, Types, Stages, socket, bounds
<1>5. UNCHANGED <<room, online, loaded, win, lost>> /\ asked' = asked
  BY <1>1 DEF socket
<1> QED BY <1>4, <1>5, StandsStill

\* The switch to the private thread or back: what the view becomes.
LEMMA Switches ==
  ASSUME Inv, SwitchConversation
  PROVE  /\ view' \in Views /\ view'.conv # view.conv /\ view'.more
         /\ ~view'.restore /\ ~view'.loading /\ ~view'.error
         /\ view'.badge = 0 /\ view'.seen = LastId(Shown(view', win))
<1> DEFINE other == IF view.conv = "public" THEN "private" ELSE "public"
           v == [view EXCEPT !.conv = other]
           shown == Shown(v, win)
           never == FALSE
           laid == Layout(v, never, Shown(view, win), shown)
           one == [laid EXCEPT !.more = TRUE, !.badge = 0, !.seen = None, !.restore = FALSE,
                               !.first = None, !.loading = FALSE, !.error = FALSE]
<1>1. view' = CountNew(one, shown)
  BY DEF SwitchConversation
<1>2. v \in Views /\ v.conv = other /\ other # view.conv /\ other \in {"public", "private"}
  BY DEF Inv, Types, Views
<1>3. shown \in Seq(Entry)
  BY Ranges, TranscriptAssumption DEF Shown
<1> HIDE DEF v, other, never
<1>4. laid \in Views /\ laid.conv = other
  <2>1. laid \in Views /\ laid.conv = v.conv
    BY <1>2, Lays
  <2> QED BY <1>2, <2>1
<1> HIDE DEF laid
<1>5. /\ one \in Views /\ one.conv = other /\ one.more /\ ~one.restore /\ ~one.loading /\ ~one.error
      /\ one.badge = 0 /\ one.seen = None
  BY <1>4 DEF Views
<1> HIDE DEF one, shown
<1>6. Counted(view', one, shown)
  BY <1>1, <1>3, <1>5, Counts
<1>7. /\ view' \in Views /\ view'.conv = other /\ view'.more
      /\ ~view'.restore /\ ~view'.loading /\ ~view'.error
      /\ view'.badge = 0 /\ view'.seen = LastId(shown)
  BY <1>5, <1>6 DEF Counted
<1>8. shown = Shown(view', win)
  BY <1>2, <1>7 DEF shown, Shown
<1> QED BY <1>2, <1>7, <1>8

\* The switch keeps the invariant.
LEMMA SwitchKeeps ==
  ASSUME Inv, SwitchConversation
  PROVE  Inv'
<1>1. view' \in Views /\ view'.more
  BY Switches
<1>2. UNCHANGED <<room, socket, win, timers, bounds, lost>> /\ unseen' = 0 /\ calm' \in BOOLEAN
  BY DEF SwitchConversation, KeepsCalm
<1>3. Rest'
  BY <1>1, <1>2 DEF Rest, Inv, Types, Stages, socket, bounds
<1>4. UNCHANGED <<room, online, loaded, win, lost>> /\ asked' = asked
  BY <1>2 DEF socket
<1> QED BY <1>3, <1>4, StandsStill

(***************************************************************************)
(* The socket                                                              *)
(***************************************************************************)

\* So does a refused request.
LEMMA AnswerLostKeeps ==
  ASSUME Inv, AnswerLost
  PROVE  Inv'
<1>1. /\ UNCHANGED <<room, online, loaded, win, view, timers, bounds, ghosts>>
      /\ asked # <<>> /\ Head(asked) > 0 /\ asked' = Tail(asked)
  BY DEF AnswerLost
<1>2. Rest'
  BY <1>1 DEF Rest, Inv, Types, Stages, ghosts, bounds
<1>3. UNCHANGED lost
  BY <1>1 DEF ghosts
<1> QED BY <1>1, <1>2, <1>3, StandsStill

\* A socket that opens or closes is not in the room.
LEMMA ConnectKeeps ==
  ASSUME Inv, Connect \/ Drop
  PROVE  Inv'
<1>1. /\ UNCHANGED <<room, loaded, win, view, timers, asks, cards, ghosts>>
      /\ \/ online' = TRUE /\ asked' = <<Join>> /\ drops' = drops
         \/ online' = FALSE /\ asked' = <<>> /\ drops < MaxDrops /\ drops' = drops + 1
  BY DEF Connect, Drop, bounds
<1>2. Reached' = Reached /\ Ids(win)' = Ids(win) /\ stored \in Nat
  BY <1>1, Ranges DEF Reached, Ids, room, ghosts
<1>3. /\ asked' \in Seq(Int) /\ (asked' = <<Join>> => Len(asked') = 1 /\ asked'[1] = Join)
      /\ (asked' = <<>> => Len(asked') = 0) /\ Own \notin ToSet(asked')
  <2>1. CASE asked' = <<Join>>
    <3>1. asked' \in Seq(Int) /\ Len(asked') = 1 /\ asked'[1] = Join /\ DOMAIN asked' = {1}
      BY <2>1 DEF Join
    <3>2. Own \notin ToSet(asked')
      BY <3>1 DEF ToSet, Own, Join
    <3> QED BY <2>1, <3>1, <3>2
  <2>2. CASE asked' = <<>>
    <3>1. Own \notin ToSet(asked')
      BY <2>2 DEF ToSet
    <3> QED BY <2>2, <3>1
  <2> QED BY <1>1, <2>1, <2>2
<1>4. Types'
  <2>1. drops \in 0..MaxDrops /\ MaxDrops \in Nat
    BY TranscriptAssumption DEF Inv, Types
  <2>2. drops' \in 0..MaxDrops
    <3>1. drops' = drops \/ (drops < MaxDrops /\ drops' = drops + 1)
      BY <1>1
    <3> QED BY <2>1, <3>1
  <2>3. online' \in BOOLEAN
    BY <1>1
  <2> QED BY <1>1, <2>2, <2>3 DEF Inv, Types, room, ghosts
<1>5. QueueOK(asked', stored')
  BY <1>1, <1>2, <1>3 DEF QueueOK, Own, Join, room
<1>6. Stages'
  <2>1. Own \notin ToSet(asked)'
    BY <1>3
  <2> QED BY <1>1, <1>2, <2>1 DEF Inv, Stages, room, ghosts
<1>7. Window'
  BY <1>1, <1>2 DEF Inv, Window, room
<1>8. Covered'
  <2>1. ~InRoom'
    BY <1>1 DEF InRoom, ToSet
  <2> QED BY <1>2, <2>1 DEF Inv, Covered
<1> QED BY <1>4, <1>5, <1>6, <1>7, <1>8 DEF Inv

\* A row more changes nothing that was known.
LEMMA WindowLater ==
  ASSUME NEW n \in Nat, NEW m \in Nat, n <= m, NEW w, NEW rows, NEW rows2, rows \subseteq rows2,
         WindowOK(w, n, rows)
  PROVE  WindowOK(w, m, rows2)
BY KnownGrows DEF WindowOK, Known

\* A row more keeps the queue good.
LEMMA QueueLater ==
  ASSUME NEW n \in Nat, NEW m \in Nat, n <= m, NEW q, QueueOK(q, n)
  PROVE  QueueOK(q, m)
<1>1. \A x : x \in Own..(2 * n + 1) => x \in Own..(2 * m + 1)
  BY DEF Own
<1> QED BY <1>1 DEF QueueOK

\* A row the page misses keeps the invariant.
LEMMA MissedKeeps ==
  ASSUME Inv, Missed
  PROVE  Inv'
<1>1. /\ UNCHANGED <<gone, socket, win, view, timers, bounds, ghosts>>
      /\ ~InRoom /\ stored < Len(Author) /\ Author[stored + 1] # Me /\ stored' = stored + 1
  BY DEF Missed
<1>2. Reached' = Reached /\ Ids(win)' = Ids(win)
  BY <1>1 DEF Reached, Ids, ghosts
<1>3. stored \in Nat /\ stored' \in Nat /\ stored <= stored' /\ Len(Author) \in Nat
  BY <1>1, Ranges
<1>4. Types'
  BY <1>1, <1>3, TranscriptAssumption DEF Inv, Types, socket, bounds, ghosts
<1>5. QueueOK(asked', stored')
  BY <1>1, <1>3, QueueLater DEF Inv, socket
<1>6. Stages'
  BY <1>1, <1>2 DEF Inv, Stages, socket, bounds, ghosts
<1>7. Window'
  <2>1. WindowOK(win, stored', Reached)
    BY <1>3, WindowLater DEF Inv, Window
  <2> QED BY <1>1, <1>2, <2>1 DEF Inv, Window
<1>8. Covered'
  <2>1. ~InRoom'
    BY <1>1 DEF InRoom, socket
  <2> QED BY <1>2, <2>1 DEF Inv, Covered
<1> QED BY <1>4, <1>5, <1>6, <1>7, <1>8 DEF Inv

(***************************************************************************)
(* Entries that come at the end                                            *)
(***************************************************************************)

\* No times but the old ones and the new one.
LEMMA AtEndTimes ==
  ASSUME NEW w \in Seq(Entry), NEW m, NEW d, AtEnd(d, w, m)
  PROVE  Times(d) \subseteq Times(w) \cup {m.time}
<1>1. PICK cut \in 0..Len(w) :
    /\ d \in Seq(Entry) /\ Len(d) = Len(w) - cut + 1
    /\ \A i \in 1..(Len(w) - cut) : d[i] = w[i + cut]
    /\ d[Len(d)] = m
  BY DEF AtEnd
<1>2. Len(w) \in Nat /\ cut \in Nat /\ cut <= Len(w)
  BY <1>1
<1>3. ASSUME NEW i \in 1..Len(d)
      PROVE  d[i].time \in Times(w) \cup {m.time}
  <2>1. CASE i = Len(d)
    BY <1>1, <2>1
  <2>2. CASE i # Len(d)
    <3> DEFINE n == Len(w)
               p == Len(d)
    <3>0. n \in Nat /\ p = n - cut + 1 /\ i \in 1..p /\ i # p /\ cut \in Nat /\ cut <= n
      BY <1>1, <1>2, <2>2
    <3> HIDE DEF n, p
    <3>1. i \in 1..(n - cut) /\ i + cut \in 1..n
      BY <3>0
    <3>2. i \in 1..(Len(w) - cut) /\ i + cut \in 1..Len(w)
      BY <3>1 DEF n
    <3> QED BY <1>1, <3>2 DEF Times
  <2> QED BY <2>1, <2>2
<1> QED BY <1>3 DEF Times

\* The window gets a new entry: the next row, or one of the page's own.
LEMMA Appends ==
  ASSUME Inv, InRoom, NEW m \in Entry, NEW n \in {stored, stored + 1}, n <= Len(Author),
         stored' = n,
         \/ n = stored + 1 /\ m.id = stored + 1 /\ m.time = 2 * (stored + 1)
         \/ n = stored /\ m.id \in {Own, Card} /\ m.time = 2 * stored + 1,
         m.id \notin Ids(win), Own \in Ids(win) => m.id <= 0, AtEnd(win', win, m),
         lost' = (lost \cup {id \in Ids(win) : id > 0}) \ Ids(win'), gone' = gone,
         InRoom', {t \in ToSet(asked') : t > 0} \subseteq ToSet(asked)
  PROVE  /\ Window' /\ Covered' /\ Ids(win') \subseteq Ids(win) \cup {m.id}
         /\ Reached' = Reached \cup Positive({m.id}) /\ gone' \subseteq 1..n /\ lost' \subseteq 1..n
         /\ (Sorted(win) => Sorted(win'))
<1>1. /\ stored \in Nat /\ Len(Author) \in Nat /\ stored <= Len(Author)
      /\ win \in Seq(Entry) /\ Ids(win) \subseteq Own..stored
      /\ Reached \subseteq 1..stored
      /\ \A t \in Marks(asked, win) : t \in 1..(2 * stored + 1)
  BY Ranges
<1>2. Convex(Reached) /\ (stored > 0 => stored \in Reached)
      /\ \A t \in Marks(asked, win) : Borders(t, stored, Reached)
  BY DEF Inv, Covered
<1>3. /\ n \in Nat /\ stored <= n /\ m.id \in Int /\ m.time \in Int
      /\ WindowOK(win, stored, Reached)
  BY <1>1 DEF Entry, Inv, Window
<1>4. KnownEntry(m, n, Reached)
  <2>1. CASE n = stored + 1 /\ m.id = stored + 1 /\ m.time = 2 * (stored + 1)
    BY <1>1, <2>1 DEF KnownEntry
  <2>2. CASE n = stored /\ m.id \in {Own, Card} /\ m.time = 2 * stored + 1
    BY <1>1, <1>2, <2>2 DEF KnownEntry
  <2> QED BY <2>1, <2>2
<1>5. Reached \subseteq Reached
  OBVIOUS
<1>6. /\ Ids(win') \subseteq Ids(win) \cup {m.id} /\ m.id \in Ids(win') /\ Len(win') <= MessageCap
      /\ (Sorted(win) /\ (m.id > 0 => \A i \in 1..Len(win) : win[i].time < m.time) => Sorted(win'))
  BY <1>1, <1>3, <1>4, <1>5, AtEndKeeps
<1>7. Reached' = Reached \cup Positive(Ids(win'))
  <2> DEFINE none == {}
  <2>1. none \subseteq 1..stored
    OBVIOUS
  <2>2. lost' = (lost \cup none \cup {id \in Ids(win) : id > 0}) \ Ids(win')
    OBVIOUS
  <2>3. gone \subseteq gone' /\ gone' \subseteq gone \cup Positive(Ids(win))
    OBVIOUS
  <2> HIDE DEF none
  <2>4. Reached' = Reached \cup Positive(Ids(win')) \cup none
    BY <2>1, <2>2, <2>3, ReachedBecomes
  <2> QED BY <2>4 DEF none
<1>8. Reached' = Reached \cup Positive({m.id})
  <2>1. Positive(Ids(win)) \subseteq Reached
    BY DEF Reached
  <2> QED BY <1>6, <1>7, <2>1 DEF Positive
<1>9. Reached \subseteq Reached'
  BY <1>8
<1>10. KnownEntry(m, n, Reached')
  BY <1>3, <1>4, <1>9, KnownGrows
<1>11. WindowOK(win', n, Reached')
  BY <1>1, <1>3, <1>9, <1>10, AtEndKeeps
<1>12. Len(win') <= HistoryCap
  <2>1. win' \in Seq(Entry)
    BY <1>11 DEF WindowOK
  <2> QED BY <1>6, <2>1, TranscriptAssumption, MessageWindowAssumption
<1>13. Window'
  BY <1>11, <1>12 DEF Window
<1>14. \/ n = stored /\ Positive({m.id}) = {}
       \/ n = stored + 1 /\ Positive({m.id}) = {n} /\ n \in Reached' /\ m.time = 2 * n
  <2>1. CASE n = stored + 1 /\ m.id = stored + 1 /\ m.time = 2 * (stored + 1)
    <3>1. Positive({m.id}) = {n}
      BY <1>1, <2>1 DEF Positive
    <3> QED BY <1>8, <2>1, <3>1
  <2>2. CASE n = stored /\ m.id \in {Own, Card} /\ m.time = 2 * stored + 1
    BY <2>2 DEF Positive, Own, Card
  <2> QED BY <2>1, <2>2
<1>15. Convex(Reached')
  <2>1. CASE Positive({m.id}) = {}
    BY <1>2, <1>8, <2>1
  <2>2. CASE n = stored + 1 /\ Positive({m.id}) = {n}
    <3>1. {n} \subseteq Int /\ Reached \subseteq Int /\ Convex({n})
      BY <1>1, <1>3 DEF Convex
    <3>2. Reached = {} \/ \E a \in Reached, b \in {n} : b = a + 1
      <4>1. stored = 0 => Reached = {}
        BY <1>1
      <4> QED BY <1>1, <1>2, <2>2, <4>1
    <3>3. Convex(Reached \cup {n})
      BY <1>2, <3>1, <3>2, ConvexUnion
    <3> QED BY <1>8, <2>2, <3>3
  <2> QED BY <1>14, <2>1, <2>2
<1>16. n > 0 => n \in Reached'
  BY <1>2, <1>9, <1>14
<1>17. ASSUME NEW t \in Marks(asked', win')
       PROVE  Borders(t, n, Reached')
  <2>1. Times(win') \subseteq Times(win) \cup {m.time}
    BY <1>1, AtEndTimes
  <2>2. t \in Marks(asked, win) \/ t = m.time
    BY <2>1 DEF Marks
  <2>3. CASE t \in Marks(asked, win)
    <3>1. Borders(t, stored, Reached) /\ t \in 1..(2 * stored + 1)
      BY <1>1, <1>2, <2>3
    <3>2. Borders(t, stored, Reached') /\ (stored + 1 \in Reached' => Borders(t, stored + 1, Reached'))
      BY <1>1, <1>9, <3>1, BordersGrow
    <3> QED BY <1>14, <3>2
  <2>4. CASE t = m.time
    <3>1. CASE n = stored + 1 /\ m.id = stored + 1 /\ m.time = 2 * (stored + 1)
      <4>1. n \in Reached'
        BY <1>1, <1>14, <3>1
      <4> QED BY <1>1, <2>4, <3>1, <4>1 DEF Borders
    <3>2. CASE n = stored /\ m.id \in {Own, Card} /\ m.time = 2 * stored + 1
      BY <1>1, <2>4, <3>2 DEF Borders
    <3> QED BY <3>1, <3>2
  <2> QED BY <2>2, <2>3, <2>4
<1>18. Covered'
  BY <1>15, <1>16, <1>17 DEF Covered
<1>19. gone' \subseteq 1..n /\ lost' \subseteq 1..n
  <2>1. gone \subseteq 1..stored /\ lost \subseteq 1..stored
    BY DEF Inv, Types
  <2>2. \A r \in 1..stored : r \in 1..n
    BY <1>1
  <2>3. \A r \in Own..stored : r > 0 => r \in 1..stored
    BY <1>1 DEF Own
  <2> QED BY <1>1, <2>1, <2>2, <2>3
<1>20. Sorted(win) => Sorted(win')
  <2>1. ASSUME m.id > 0, NEW i \in 1..Len(win)
        PROVE  win[i].time < m.time
    <3>1. win[i].time \in 1..(2 * stored + 1)
      BY <1>1 DEF Marks, Times
    <3>2. m.time = 2 * (stored + 1)
      BY <2>1 DEF Own, Card
    <3> QED BY <1>1, <3>1, <3>2
  <2> QED BY <1>6, <2>1
<1> QED BY <1>6, <1>8, <1>13, <1>18, <1>19, <1>20

\* The revision of the window changed.
LEMMA AlwaysBumped ==
  ASSUME NEW c, NEW v, NEW bumped, bumped, NEW before, NEW after,
         Committed(c, v, bumped, before, after)
  PROVE  Committed(c, v, TRUE, before, after)
BY DEF Committed, Restores

\* It did not.
LEMMA NeverBumped ==
  ASSUME NEW c, NEW v, NEW bumped, ~bumped, NEW before, NEW after,
         Committed(c, v, bumped, before, after)
  PROVE  Committed(c, v, FALSE, before, after)
BY DEF Committed, Restores

\* Gets, of an entry the window does not have.
LEMMA GetsNew ==
  ASSUME Inv, NEW m \in Entry, m.id \notin Ids(win), m.cid # 0 => m.cid \notin Ids(win), Gets(m)
  PROVE  /\ AtEnd(win', win, m) /\ win' \in Seq(Entry) /\ calm' \in BOOLEAN
         /\ lost' = (lost \cup {id \in Ids(win) : id > 0}) \ Ids(win')
         /\ unseen' = IF ~view.auto /\ view.conv = "public" THEN unseen + 1 ELSE unseen
         /\ Committed(view', view, TRUE, Shown(view, win), Shown(view, win'))
<1> DEFINE w == AddMessage(win, m, {})
           bumped == Fresh(win, <<m>>, {}) # <<>>
<1>1. view \in Views /\ win \in Seq(Entry)
  BY Ranges DEF Inv, Types
<1>2. Fresh(win, <<m>>, {}) = <<m>> /\ AtEnd(w, win, m)
  BY <1>1, NewAtEnd
<1>3. <<m>> # <<>>
  OBVIOUS
<1>4. bumped
  BY <1>2, <1>3
<1>5. win' = w /\ view' = Commit(view, bumped, w)
      /\ lost' = (lost \cup {} \cup {id \in Ids(win) : id > 0}) \ Ids(w)
      /\ calm' \in BOOLEAN
      /\ unseen' = IF ~view.auto /\ view.conv = "public" /\ bumped THEN unseen + 1 ELSE unseen
  BY DEF Gets, Becomes, KeepsCalm
<1> HIDE DEF w, bumped
<1>6. w \in Seq(Entry)
  BY <1>2 DEF AtEnd
<1>7. Committed(view', view, bumped, Shown(view, win), Shown(view, w))
  BY <1>1, <1>5, <1>6, Commits
<1>8. Committed(view', view, TRUE, Shown(view, win), Shown(view, w))
  BY <1>4, <1>7, AlwaysBumped
<1> QED BY <1>2, <1>4, <1>5, <1>6, <1>8

\* The types of what a window step leaves, and of the view it renders.
LEMMA TypesAfter ==
  ASSUME Inv, NEW v \in Views, NEW b, NEW before, NEW after, Committed(view', v, b, before, after),
         stored' \in Rows..Len(Author), gone' \subseteq 1..stored', lost' \subseteq 1..stored',
         UNCHANGED <<online, timers, asks, drops>>, loaded' \in BOOLEAN, calm' \in BOOLEAN,
         cards' \in {0, 1}, unseen' \in Nat
  PROVE  Types'
<1>1. view' \in Views
  BY DEF Committed
<1> QED BY <1>1 DEF Inv, Types

\* The next row is in no window.
LEMMA StoredNext ==
  ASSUME Inv, stored < Len(Author)
  PROVE  /\ stored + 1 \in Rows..Len(Author) /\ stored + 1 \in 1..Len(Author)
         /\ stored + 1 \notin Ids(win) /\ stored \in Nat /\ stored + 1 \in Nat
<1>1. stored \in Nat /\ Len(Author) \in Nat /\ Ids(win) \subseteq Own..stored
  BY Ranges
<1>2. Rows \in Nat /\ Rows <= stored
  BY TranscriptAssumption DEF Inv, Types
<1>3. stored + 1 \notin Own..stored
  BY <1>1 DEF Own
<1> QED BY <1>1, <1>2, <1>3

\* Arrive: the next row, of somebody else, at the end.
LEMMA Arrives ==
  ASSUME Inv, Arrive
  PROVE  LET m == Message(stored + 1) IN
         /\ InRoom /\ loaded /\ stored + 1 \in Rows..Len(Author)
         /\ stored' = stored + 1 /\ UNCHANGED <<gone, socket, timers, bounds>> /\ calm' \in BOOLEAN
         /\ m \in Entry /\ m.id = stored + 1 /\ m.time = 2 * (stored + 1) /\ m.id \notin Ids(win)
         /\ Own \notin Ids(win) \cup ToSet(asked)
         /\ AtEnd(win', win, m) /\ win' \in Seq(Entry)
         /\ lost' = (lost \cup {id \in Ids(win) : id > 0}) \ Ids(win')
         /\ unseen' = (IF ~view.auto /\ view.conv = "public" THEN unseen + 1 ELSE unseen)
         /\ Committed(view', view, TRUE, Shown(view, win), Shown(view, win'))
<1> DEFINE m == Message(stored + 1)
<1>1. /\ InRoom /\ stored < Len(Author) /\ Author[stored + 1] # Me /\ stored' = stored + 1
      /\ Gets(m) /\ UNCHANGED <<gone, socket, timers, bounds>>
  BY DEF Arrive
<1>2. /\ stored + 1 \in Rows..Len(Author) /\ stored + 1 \in 1..Len(Author)
      /\ stored + 1 \notin Ids(win)
  BY <1>1, StoredNext
<1>3. m \in Entry /\ m.id = stored + 1 /\ m.cid = 0 /\ m.time = 2 * (stored + 1)
  BY <1>2, MessageIs
<1>4. Own \notin Ids(win) \cup ToSet(asked)
  BY <1>1 DEF Inv, Stages
<1> HIDE DEF m
<1>5. /\ AtEnd(win', win, m) /\ win' \in Seq(Entry) /\ calm' \in BOOLEAN
      /\ lost' = (lost \cup {id \in Ids(win) : id > 0}) \ Ids(win')
      /\ unseen' = (IF ~view.auto /\ view.conv = "public" THEN unseen + 1 ELSE unseen)
      /\ Committed(view', view, TRUE, Shown(view, win), Shown(view, win'))
  BY <1>1, <1>2, <1>3, GetsNew
<1>6. loaded
  BY <1>1, Ranges
<1> QED BY <1>1, <1>2, <1>3, <1>4, <1>5, <1>6 DEF m

\* Messages of others keep the invariant.
LEMMA ArriveKeeps ==
  ASSUME Inv, Arrive
  PROVE  Inv'
<1> DEFINE m == Message(stored + 1)
           n == stored + 1
<1>1. /\ InRoom /\ loaded /\ n \in Rows..Len(Author)
      /\ stored' = n /\ UNCHANGED <<gone, socket, timers, bounds>> /\ calm' \in BOOLEAN
      /\ m \in Entry /\ m.id = stored + 1 /\ m.time = 2 * (stored + 1) /\ m.id \notin Ids(win)
      /\ Own \notin Ids(win) \cup ToSet(asked)
      /\ AtEnd(win', win, m)
      /\ lost' = (lost \cup {id \in Ids(win) : id > 0}) \ Ids(win')
      /\ unseen' = (IF ~view.auto /\ view.conv = "public" THEN unseen + 1 ELSE unseen)
      /\ Committed(view', view, TRUE, Shown(view, win), Shown(view, win'))
  BY Arrives
<1>2. stored \in Nat /\ Len(Author) \in Nat /\ n \in Nat /\ n <= Len(Author) /\ stored <= n
  BY <1>1, Ranges
<1>3. InRoom' /\ {t \in ToSet(asked') : t > 0} \subseteq ToSet(asked)
  BY <1>1 DEF InRoom, socket
<1> HIDE DEF m
<1>4. n \in {stored, stored + 1}
  OBVIOUS
<1> HIDE DEF n
<1>5. /\ Window' /\ Covered' /\ Ids(win') \subseteq Ids(win) \cup {m.id}
      /\ gone' \subseteq 1..n /\ lost' \subseteq 1..n
  BY <1>1, <1>2, <1>3, <1>4, Appends DEF n
<1>6. Types'
  <2>1. unseen' \in Nat
    BY <1>1 DEF Inv, Types
  <2> QED BY <1>1, <1>5, <2>1, TypesAfter DEF Inv, Types, socket, bounds
<1>7. QueueOK(asked', stored')
  BY <1>1, <1>2, QueueLater DEF Inv, socket
<1>8. Stages'
  <2>1. Own \notin Ids(win') \cup ToSet(asked')
    <3>1. m.id # Own
      BY <1>1, <1>2 DEF Own
    <3> QED BY <1>1, <1>5, <3>1 DEF socket
  <2>2. Own \notin Ids(win)' \cup ToSet(asked)'
    BY <2>1 DEF Ids
  <2> QED BY <1>1, <2>2 DEF Inv, Stages, socket
<1> QED BY <1>5, <1>6, <1>7, <1>8 DEF Inv

\* An entry the page makes.
LEMMA LocalIs ==
  ASSUME stored \in Nat, NEW id \in Int, NEW who \in {Me, Bot}
  PROVE  LET m == Local(id, who) IN
         m \in Entry /\ m.id = id /\ m.cid = id /\ m.time = 2 * stored + 1
<1>1. "t" \in Texts
  BY DEF Texts
<1> QED BY <1>1 DEF Local, Entry

\* SendMessage: the page's own entry, at the end, until its echo comes.
LEMMA Sends ==
  ASSUME Inv, SendMessage
  PROVE  LET m == Local(Own, Me) IN
         /\ InRoom /\ loaded /\ stored < Len(Author) /\ Author[stored + 1] = Me
         /\ Own \notin Ids(win) \cup ToSet(asked)
         /\ asked' = Append(asked, Own)
         /\ UNCHANGED <<room, online, loaded, timers, bounds>> /\ calm' \in BOOLEAN
         /\ m \in Entry /\ m.id = Own /\ m.time = 2 * stored + 1
         /\ AtEnd(win', win, m) /\ win' \in Seq(Entry)
         /\ lost' = (lost \cup {id \in Ids(win) : id > 0}) \ Ids(win')
         /\ unseen' = (IF ~view.auto /\ view.conv = "public" THEN unseen + 1 ELSE unseen)
         /\ Committed(view', view, TRUE, Shown(view, win), Shown(view, win'))
<1> DEFINE m == Local(Own, Me)
<1>1. /\ InRoom /\ stored < Len(Author) /\ Author[stored + 1] = Me
      /\ Own \notin Ids(win) \cup ToSet(asked)
      /\ asked' = Append(asked, Own) /\ Gets(m)
      /\ UNCHANGED <<room, online, loaded, timers, bounds>>
  BY DEF SendMessage
<1>2. m \in Entry /\ m.id = Own /\ m.cid = Own /\ m.time = 2 * stored + 1
  BY Ranges, LocalIs DEF Own
<1> HIDE DEF m
<1>3. /\ AtEnd(win', win, m) /\ win' \in Seq(Entry) /\ calm' \in BOOLEAN
      /\ lost' = (lost \cup {id \in Ids(win) : id > 0}) \ Ids(win')
      /\ unseen' = (IF ~view.auto /\ view.conv = "public" THEN unseen + 1 ELSE unseen)
      /\ Committed(view', view, TRUE, Shown(view, win), Shown(view, win'))
  BY <1>1, <1>2, GetsNew
<1>4. loaded
  BY <1>1, Ranges
<1> QED BY <1>1, <1>2, <1>3, <1>4 DEF m

\* Sending keeps the invariant.
LEMMA SendKeeps ==
  ASSUME Inv, SendMessage
  PROVE  Inv'
<1> DEFINE m == Local(Own, Me)
           n == stored
<1>1. /\ InRoom /\ loaded /\ stored < Len(Author) /\ Author[stored + 1] = Me
      /\ Own \notin Ids(win) \cup ToSet(asked)
      /\ asked' = Append(asked, Own)
      /\ UNCHANGED <<room, online, loaded, timers, bounds>> /\ calm' \in BOOLEAN
      /\ m \in Entry /\ m.id = Own /\ m.time = 2 * stored + 1
      /\ AtEnd(win', win, m)
      /\ lost' = (lost \cup {id \in Ids(win) : id > 0}) \ Ids(win')
      /\ unseen' = (IF ~view.auto /\ view.conv = "public" THEN unseen + 1 ELSE unseen)
      /\ Committed(view', view, TRUE, Shown(view, win), Shown(view, win'))
  BY Sends
<1>2. stored \in Nat /\ Len(Author) \in Nat /\ stored \in Rows..Len(Author)
  BY Ranges DEF Inv, Types
<1> HIDE DEF m
<1>3. QueueOK(asked', stored) /\ ToSet(asked') = ToSet(asked) \cup {Own}
  <2>1. Own \in Own..(2 * stored + 1) /\ Own # Join
    BY <1>2 DEF Own, Join
  <2> QED BY <1>1, <1>2, <2>1, QueueAppend DEF Inv
<1>4. InRoom' /\ {t \in ToSet(asked') : t > 0} \subseteq ToSet(asked)
  BY <1>1, <1>3 DEF InRoom, Own, Join
<1>5. n \in {stored, stored + 1} /\ stored' = n /\ n <= Len(Author) /\ gone' = gone /\ n = stored
      /\ stored' = stored
  BY <1>1, <1>2 DEF room
<1> HIDE DEF n
<1>6. m.id \in {Own, Card} /\ m.id \notin Ids(win) /\ m.id <= 0
  BY <1>1 DEF Own
<1>7. /\ Window' /\ Covered' /\ gone' \subseteq 1..n /\ lost' \subseteq 1..n
  BY <1>1, <1>4, <1>5, <1>6, Appends
<1>8. Types'
  <2>1. unseen' \in Nat
    BY <1>1 DEF Inv, Types
  <2> QED BY <1>1, <1>2, <1>5, <1>7, <2>1, TypesAfter DEF Inv, Types, bounds
<1>9. QueueOK(asked', stored')
  BY <1>3, <1>5
<1>10. Stages'
  BY <1>1, <1>5 DEF Inv, Stages, InRoom
<1> QED BY <1>7, <1>8, <1>9, <1>10 DEF Inv

\* StreamOpens: the card of an answer, at the end.
LEMMA Opens ==
  ASSUME Inv, StreamOpens
  PROVE  LET m == Local(Card, Bot) IN
         /\ InRoom /\ loaded /\ cards = 0 /\ cards' = 1
         /\ UNCHANGED <<room, socket, timers, asks, drops>> /\ calm' \in BOOLEAN
         /\ m \in Entry /\ m.id = Card /\ m.time = 2 * stored + 1 /\ m.id \notin Ids(win)
         /\ AtEnd(win', win, m) /\ win' \in Seq(Entry)
         /\ lost' = (lost \cup {id \in Ids(win) : id > 0}) \ Ids(win')
         /\ unseen' = (IF ~view.auto /\ view.conv = "public" THEN unseen + 1 ELSE unseen)
         /\ Committed(view', view, TRUE, Shown(view, win), Shown(view, win'))
<1> DEFINE m == Local(Card, Bot)
<1>1. /\ InRoom /\ Card \notin Ids(win) /\ cards = 0 /\ cards' = 1
      /\ Gets(m) /\ UNCHANGED <<room, socket, timers, asks, drops>>
  BY DEF StreamOpens
<1>2. m \in Entry /\ m.id = Card /\ m.cid = Card /\ m.time = 2 * stored + 1
  BY Ranges, LocalIs DEF Card
<1> HIDE DEF m
<1>3. m.id \notin Ids(win) /\ (m.cid # 0 => m.cid \notin Ids(win))
  BY <1>1, <1>2
<1>4. /\ AtEnd(win', win, m) /\ win' \in Seq(Entry) /\ calm' \in BOOLEAN
      /\ lost' = (lost \cup {id \in Ids(win) : id > 0}) \ Ids(win')
      /\ unseen' = (IF ~view.auto /\ view.conv = "public" THEN unseen + 1 ELSE unseen)
      /\ Committed(view', view, TRUE, Shown(view, win), Shown(view, win'))
  BY <1>1, <1>2, <1>3, GetsNew
<1>5. loaded
  BY <1>1, Ranges
<1> QED BY <1>1, <1>2, <1>3, <1>4, <1>5 DEF m

\* So does the card of an answer.
LEMMA OpenKeeps ==
  ASSUME Inv, StreamOpens
  PROVE  Inv'
<1> DEFINE m == Local(Card, Bot)
           n == stored
<1>1. /\ InRoom /\ loaded /\ cards = 0 /\ cards' = 1
      /\ UNCHANGED <<room, socket, timers, asks, drops>> /\ calm' \in BOOLEAN
      /\ m \in Entry /\ m.id = Card /\ m.time = 2 * stored + 1 /\ m.id \notin Ids(win)
      /\ AtEnd(win', win, m)
      /\ lost' = (lost \cup {id \in Ids(win) : id > 0}) \ Ids(win')
      /\ unseen' = (IF ~view.auto /\ view.conv = "public" THEN unseen + 1 ELSE unseen)
      /\ Committed(view', view, TRUE, Shown(view, win), Shown(view, win'))
  BY Opens
<1>2. stored \in Nat /\ Len(Author) \in Nat /\ stored \in Rows..Len(Author)
  BY Ranges DEF Inv, Types
<1> HIDE DEF m
<1>3. InRoom' /\ {t \in ToSet(asked') : t > 0} \subseteq ToSet(asked)
  BY <1>1 DEF InRoom, socket
<1>4. n \in {stored, stored + 1} /\ stored' = n /\ n <= Len(Author) /\ gone' = gone /\ n = stored
      /\ stored' = stored
  BY <1>1, <1>2 DEF room
<1> HIDE DEF n
<1>5. m.id \in {Own, Card} /\ m.id <= 0
  BY <1>1 DEF Card
<1>6. /\ Window' /\ Covered' /\ gone' \subseteq 1..n /\ lost' \subseteq 1..n
      /\ Ids(win') \subseteq Ids(win) \cup {m.id}
  BY <1>1, <1>3, <1>4, <1>5, Appends
<1>7. Types'
  <2>1. unseen' \in Nat
    BY <1>1 DEF Inv, Types
  <2> QED BY <1>1, <1>2, <1>4, <1>6, <2>1, TypesAfter DEF Inv, Types, socket
<1>8. QueueOK(asked', stored')
  BY <1>1, <1>4 DEF Inv, socket
<1>9. Stages'
  <2>1. Own \in Ids(win') \cup ToSet(asked') => Own \in Ids(win) \cup ToSet(asked)
    BY <1>1, <1>6 DEF socket, Own, Card
  <2>2. Own \in Ids(win)' \cup ToSet(asked)' => Own \in Ids(win) \cup ToSet(asked)
    BY <2>1 DEF Ids
  <2> QED BY <1>1, <1>4, <2>2 DEF Inv, Stages, socket
<1> QED BY <1>6, <1>7, <1>8, <1>9 DEF Inv

\* Echo: the user's own message comes back as the next row.
EchoOf(m) ==
  /\ InRoom /\ loaded /\ stored + 1 \in Rows..Len(Author) /\ stored \in Nat
  /\ asked # <<>> /\ Head(asked) = Own /\ asked' = Tail(asked)
  /\ stored' = stored + 1 /\ UNCHANGED <<gone, online, loaded, timers, bounds>> /\ calm' \in BOOLEAN
  /\ m \in Entry /\ m.id = stored + 1 /\ m.cid = Own /\ m.time = 2 * (stored + 1)
  /\ m.id \notin Ids(win) /\ win' \in Seq(Entry)
  /\ lost' = (lost \cup {id \in Ids(win) : id > 0}) \ Ids(win')

\* It takes the place of the entry that was shown at once.
EchoTakes(m, at) ==
  /\ at \in 1..Len(win) /\ win[at].id = Own
  /\ Len(win') = Len(win) /\ win'[at] = m
  /\ \A i \in 1..Len(win) : i # at => win'[i] = win[i]
  /\ unseen' = unseen
  /\ Committed(view', view, FALSE, Shown(view, win), Shown(view, win'))

\* It comes at the end, when that entry is gone.
EchoComes(m) ==
  /\ Own \notin Ids(win) /\ AtEnd(win', win, m)
  /\ unseen' = (IF ~view.auto /\ view.conv = "public" THEN unseen + 1 ELSE unseen)
  /\ Committed(view', view, TRUE, Shown(view, win), Shown(view, win'))

\* One or the other happens.
LEMMA Echoes ==
  ASSUME Inv, Echo
  PROVE  \E m : EchoOf(m) /\ (EchoComes(m) \/ \E at : EchoTakes(m, at))
<1> DEFINE row == Message(stored + 1)
           m == [row EXCEPT !.cid = Own]
           w == AddMessage(win, m, {})
           bumped == Fresh(win, <<m>>, {}) # <<>>
<1>1. /\ InRoom /\ asked # <<>> /\ Head(asked) = Own /\ asked' = Tail(asked)
      /\ stored' = stored + 1 /\ Gets(m) /\ UNCHANGED <<gone, online, loaded, timers, bounds>>
  BY DEF Echo
<1>2. /\ stored \in Nat /\ win \in Seq(Entry) /\ view \in Views /\ loaded
  BY <1>1, Ranges DEF Inv, Types
<1>3. stored < Len(Author)
  <2>1. Own \in ToSet(asked)
    BY <1>1, <1>2, QueueTail DEF Inv
  <2> QED BY <2>1 DEF Inv, Stages
<1>4. /\ stored + 1 \in Rows..Len(Author) /\ stored + 1 \in 1..Len(Author)
      /\ stored + 1 \notin Ids(win)
  BY <1>3, StoredNext
<1>5. row \in Entry /\ row.id = stored + 1 /\ row.time = 2 * (stored + 1)
  BY <1>4, MessageIs
<1> HIDE DEF row
<1>6. m \in Entry /\ m.id = stored + 1 /\ m.cid = Own /\ m.time = 2 * (stored + 1)
  BY <1>5 DEF Entry, Own
<1>7. win' = w /\ view' = Commit(view, bumped, w)
      /\ lost' = (lost \cup {} \cup {id \in Ids(win) : id > 0}) \ Ids(w)
      /\ calm' \in BOOLEAN
      /\ unseen' = IF ~view.auto /\ view.conv = "public" /\ bumped THEN unseen + 1 ELSE unseen
  BY <1>1 DEF Gets, Becomes, KeepsCalm
<1> HIDE DEF m
<1>8. Ids(win) = {win[i].id : i \in 1..Len(win)} /\ Len(win) \in Nat
  BY <1>2, IdsOf
<1>9. CASE Own \in Ids(win)
  <2>1. PICK at \in 1..Len(win) : win[at].id = Own
    BY <1>8, <1>9
  <2>2. \A j \in 1..Len(win) : win[j].id = Own => j = at
    BY <2>1 DEF Inv, Window, WindowOK, Distinct
  <2>3. Fresh(win, <<m>>, {}) = <<>> /\ w = [win EXCEPT ![at] = m]
    <3>1. /\ win \in Seq(Entry) /\ m \in Entry /\ win[at].id = m.cid /\ m.cid # 0
          /\ \A j \in 1..Len(win) : win[j].id = m.cid => j = at
      BY <1>2, <1>6, <2>1, <2>2 DEF Own
    <3> QED BY <2>1, <3>1, EchoReplaces
  <2>4. ~bumped
    BY <2>3
  <2>5. /\ w \in Seq(Entry) /\ Len(w) = Len(win) /\ w[at] = m
        /\ \A i \in 1..Len(win) : i # at => w[i] = win[i]
    BY <1>2, <1>6, <2>3
  <2> HIDE DEF w, bumped
  <2>6. Committed(view', view, bumped, Shown(view, win), Shown(view, w))
    BY <1>2, <1>7, <2>5, Commits
  <2>7. Committed(view', view, FALSE, Shown(view, win), Shown(view, w))
    BY <2>4, <2>6, NeverBumped
  <2>8. EchoTakes(m, at)
    BY <1>7, <2>1, <2>4, <2>5, <2>7 DEF EchoTakes
  <2>9. EchoOf(m)
    BY <1>1, <1>2, <1>4, <1>6, <1>7, <2>5 DEF EchoOf
  <2> QED BY <2>8, <2>9
<1>10. CASE Own \notin Ids(win)
  <2>1. Fresh(win, <<m>>, {}) = <<m>> /\ AtEnd(w, win, m)
    BY <1>2, <1>4, <1>6, <1>10, NewAtEnd
  <2>2. <<m>> # <<>>
    OBVIOUS
  <2>3. bumped
    BY <2>1, <2>2
  <2> HIDE DEF w, bumped
  <2>4. w \in Seq(Entry)
    BY <2>1 DEF AtEnd
  <2>5. Committed(view', view, bumped, Shown(view, win), Shown(view, w))
    BY <1>2, <1>7, <2>4, Commits
  <2>6. Committed(view', view, TRUE, Shown(view, win), Shown(view, w))
    BY <2>3, <2>5, AlwaysBumped
  <2>7. EchoComes(m)
    BY <1>7, <1>10, <2>1, <2>3, <2>6 DEF EchoComes
  <2>8. EchoOf(m)
    BY <1>1, <1>2, <1>4, <1>6, <1>7, <2>4 DEF EchoOf
  <2> QED BY <2>7, <2>8
<1> QED BY <1>9, <1>10

\* What the window is when the echo takes the place of its entry.
LEMMA EchoTakesIds ==
  ASSUME Inv, NEW m, EchoOf(m), NEW at, EchoTakes(m, at)
  PROVE  /\ Reached' = Reached \cup {stored + 1}
         /\ WindowOK(win', stored + 1, Reached') /\ (Sorted(win) => Sorted(win'))
         /\ Ids(win') = (Ids(win) \ {Own}) \cup {stored + 1} /\ Len(win') = Len(win)
         /\ Times(win') \subseteq Times(win) \cup {m.time}
<1>1. /\ stored \in Nat /\ win \in Seq(Entry) /\ WindowOK(win, stored, Reached)
  BY Ranges DEF Inv, Window
<1>2. /\ at \in 1..Len(win) /\ win[at].id = Own /\ Len(win') = Len(win) /\ win'[at] = m
      /\ \A i \in 1..Len(win) : i # at => win'[i] = win[i]
  BY DEF EchoTakes
<1>3. /\ m \in Entry /\ m.id = stored + 1 /\ m.time = 2 * (stored + 1) /\ win' \in Seq(Entry)
      /\ gone' = gone /\ lost' = (lost \cup {id \in Ids(win) : id > 0}) \ Ids(win')
  BY DEF EchoOf
<1>4. Reached \subseteq Reached
  OBVIOUS
<1> Replaces(win', win, m, at, stored + 1)
  BY <1>2, <1>3 DEF Replaces
<1>5. Ids(win') = (Ids(win) \ {Own}) \cup {stored + 1}
  BY <1>1, EchoIds
<1>6. Reached' = Reached \cup Positive(Ids(win'))
  <2> DEFINE none == {}
  <2>1. none \subseteq 1..stored
    OBVIOUS
  <2>2. lost' = (lost \cup none \cup {id \in Ids(win) : id > 0}) \ Ids(win')
    BY <1>3
  <2>3. gone \subseteq gone' /\ gone' \subseteq gone \cup Positive(Ids(win))
    BY <1>3
  <2> HIDE DEF none
  <2>4. Reached' = Reached \cup Positive(Ids(win')) \cup none
    BY <2>1, <2>2, <2>3, ReachedBecomes
  <2> QED BY <2>4 DEF none
<1>7. Reached' = Reached \cup {stored + 1}
  <2>1. Positive(Ids(win)) \subseteq Reached
    BY DEF Reached
  <2>2. Positive(Ids(win')) = Positive(Ids(win)) \cup {stored + 1}
    BY <1>1, <1>5 DEF Positive, Own
  <2> QED BY <1>6, <2>1, <2>2
<1>8. Reached \subseteq Reached'
  BY <1>7
<1>9. WindowOK(win', stored + 1, Reached') /\ (Sorted(win) => Sorted(win'))
  BY <1>1, <1>8, EchoKeeps
<1>10. Times(win') \subseteq Times(win) \cup {m.time}
  BY <1>2 DEF Times
<1> QED BY <1>2, <1>5, <1>7, <1>9, <1>10

\* Echoes keep the invariant.
LEMMA EchoKeepsInv ==
  ASSUME Inv, Echo
  PROVE  Inv'
<1>1. PICK m : EchoOf(m) /\ (EchoComes(m) \/ \E at : EchoTakes(m, at))
  BY Echoes
<1> DEFINE n == stored + 1
<1>2. /\ InRoom /\ loaded /\ n \in Rows..Len(Author) /\ stored \in Nat
      /\ asked # <<>> /\ Head(asked) = Own /\ asked' = Tail(asked)
      /\ stored' = n /\ UNCHANGED <<gone, online, loaded, timers, bounds>> /\ calm' \in BOOLEAN
      /\ m \in Entry /\ m.id = stored + 1 /\ m.time = 2 * (stored + 1) /\ m.id \notin Ids(win)
      /\ lost' = (lost \cup {id \in Ids(win) : id > 0}) \ Ids(win')
  BY <1>1 DEF EchoOf
<1>3. n \in Nat /\ n <= Len(Author) /\ stored <= n /\ Len(Author) \in Nat /\ n \in {stored, stored + 1}
  BY <1>2, Ranges
<1>4. /\ QueueOK(asked', stored) /\ ToSet(asked') \subseteq ToSet(asked) /\ Own \notin ToSet(asked')
  BY <1>2, QueueTail DEF Inv
<1>5. InRoom' /\ {t \in ToSet(asked') : t > 0} \subseteq ToSet(asked)
  BY <1>2, <1>4 DEF InRoom
<1> HIDE DEF n
<1>6. /\ Window' /\ Covered' /\ gone' \subseteq 1..n /\ lost' \subseteq 1..n
      /\ Own \notin Ids(win')
  <2>1. CASE EchoComes(m)
    <3>1. Own \notin Ids(win) /\ AtEnd(win', win, m)
      BY <2>1 DEF EchoComes
    <3>2. /\ Window' /\ Covered' /\ gone' \subseteq 1..n /\ lost' \subseteq 1..n
          /\ Ids(win') \subseteq Ids(win) \cup {m.id}
      BY <1>2, <1>3, <1>5, <3>1, Appends DEF n
    <3>3. m.id # Own
      BY <1>2 DEF Own
    <3> QED BY <3>1, <3>2, <3>3
  <2>2. CASE \E at : EchoTakes(m, at)
    <3>1. PICK at : EchoTakes(m, at)
      BY <2>2
    <3>2. /\ Reached' = Reached \cup {n}
          /\ WindowOK(win', n, Reached')
          /\ Ids(win') = (Ids(win) \ {Own}) \cup {n} /\ Len(win') = Len(win)
          /\ Times(win') \subseteq Times(win) \cup {m.time}
      BY <1>1, <3>1, EchoTakesIds DEF n
    <3>3. /\ Ids(win) \subseteq Own..stored /\ Reached \subseteq 1..stored
          /\ \A t \in Marks(asked, win) : t \in 1..(2 * stored + 1)
      BY Ranges
    <3>4. Convex(Reached) /\ (stored > 0 => stored \in Reached)
          /\ \A t \in Marks(asked, win) : Borders(t, stored, Reached)
      BY <1>2 DEF Inv, Covered
    <3>5. Window'
      BY <1>2, <3>2 DEF Inv, Window
    <3>6. Convex(Reached')
      <4>1. {n} \subseteq Int /\ Reached \subseteq Int /\ Convex({n})
        BY <1>2, <1>3, <3>3 DEF Convex
      <4>2. Reached = {} \/ \E a \in Reached, b \in {n} : b = a + 1
        <5>1. stored = 0 => Reached = {}
          BY <3>3
        <5> QED BY <1>2, <3>4, <5>1 DEF n
      <4>3. Convex(Reached \cup {n})
        BY <3>4, <4>1, <4>2, ConvexUnion
      <4> QED BY <3>2, <4>3
    <3>7. ASSUME NEW t \in Marks(asked', win')
          PROVE  Borders(t, n, Reached')
      <4>1. t \in Marks(asked, win) \/ t = m.time
        BY <1>4, <3>2 DEF Marks
      <4>2. CASE t \in Marks(asked, win)
        <5>1. Borders(t, stored, Reached) /\ t \in 1..(2 * stored + 1)
          BY <3>3, <3>4, <4>2
        <5>2. Reached \subseteq Reached' /\ stored + 1 \in Reached'
          BY <3>2 DEF n
        <5> QED BY <1>2, <5>1, <5>2, BordersGrow DEF n
      <4>3. CASE t = m.time
        BY <1>2, <1>3, <3>2, <4>3 DEF Borders, n
      <4> QED BY <4>1, <4>2, <4>3
    <3>8. Covered'
      BY <1>2, <3>2, <3>6, <3>7 DEF Covered
    <3>9. gone' \subseteq 1..n /\ lost' \subseteq 1..n
      <4>1. gone \subseteq 1..stored /\ lost \subseteq 1..stored
        BY DEF Inv, Types
      <4>2. \A r \in 1..stored : r \in 1..n
        BY <1>2, <1>3
      <4>3. \A r \in Own..stored : r > 0 => r \in 1..stored
        BY <1>2 DEF Own
      <4> QED BY <1>2, <3>3, <4>1, <4>2, <4>3
    <3>10. Own \notin Ids(win')
      BY <1>2, <1>3, <3>2 DEF Own
    <3> QED BY <3>5, <3>8, <3>9, <3>10
  <2> QED BY <1>1, <2>1, <2>2
<1>7. Types'
  <2>1. unseen' \in Nat
    <3>1. unseen \in Nat /\ unseen' \in {unseen, unseen + 1}
      BY <1>1 DEF Inv, Types, EchoComes, EchoTakes
    <3> QED BY <3>1
  <2>2. \E b : Committed(view', view, b, Shown(view, win), Shown(view, win'))
    BY <1>1 DEF EchoComes, EchoTakes
  <2> QED BY <1>2, <1>6, <2>1, <2>2, TypesAfter DEF Inv, Types, bounds
<1>8. QueueOK(asked', stored')
  BY <1>2, <1>3, <1>4, QueueLater
<1>9. Stages'
  <2>1. Own \notin Ids(win)' \cup ToSet(asked)'
    BY <1>4, <1>6 DEF Ids
  <2>2. online
    BY <1>2 DEF InRoom
  <2> QED BY <1>2, <2>1, <2>2 DEF Stages
<1> QED BY <1>6, <1>7, <1>8, <1>9 DEF Inv

(***************************************************************************)
(* Entries that go                                                         *)
(***************************************************************************)

\* What StreamDone and Deleted have in common.
Removes(id) ==
  /\ InRoom /\ loaded /\ id \in Ids(win) /\ id \in Int
  /\ UNCHANGED <<stored, socket, timers, bounds, unseen>> /\ calm' \in BOOLEAN
  /\ gone' = gone \cup Positive({id})
  /\ lost' = (lost \cup {x \in Ids(win) : x > 0}) \ Ids(win')
  /\ win' = DeleteMessage(win, id) /\ win' \in Seq(Entry)
  /\ Committed(view', view, FALSE, Shown(view, win), Shown(view, win'))

\* Both are removals.
LEMMA DeletedRemoves ==
  ASSUME Inv, NEW id, Deleted(id) \/ (id = Card /\ StreamDone)
  PROVE  Removes(id) /\ KeepsCalm
<1> DEFINE w == DeleteMessage(win, id)
           never == FALSE
<1>1. win \in Seq(Entry) /\ view \in Views /\ Ids(win) \subseteq Own..stored
  BY Ranges DEF Inv, Types
<1>2. w \in Seq(Entry)
  BY <1>1, DeleteEnds
<1>3. /\ InRoom /\ id \in Ids(win) /\ KeepsCalm /\ win' = w
      /\ view' = Commit(view, never, w)
      /\ lost' = (lost \cup {} \cup {x \in Ids(win) : x > 0}) \ Ids(w)
  BY DEF Deleted, StreamDone, Becomes
<1>4. UNCHANGED <<stored, socket, timers, bounds, unseen>>
  BY DEF Deleted, StreamDone, room
<1>5. gone' = gone \cup Positive({id})
  <2>1. CASE Deleted(id)
    <3>1. id > 0 /\ gone' = gone \cup {id}
      BY <2>1 DEF Deleted
    <3>2. Positive({id}) = {id}
      BY <3>1 DEF Positive
    <3> QED BY <3>1, <3>2
  <2>2. CASE id = Card /\ StreamDone
    <3>1. gone' = gone
      BY <2>2 DEF StreamDone, room
    <3>2. Positive({id}) = {}
      BY <2>2 DEF Positive, Card
    <3> QED BY <3>1, <3>2
  <2> QED BY <2>1, <2>2
<1>6. id \in Int
  <2>1. \A x \in Own..stored : x \in Int
    BY DEF Own
  <2> QED BY <1>1, <1>3, <2>1
<1> HIDE DEF w, never
<1>7. Committed(view', view, never, Shown(view, win), Shown(view, w))
  BY <1>1, <1>2, <1>3, Commits
<1>8. Committed(view', view, FALSE, Shown(view, win), Shown(view, w))
  BY <1>7 DEF never
<1>9. calm' \in BOOLEAN /\ loaded
  BY <1>3, Ranges DEF KeepsCalm
<1> QED BY <1>2, <1>3, <1>4, <1>5, <1>6, <1>8, <1>9 DEF Removes, w

\* A removal brings no new times.
LEMMA WithinTimes ==
  ASSUME NEW w, NEW d, Within(d, w)
  PROVE  Times(d) \subseteq Times(w)
BY DEF Within, Times

\* Removals keep the invariant, and nothing the page has had gets lost.
LEMMA RemovesKeeps ==
  ASSUME Inv, NEW id, Removes(id)
  PROVE  Inv' /\ Reached' = Reached /\ (Sorted(win) => Sorted(win')) /\ Times(win') \subseteq Times(win)
<1>1. /\ stored \in Nat /\ win \in Seq(Entry) /\ WindowOK(win, stored, Reached)
      /\ Ids(win) \subseteq Own..stored /\ stored \in Rows..Len(Author)
      /\ Len(win) <= HistoryCap
  BY Ranges DEF Inv, Window, Types
<1>2. /\ InRoom /\ loaded /\ id \in Ids(win) /\ id \in Int
      /\ UNCHANGED <<stored, socket, timers, bounds, unseen>> /\ calm' \in BOOLEAN
      /\ gone' = gone \cup Positive({id})
      /\ lost' = (lost \cup {x \in Ids(win) : x > 0}) \ Ids(win')
      /\ win' = DeleteMessage(win, id) /\ win' \in Seq(Entry)
      /\ Committed(view', view, FALSE, Shown(view, win), Shown(view, win'))
  BY DEF Removes
<1>3. /\ Len(win') <= Len(win) /\ Within(win', win) /\ Ids(win') = Ids(win) \ {id}
  BY <1>1, <1>2, DeleteEnds
<1>4. gone' \subseteq 1..stored /\ lost' \subseteq 1..stored
  <2>1. gone \subseteq 1..stored /\ lost \subseteq 1..stored
    BY DEF Inv, Types
  <2>2. \A r \in Own..stored : r > 0 => r \in 1..stored
    BY <1>1 DEF Own
  <2> QED BY <1>1, <1>2, <2>1, <2>2 DEF Positive
<1>5. Reached' = Reached
  <2> DEFINE none == {}
  <2>1. none \subseteq 1..stored
    OBVIOUS
  <2>2. lost' = (lost \cup none \cup {x \in Ids(win) : x > 0}) \ Ids(win')
    BY <1>2
  <2>3. gone \subseteq gone' /\ gone' \subseteq gone \cup Positive(Ids(win))
    BY <1>2 DEF Positive
  <2> HIDE DEF none
  <2>4. Reached' = Reached \cup Positive(Ids(win')) \cup none
    BY <2>1, <2>2, <2>3, ReachedBecomes
  <2>5. Positive(Ids(win')) \subseteq Reached
    BY <1>3 DEF Positive, Reached
  <2> QED BY <2>4, <2>5 DEF none
<1>6. Reached \subseteq Reached' /\ stored <= stored
  BY <1>1, <1>5
<1>7. WindowOK(win', stored, Reached') /\ (Sorted(win) => Sorted(win'))
  BY <1>1, <1>2, <1>3, <1>6, WithinKeeps
<1>8. Window'
  <2>1. Len(win') <= HistoryCap
    <3>1. Len(win') \in Nat /\ Len(win) \in Nat /\ HistoryCap \in Nat
      BY <1>1, <1>2, MessageWindowAssumption
    <3> QED BY <1>1, <1>3, <3>1
  <2> QED BY <1>2, <1>7, <2>1 DEF Window
<1>9. Times(win') \subseteq Times(win)
  BY <1>3, WithinTimes
<1>10. Covered'
  <2>1. InRoom' /\ asked' = asked /\ stored' = stored
    BY <1>2 DEF InRoom, socket
  <2>2. Marks(asked', win') \subseteq Marks(asked, win)
    BY <1>9, <2>1 DEF Marks
  <2> QED BY <1>2, <1>5, <2>1, <2>2 DEF Inv, Covered
<1>11. Types'
  BY <1>1, <1>2, <1>4, TypesAfter DEF Inv, Types, socket, bounds
<1>12. QueueOK(asked', stored')
  BY <1>2 DEF Inv, socket
<1>13. Stages'
  <2>1. Own \in Ids(win)' \cup ToSet(asked)' => Own \in Ids(win) \cup ToSet(asked)
    <3>1. Ids(win)' = Ids(win')
      BY DEF Ids
    <3> QED BY <1>2, <1>3, <3>1 DEF socket
  <2> QED BY <1>2, <2>1 DEF Inv, Stages, socket
<1> QED BY <1>5, <1>7, <1>8, <1>9, <1>10, <1>11, <1>12, <1>13 DEF Inv

(***************************************************************************)
(* The first history                                                       *)
(***************************************************************************)

\* The first rows: of the preview or of the join.
FirstComes ==
  /\ ~loaded /\ loaded' = TRUE /\ win = <<>> /\ gone = {} /\ lost = {} /\ cards = 0
  /\ UNCHANGED <<room, online, lost, timers, bounds, unseen, calm>>
  /\ asked' = <<>>
  /\ IsPage(win') /\ Ids(win') \subseteq 1..stored /\ Convex(Ids(win'))
  /\ Len(win') <= MessageCap /\ (stored > 0 => stored \in Ids(win'))
  /\ \E b : Committed(view', view, b, Shown(view, win), Shown(view, win'))

\* A page has no holes and reaches up to its last row.
LEMMA SpanConvex ==
  ASSUME NEW rows, NEW n \in Nat, NEW k \in Nat, Span(rows, n, k)
  PROVE  /\ IsPage(rows) /\ Convex(Ids(rows)) /\ Ids(rows) \subseteq 1..k
         /\ (k > 0 => k \in Ids(rows))
<1>1. /\ \A r \in Int : r \in Ids(rows) <=> 1 <= r /\ k - n + 1 <= r /\ r <= k
      /\ Ids(rows) \subseteq 1..k
  BY DEF Span
<1>2. ASSUME NEW a \in Ids(rows), NEW b \in Ids(rows), NEW r \in Int, a <= r, r <= b
      PROVE  r \in Ids(rows)
  <2>1. a \in Int /\ b \in Int
    BY <1>1
  <2>2. 1 <= a /\ k - n + 1 <= a /\ b <= k
    BY <1>1, <2>1
  <2>3. 1 <= r /\ k - n + 1 <= r /\ r <= k
    BY <1>2, <2>1, <2>2
  <2> QED BY <1>1, <2>3
<1> QED BY <1>1, <1>2 DEF Span, Convex

\* The page sizes are positive.
LEMMA JoinPages == JoinPage \in Nat \ {0} /\ JoinPage \in Nat /\ Page \in Nat \ {0} /\ Page \in Nat
                   /\ JoinPage <= HistoryCap /\ Page <= HistoryCap
BY TranscriptAssumption, MessageWindowAssumption

\* The last rows of the room.
LEMMA LatestAll ==
  ASSUME Inv, NEW n \in Nat \ {0}
  PROVE  Span(Latest(n, 2 * stored + 1), n, stored)
<1>1. stored \in Nat /\ stored <= Len(Author) /\ 2 * stored + 1 \in 1..(2 * stored + 1)
  BY Ranges
<1>2. PICK k \in 0..stored : /\ 2 * stored + 1 = 2 * k + 1 \/ 2 * stored + 1 = 2 * k + 2
                             /\ Span(Latest(n, 2 * stored + 1), n, k)
  BY <1>1, LatestIs
<1>3. k = stored
  BY <1>1, <1>2
<1> QED BY <1>2, <1>3

\* SetHistory on the empty window.
LEMMA FirstIsHistory ==
  ASSUME Inv, NEW rows, rows = Latest(JoinPage, 2 * stored + 1), ~loaded, NEW b,
         loaded' = TRUE, Becomes(SetHistory(win, rows, {}), view, b, {}),
         UNCHANGED <<room, online, timers, bounds, unseen, calm>>, asked' = <<>>
  PROVE  FirstComes
<1> DEFINE w == SetHistory(win, rows, {})
<1>1. win = <<>> /\ gone = {} /\ lost = {} /\ cards = 0 /\ stored \in Nat /\ view \in Views
  BY Ranges DEF Inv, Stages, Types
<1>2. Span(rows, JoinPage, stored)
  BY JoinPages, LatestAll
<1>3. /\ IsPage(rows) /\ Convex(Ids(rows)) /\ Ids(rows) \subseteq 1..stored
      /\ (stored > 0 => stored \in Ids(rows))
  BY <1>1, <1>2, JoinPages, SpanConvex
<1>4. w = SetHistory(<<>>, rows, {})
  BY <1>1
<1>5. win' = w /\ view' = Commit(view, b, w)
      /\ lost' = (lost \cup {} \cup {id \in Ids(win) : id > 0}) \ Ids(w)
  BY DEF Becomes
<1> HIDE DEF w
<1>6. /\ IsPage(w) /\ Ids(w) \subseteq Ids(rows) /\ Convex(Ids(w)) /\ Len(w) <= MessageCap
      /\ \A x \in Ids(rows) : (\A y \in Ids(rows) : y <= x) => x \in Ids(w)
  BY <1>3, <1>4, FirstHistory
<1>7. stored > 0 => stored \in Ids(w)
  <2>1. \A y \in Ids(rows) : y <= stored
    BY <1>1, <1>3
  <2> QED BY <1>3, <1>6, <2>1
<1>8. lost' = lost
  <2>1. Ids(<<>>) = {}
    BY DEF Ids
  <2> QED BY <1>1, <1>5, <2>1
<1>9. w \in Seq(Entry)
  BY <1>6 DEF IsPage
<1>10. Committed(view', view, b, Shown(view, win), Shown(view, w))
  BY <1>1, <1>5, <1>9, Commits
<1> QED BY <1>1, <1>3, <1>5, <1>6, <1>7, <1>8, <1>10 DEF FirstComes

\* The preview is a first history.
LEMMA PreviewIsFirst ==
  ASSUME Inv, LoadPublicPreview
  PROVE  FirstComes /\ UNCHANGED asked
<1> DEFINE rows == Latest(JoinPage, 2 * stored + 1)
           b == rows # <<>>
<1>1. /\ ~online /\ ~loaded /\ loaded' = TRUE
      /\ Becomes(SetHistory(win, rows, {}), view, b, {})
      /\ UNCHANGED <<room, online, asked, timers, bounds, calm, unseen>>
  BY DEF LoadPublicPreview
<1>2. asked' = <<>>
  BY <1>1 DEF Inv, Stages
<1>3. rows = Latest(JoinPage, 2 * stored + 1)
  OBVIOUS
<1> HIDE DEF rows, b
<1> QED BY <1>1, <1>2, <1>3, FirstIsHistory

\* So is the history of the first join, without a preview.
LEMMA HistoryIsFirst ==
  ASSUME Inv, HandleHistory, ~loaded
  PROVE  FirstComes
<1> DEFINE rows == Latest(JoinPage, 2 * stored + 1)
           b == Fresh(win, rows, {}) # <<>>
<1>1. asked = <<Join>> /\ Head(asked) = Join
  BY DEF HandleHistory, Inv, Stages
<1>2. /\ loaded' = TRUE /\ asked' = Tail(asked)
      /\ Becomes(SetHistory(win, rows, {}), view, b, {})
      /\ UNCHANGED <<room, online, timers, bounds, calm, unseen>>
  BY <1>1 DEF HandleHistory
<1>3. asked' = <<>>
  BY <1>1, <1>2
<1>4. rows = Latest(JoinPage, 2 * stored + 1)
  OBVIOUS
<1> HIDE DEF rows, b
<1> QED BY <1>2, <1>3, <1>4, FirstIsHistory

\* A first history keeps the invariant.
LEMMA FirstKeeps ==
  ASSUME Inv, FirstComes
  PROVE  Inv' /\ Sorted(win') /\ Reached' = Ids(win')
<1>1. /\ ~loaded /\ loaded' = TRUE /\ win = <<>> /\ gone = {} /\ lost = {} /\ cards = 0
      /\ UNCHANGED <<room, online, lost, timers, bounds, unseen, calm>>
      /\ asked' = <<>>
      /\ IsPage(win') /\ Ids(win') \subseteq 1..stored /\ Convex(Ids(win'))
      /\ Len(win') <= MessageCap /\ (stored > 0 => stored \in Ids(win'))
      /\ \E b : Committed(view', view, b, Shown(view, win), Shown(view, win'))
  BY DEF FirstComes
<1>2. stored \in Nat /\ stored \in Rows..Len(Author)
  BY Ranges DEF Inv, Types
<1>3. gone' = {} /\ lost' = {} /\ stored' = stored /\ gone' \subseteq 1..stored' /\ lost' \subseteq 1..stored'
  BY <1>1 DEF room
<1>4. Reached' = Ids(win')
  <2>1. Reached' = Positive(Ids(win')) \cup gone' \cup lost'
    BY DEF Reached, Positive, Ids
  <2>2. Positive(Ids(win')) = Ids(win')
    BY <1>1, <1>2 DEF Positive
  <2> QED BY <1>3, <2>1, <2>2
<1>5. WindowOK(win', stored, Reached') /\ Sorted(win')
  BY <1>1, <1>2, PageOK
<1>6. Window'
  <2>1. win' \in Seq(Entry)
    BY <1>1 DEF IsPage
  <2> QED BY <1>1, <1>3, <1>5, <2>1, TranscriptAssumption, MessageWindowAssumption DEF Window
<1>7. Types'
  <2>1. TRUE \in BOOLEAN
    OBVIOUS
  <2> QED BY <1>1, <1>2, <1>3, <2>1, TypesAfter DEF Inv, Types, bounds
<1>8. QueueOK(asked', stored')
  BY <1>1 DEF QueueOK
<1>9. ToSet(asked') = {} /\ Ids(win') = Ids(win)'
  BY <1>1 DEF ToSet, Ids
<1>10. Stages'
  <2>1. Own \notin Ids(win') \cup ToSet(asked')
    BY <1>1, <1>2, <1>9 DEF Own
  <2>2. Own \notin Ids(win)' \cup ToSet(asked)'
    BY <1>9, <2>1
  <2> QED BY <1>1, <2>2 DEF Stages
<1>11. ASSUME NEW t \in Marks(asked', win')
       PROVE  Borders(t, stored, Reached')
  <2>1. t \in Times(win')
    BY <1>9 DEF Marks
  <2>2. PICK i \in 1..Len(win') : t = win'[i].time
    BY <2>1 DEF Times
  <2>3. t = 2 * win'[i].id /\ win' \in Seq(Entry)
    BY <1>1, <2>2 DEF IsPage
  <2>4. win'[i].id \in Ids(win') /\ win'[i].id \in 1..stored
    <3>1. Ids(win') = {win'[j].id : j \in 1..Len(win')}
      BY <2>3, IdsOf
    <3> QED BY <1>1, <3>1
  <2> QED BY <1>2, <1>4, <2>3, <2>4 DEF Borders
<1>12. Covered'
  BY <1>1, <1>3, <1>4, <1>11 DEF Covered
<1> QED BY <1>4, <1>5, <1>6, <1>7, <1>8, <1>10, <1>12 DEF Inv

(***************************************************************************)
(* Older messages                                                          *)
(***************************************************************************)

\* What "no more history" leaves.
LEMMA NoMoreIs ==
  ASSUME NEW v \in Views
  PROVE  LET n == NoMore(v) IN
         /\ n \in Views /\ ~n.more /\ ~n.restore /\ ~n.loading /\ ~n.error /\ n.first = None
         /\ n.conv = v.conv /\ n.auto = v.auto /\ n.badge = v.badge /\ n.seen = v.seen
BY DEF NoMore, Views

\* HandleHistory, when the window has had its first history: the k rows that are
\* older than what was asked for, as many as a page takes, the new ones in front.
PageComes(request, size, k, rows, fr, v, skipped) ==
  /\ online /\ loaded /\ asked # <<>> /\ request = Head(asked) /\ asked' = Tail(asked)
  /\ UNCHANGED <<room, online, loaded, timers, bounds, unseen>> /\ calm' \in BOOLEAN
  /\ (\/ request = Join /\ k = stored /\ size = JoinPage /\ ~calm'
         /\ skipped = {r \in 1..stored : r < stored + 1 - JoinPage}
      \/ request \in 1..(2 * stored + 1) /\ (request = 2 * k + 1 \/ request = 2 * k + 2)
         /\ size = Page /\ calm' = calm /\ skipped = {})
  /\ k \in 0..stored /\ Span(rows, size, k)
  /\ IsPage(fr) /\ Ids(fr) = Ids(rows) \ Ids(win) /\ InFront(win', fr, win)
  /\ (\/ v = NoMore(view) /\ (fr = <<>> \/ Len(rows) < Page)
      \/ v = view /\ fr # <<>> /\ ~(Len(rows) < Page))
  /\ v \in Views /\ lost' = (lost \cup skipped \cup {id \in Ids(win) : id > 0}) \ Ids(win')
  /\ (\/ fr # <<>> /\ Committed(view', v, TRUE, Shown(v, win), Shown(v, win'))
      \/ fr = <<>> /\ Committed(view', v, FALSE, Shown(v, win), Shown(v, win')))

\* A history frame after the first is taken for a page.
LEMMA HistoryIsPage ==
  ASSUME Inv, HandleHistory, loaded
  PROVE  \E request, size, k, rows, fr, v, skipped :
           PageComes(request, size, k, rows, fr, v, skipped)
<1> DEFINE request == Head(asked)
           isJoin == request = Join
           rows == IF isJoin THEN Latest(JoinPage, 2 * stored + 1) ELSE Latest(Page, request)
           fr == Fresh(win, rows, {})
           skipped == {r \in 1..stored : isJoin /\ r < stored + 1 - JoinPage}
           last == LastPage(rows, fr)
           v == IF last THEN NoMore(view) ELSE view
           w == PrependHistory(win, rows, {})
           b == fr # <<>>
           size == IF isJoin THEN JoinPage ELSE Page
<1>1. /\ online /\ asked # <<>> /\ request >= 0 /\ asked' = Tail(asked)
      /\ UNCHANGED <<room, online, timers, bounds, unseen>> /\ loaded' = TRUE
      /\ Becomes(w, v, b, skipped) /\ calm' = (calm /\ ~isJoin)
  BY DEF HandleHistory
<1>2. win \in Seq(Entry) /\ stored \in Nat /\ stored <= Len(Author) /\ view \in Views /\ calm \in BOOLEAN
  BY Ranges DEF Inv, Types
<1>3. loaded' = loaded
  BY <1>1 DEF Inv, Types
<1>4. request \in Own..(2 * stored + 1)
  BY <1>1, <1>2, QueueTail DEF Inv
<1>5. ~isJoin => request \in 1..(2 * stored + 1)
  BY <1>1, <1>2, <1>4 DEF Own, Join
<1>6. PICK k \in 0..stored :
        /\ Span(rows, size, k)
        /\ (isJoin => k = stored)
        /\ (~isJoin => request = 2 * k + 1 \/ request = 2 * k + 2)
  <2>1. CASE isJoin
    <3>1. Span(rows, size, stored)
      BY <2>1, JoinPages, LatestAll
    <3> QED BY <1>2, <2>1, <3>1
  <2>2. CASE ~isJoin
    <3>1. PICK k \in 0..stored : /\ request = 2 * k + 1 \/ request = 2 * k + 2
                                 /\ Span(Latest(Page, request), Page, k)
      BY <1>2, <1>5, <2>2, JoinPages, LatestIs
    <3> QED BY <2>2, <3>1
  <2> QED BY <2>1, <2>2
<1>7. size \in Nat /\ size <= HistoryCap
  BY JoinPages
<1> HIDE DEF request, rows, size
<1>8. IsPage(rows) /\ Len(rows) <= HistoryCap
  <2>1. IsPage(rows) /\ Len(rows) <= size
    BY <1>6 DEF Span
  <2>2. rows \in Seq(Entry) /\ HistoryCap \in Nat
    BY <2>1, MessageWindowAssumption DEF IsPage
  <2> QED BY <1>7, <2>1, <2>2
<1>9. /\ IsPage(fr) /\ Ids(fr) = Ids(rows) \ Ids(win) /\ InFront(w, fr, win)
  BY <1>2, <1>8, PageInFront
<1>10. last <=> (fr = <<>> \/ Len(rows) < Page)
  BY DEF LastPage
<1> HIDE DEF fr, last
<1>11. v \in Views /\ (last => v = NoMore(view)) /\ (~last => v = view)
  BY <1>2, NoMoreIs
<1>12. win' = w /\ view' = Commit(v, b, w)
       /\ lost' = (lost \cup skipped \cup {id \in Ids(win) : id > 0}) \ Ids(w)
  BY <1>1 DEF Becomes
<1>13. fr # <<>> <=> b
  OBVIOUS
<1> HIDE DEF v, w, b
<1>14. w \in Seq(Entry)
  BY <1>9 DEF InFront
<1>15. Committed(view', v, b, Shown(v, win), Shown(v, w))
  BY <1>2, <1>11, <1>12, <1>14, Commits
<1>16. \/ fr # <<>> /\ Committed(view', v, TRUE, Shown(v, win), Shown(v, w))
       \/ fr = <<>> /\ Committed(view', v, FALSE, Shown(v, win), Shown(v, w))
  <2>1. CASE b
    BY <1>13, <1>15, <2>1, AlwaysBumped
  <2>2. CASE ~b
    BY <1>13, <1>15, <2>2, NeverBumped
  <2> QED BY <2>1, <2>2
<1>17. \/ request = Join /\ k = stored /\ size = JoinPage /\ ~calm'
          /\ skipped = {r \in 1..stored : r < stored + 1 - JoinPage}
       \/ request \in 1..(2 * stored + 1) /\ (request = 2 * k + 1 \/ request = 2 * k + 2)
          /\ size = Page /\ calm' = calm /\ skipped = {}
  BY <1>1, <1>2, <1>5, <1>6 DEF size
<1>18. \/ v = NoMore(view) /\ (fr = <<>> \/ Len(rows) < Page)
       \/ v = view /\ fr # <<>> /\ ~(Len(rows) < Page)
  BY <1>10, <1>11
<1>19. request = Head(asked) /\ calm' \in BOOLEAN
  BY <1>1, <1>2 DEF request
<1>20. PageComes(request, size, k, rows, fr, v, skipped)
  BY <1>1, <1>3, <1>6, <1>9, <1>11, <1>12, <1>16, <1>17, <1>18, <1>19 DEF PageComes
<1> QED BY <1>20

\* No times but the old ones and those of the new rows.
LEMMA InFrontTimes ==
  ASSUME NEW w \in Seq(Entry), NEW fr, IsPage(fr), NEW d, InFront(d, fr, w),
         NEW t \in Times(d)
  PROVE  t \in Times(w) \/ \E r \in Ids(fr) : t = 2 * r
<1> DEFINE f == Len(fr)
<1>1. /\ d \in Seq(Entry) /\ Len(d) \in Nat /\ f <= Len(d) /\ Len(d) <= f + Len(w)
      /\ \A i \in 1..f : d[i] = fr[i]
      /\ \A i \in 1..(Len(d) - f) : d[f + i] = w[i]
      /\ fr \in Seq(Entry) /\ f \in Nat /\ Len(w) \in Nat
  <2>1. d \in Seq(Entry) /\ fr \in Seq(Entry)
    BY DEF InFront, IsPage
  <2>2. Len(d) \in Nat /\ f \in Nat /\ Len(w) \in Nat
    BY <2>1
  <2> QED BY <2>1, <2>2 DEF InFront
<1>2. Ids(fr) = {fr[i].id : i \in 1..f}
  BY <1>1, IdsOf
<1>3. \A i \in 1..f : fr[i].time = 2 * fr[i].id
  BY DEF IsPage
<1> HIDE DEF f
<1>4. PICK i \in 1..Len(d) : t = d[i].time
  BY DEF Times
<1>5. CASE i <= f
  <2>1. i \in 1..f
    BY <1>1, <1>5
  <2>2. t = 2 * fr[i].id /\ fr[i].id \in Ids(fr)
    BY <1>1, <1>2, <1>3, <1>4, <2>1
  <2> QED BY <2>2
<1>6. CASE i > f
  <2>1. i - f \in 1..(Len(d) - f) /\ i - f \in 1..Len(w) /\ f + (i - f) = i
    BY <1>1, <1>6
  <2>2. d[i] = w[i - f]
    BY <1>1, <2>1
  <2> QED BY <1>4, <2>1, <2>2 DEF Times
<1> QED BY <1>1, <1>5, <1>6

\* No ids but the old ones and those of the new rows.
LEMMA InFrontIds ==
  ASSUME NEW n, NEW rows, NEW w, WindowOK(w, n, rows), NEW fr, IsPage(fr), NEW d, InFront(d, fr, w)
  PROVE  Ids(fr) \subseteq Ids(d) /\ Ids(d) \subseteq Ids(fr) \cup Ids(w)
<1> DEFINE f == Len(fr)
<1>1. w \in Seq(Entry) /\ d \in Seq(Entry) /\ fr \in Seq(Entry)
  BY DEF InFront, IsPage, WindowOK
<1>2. Len(w) \in Nat /\ Len(d) \in Nat /\ f \in Nat
  BY <1>1
<1>3. /\ f <= Len(d) /\ Len(d) <= f + Len(w) /\ \A i \in 1..f : d[i] = fr[i]
      /\ \A i \in 1..(Len(d) - f) : d[f + i] = w[i]
  BY DEF InFront
<1>4. Ids(w) = {w[i].id : i \in 1..Len(w)}
  BY <1>1, IdsOf
<1>5. Ids(d) = {d[i].id : i \in 1..Len(d)}
  BY <1>1, IdsOf
<1>6. Ids(fr) = {fr[i].id : i \in 1..f}
  BY <1>1, IdsOf
<1> HIDE DEF f
<1>7. ASSUME NEW i \in 1..Len(d)
      PROVE  d[i].id \in Ids(fr) \cup Ids(w)
  <2>1. CASE i <= f
    <3>1. i \in 1..f
      BY <1>2, <2>1
    <3> QED BY <1>3, <1>6, <3>1
  <2>2. CASE i > f
    <3>1. i - f \in 1..(Len(d) - f) /\ i - f \in 1..Len(w) /\ f + (i - f) = i
      BY <1>2, <1>3, <2>2
    <3>2. d[i] = w[i - f]
      BY <1>3, <3>1
    <3> QED BY <1>4, <3>1, <3>2
  <2> QED BY <1>2, <2>1, <2>2
<1>8. \A i \in 1..f : i \in 1..Len(d)
  BY <1>2, <1>3
<1> QED BY <1>3, <1>5, <1>6, <1>7, <1>8

\* What a page adds to the rows that have been reached.
LEMMA PageReaches ==
  ASSUME Inv, NEW request, NEW size, NEW k, NEW rows, NEW fr, NEW v, NEW skipped,
         PageComes(request, size, k, rows, fr, v, skipped)
  PROVE  /\ Reached' = Reached \cup Ids(rows) \cup skipped
         /\ Ids(win') \subseteq Ids(fr) \cup Ids(win) /\ Ids(fr) \subseteq Ids(win')
         /\ Ids(rows) \subseteq 1..stored /\ skipped \subseteq 1..stored
<1>1. stored \in Nat /\ WindowOK(win, stored, Reached)
  BY Ranges DEF Inv, Window
<1>2. /\ IsPage(fr) /\ Ids(fr) = Ids(rows) \ Ids(win) /\ InFront(win', fr, win)
      /\ skipped \subseteq 1..stored
      /\ lost' = (lost \cup skipped \cup {id \in Ids(win) : id > 0}) \ Ids(win')
      /\ UNCHANGED room /\ k \in 0..stored /\ Span(rows, size, k)
  BY DEF PageComes
<1>3. Ids(win') \subseteq Ids(fr) \cup Ids(win) /\ Ids(fr) \subseteq Ids(win')
  BY <1>1, <1>2, InFrontIds
<1>4. Ids(rows) \subseteq 1..stored
  <2>1. Ids(rows) \subseteq 1..k
    BY <1>2 DEF Span
  <2>2. \A r \in 1..k : r \in 1..stored
    BY <1>1, <1>2
  <2> QED BY <2>1, <2>2
<1>5. Reached' = Reached \cup Positive(Ids(win')) \cup skipped
  <2>1. gone \subseteq gone' /\ gone' \subseteq gone \cup Positive(Ids(win))
    BY <1>2 DEF room
  <2> QED BY <1>2, <2>1, ReachedBecomes
<1>6. Positive(Ids(win)) \subseteq Reached
  BY DEF Reached
<1>7. \A r \in Ids(rows) : r > 0
  BY <1>1, <1>4
<1>8. Reached \cup Positive(Ids(win')) = Reached \cup Ids(rows)
  BY <1>2, <1>3, <1>6, <1>7 DEF Positive
<1> QED BY <1>2, <1>3, <1>4, <1>5, <1>8

\* Pages keep the invariant.
LEMMA PageKeeps ==
  ASSUME Inv, NEW request, NEW size, NEW k, NEW rows, NEW fr, NEW v, NEW skipped,
         PageComes(request, size, k, rows, fr, v, skipped)
  PROVE  Inv'
<1>1. /\ Reached' = Reached \cup Ids(rows) \cup skipped
      /\ Ids(win') \subseteq Ids(fr) \cup Ids(win)
      /\ Ids(rows) \subseteq 1..stored /\ skipped \subseteq 1..stored
  BY PageReaches
<1>2. /\ stored \in Nat /\ win \in Seq(Entry) /\ Ids(win) \subseteq Own..stored
      /\ Reached \subseteq 1..stored /\ \A t \in Marks(asked, win) : t \in 1..(2 * stored + 1)
      /\ WindowOK(win, stored, Reached) /\ Len(win) <= HistoryCap /\ stored \in Rows..Len(Author)
  BY Ranges DEF Inv, Window, Types
<1>3. /\ online /\ loaded /\ asked # <<>> /\ request = Head(asked) /\ asked' = Tail(asked)
      /\ UNCHANGED <<room, online, loaded, timers, bounds, unseen>> /\ calm' \in BOOLEAN
      /\ k \in 0..stored /\ Span(rows, size, k)
      /\ IsPage(fr) /\ Ids(fr) = Ids(rows) \ Ids(win) /\ InFront(win', fr, win)
      /\ v \in Views /\ lost' = (lost \cup skipped \cup {id \in Ids(win) : id > 0}) \ Ids(win')
  BY DEF PageComes
<1>4. /\ QueueOK(asked', stored) /\ ToSet(asked') \subseteq ToSet(asked)
      /\ Join \notin ToSet(asked') /\ request \in ToSet(asked)
      /\ (Join \in ToSet(asked) => request = Join)
  BY <1>2, <1>3, QueueTail DEF Inv
<1>5. Window'
  <2>1. Reached \subseteq Reached'
    BY <1>1
  <2>2. \A id \in Ids(fr) : id \in 1..stored
    BY <1>1, <1>3
  <2>3. Ids(fr) \cap Ids(win) = {}
    BY <1>3
  <2>4. WindowOK(win', stored, Reached')
    BY <1>2, <1>3, <2>1, <2>2, <2>3, InFrontKeeps
  <2>5. Len(win') <= HistoryCap
    BY <1>2, <1>3 DEF InFront
  <2> QED BY <1>3, <2>4, <2>5 DEF Window, room
<1>6. Convex(Reached') /\ \A t \in Marks(asked', win') : Borders(t, stored, Reached')
  <2>1. CASE request = Join
    <3>1. k = stored /\ size = JoinPage /\ skipped = {r \in 1..stored : r < stored + 1 - JoinPage}
      BY <1>2, <2>1 DEF PageComes, Join
    <3>2. \A r \in Int : r \in Ids(rows) <=> 1 <= r /\ stored - JoinPage + 1 <= r /\ r <= stored
      BY <1>3, <3>1 DEF Span
    <3>3. ASSUME NEW r \in 1..stored
          PROVE  r \in Reached'
      <4>1. CASE r < stored + 1 - JoinPage
        BY <1>1, <3>1, <4>1
      <4>2. CASE ~(r < stored + 1 - JoinPage)
        <5>1. r \in Int /\ 1 <= r /\ stored - JoinPage + 1 <= r /\ r <= stored
          BY <1>2, <4>2, JoinPages
        <5> QED BY <1>1, <3>2, <5>1
      <4> QED BY <4>1, <4>2
    <3>4. Reached' = 1..stored
      BY <1>1, <1>2, <3>3
    <3> QED BY <1>2, <3>4 DEF Convex, Borders
  <2>2. CASE request # Join
    <3>1. request \in 1..(2 * stored + 1) /\ (request = 2 * k + 1 \/ request = 2 * k + 2) /\ skipped = {}
      BY <2>2 DEF PageComes
    <3>2. InRoom
      BY <1>3, <1>4, <2>2 DEF InRoom
    <3>3. /\ Convex(Reached) /\ (stored > 0 => stored \in Reached)
          /\ \A t \in Marks(asked, win) : Borders(t, stored, Reached)
      BY <3>2 DEF Inv, Covered
    <3>4. Borders(request, stored, Reached)
      <4>1. request \in Marks(asked, win)
        BY <1>2, <1>4, <3>1 DEF Marks
      <4> QED BY <3>3, <4>1
    <3>5. k = stored \/ k + 1 \in Reached
      BY <1>3, <3>1, <3>4 DEF Borders
    <3>6. Convex(Ids(rows)) /\ (k > 0 => k \in Ids(rows)) /\ Ids(rows) \subseteq 1..k
      <4>1. size = Page
        BY <2>2 DEF PageComes
      <4>2. k \in Nat
        BY <1>2, <1>3
      <4> QED BY <1>3, <4>1, <4>2, JoinPages, SpanConvex
    <3>7. Reached' = Reached \cup Ids(rows)
      BY <1>1, <3>1
    <3>8. Convex(Reached')
      <4>1. Reached \subseteq Int /\ Ids(rows) \subseteq Int
        BY <1>1, <1>2
      <4>2. \/ Ids(rows) = {}
            \/ \E a \in Reached, b \in Ids(rows) : a = b \/ a = b + 1
        <5>1. CASE k = 0
          <6>1. Ids(rows) = {}
            BY <3>6, <5>1
          <6> QED BY <6>1
        <5>2. CASE k > 0
          BY <1>2, <3>3, <3>5, <3>6, <5>2
        <5> QED BY <1>2, <1>3, <5>1, <5>2
      <4>3. Convex(Reached \cup Ids(rows))
        BY <3>3, <3>6, <4>1, <4>2, ConvexUnion
      <4> QED BY <3>7, <4>3
    <3>9. ASSUME NEW t \in Marks(asked', win')
          PROVE  Borders(t, stored, Reached')
      <4>1. t \in Marks(asked, win) \/ \E r \in Ids(fr) : t = 2 * r
        <5>1. CASE t \in Times(win')
          BY <1>2, <1>3, <5>1, InFrontTimes DEF Marks
        <5>2. CASE t \in ToSet(asked') /\ t > 0
          BY <1>4, <5>2 DEF Marks
        <5> QED BY <5>1, <5>2 DEF Marks
      <4>2. CASE t \in Marks(asked, win)
        <5>1. Borders(t, stored, Reached) /\ t \in 1..(2 * stored + 1) /\ Reached \subseteq Reached'
          BY <1>2, <3>3, <3>7, <4>2
        <5> QED BY <1>2, <5>1, BordersGrow
      <4>3. CASE \E r \in Ids(fr) : t = 2 * r
        <5>1. PICK r \in Ids(fr) : t = 2 * r
          BY <4>3
        <5>2. r \in Reached' /\ r \in 1..stored
          BY <1>1, <1>3, <3>7, <5>1
        <5> QED BY <1>2, <5>1, <5>2 DEF Borders
      <4> QED BY <4>1, <4>2, <4>3
    <3> QED BY <3>8, <3>9
  <2> QED BY <2>1, <2>2
<1>7. stored > 0 => stored \in Reached'
  <2>1. CASE request = Join
    <3>1. k = stored
      BY <1>2, <2>1 DEF PageComes, Join
    <3> QED BY <1>1, <1>3, <3>1 DEF Span
  <2>2. CASE request # Join
    <3>1. InRoom
      BY <1>3, <1>4, <2>2 DEF InRoom
    <3> QED BY <1>1, <3>1 DEF Inv, Covered
  <2> QED BY <2>1, <2>2
<1>8. Covered'
  BY <1>3, <1>6, <1>7 DEF Covered, room
<1>9. gone' \subseteq 1..stored /\ lost' \subseteq 1..stored
  <2>1. gone \subseteq 1..stored /\ lost \subseteq 1..stored
    BY DEF Inv, Types
  <2>2. \A r \in Own..stored : r > 0 => r \in 1..stored
    BY <1>2 DEF Own
  <2> QED BY <1>1, <1>2, <1>3, <2>1, <2>2 DEF room
<1>10. Types'
  <2>1. \E b : Committed(view', v, b, Shown(v, win), Shown(v, win'))
    BY DEF PageComes
  <2> QED BY <1>2, <1>3, <1>9, <2>1, TypesAfter DEF Inv, Types, room, bounds
<1>11. QueueOK(asked', stored')
  BY <1>3, <1>4 DEF room
<1>12. Stages'
  <2>1. Own \in Ids(win') \cup ToSet(asked') => Own \in Ids(win) \cup ToSet(asked)
    <3>1. Own \notin Ids(fr)
      BY <1>1, <1>3 DEF Own
    <3> QED BY <1>1, <1>4, <3>1
  <2>2. Own \in Ids(win)' \cup ToSet(asked)' => Own \in Ids(win) \cup ToSet(asked)
    BY <2>1 DEF Ids
  <2> QED BY <1>3, <2>2 DEF Inv, Stages, room
<1> QED BY <1>5, <1>8, <1>10, <1>11, <1>12 DEF Inv

(***************************************************************************)
(* The invariant holds                                                     *)
(***************************************************************************)

\* The invariant holds at the start.
LEMMA InitInv ==
  ASSUME Init
  PROVE  Inv
<1>1. /\ stored = Rows /\ gone = {} /\ online = FALSE /\ asked = <<>> /\ loaded = FALSE
      /\ win = <<>> /\ timers = <<>> /\ asks = 0 /\ drops = 0 /\ cards = 0
      /\ calm = TRUE /\ lost = {} /\ unseen = 0
      /\ view = [conv |-> "public", loading |-> FALSE, error |-> FALSE, more |-> TRUE,
                 restore |-> FALSE, first |-> None, auto |-> TRUE, badge |-> 0,
                 seen |-> None, all |-> FALSE]
  BY DEF Init
<1>2. Len(Author) \in Nat /\ Rows \in 0..Len(Author) /\ MaxAsk \in Nat /\ MaxDrops \in Nat
  BY TranscriptAssumption
<1>3. view \in Views /\ view.more
  BY <1>1 DEF Views
<1>4. Ids(win) = {} /\ ToSet(asked) = {}
  BY <1>1 DEF Ids, ToSet
<1>5. Reached = {}
  BY <1>1, <1>4 DEF Reached, Positive
<1>6. Types
  <2>1. stored \in Rows..Len(Author) /\ asks \in 0..MaxAsk /\ drops \in 0..MaxDrops
    BY <1>1, <1>2
  <2>2. timers \in Seq({"scroll", "retry"}) /\ Len(timers) <= asks
    BY <1>1
  <2> QED BY <1>1, <1>3, <2>1, <2>2 DEF Types
<1>7. QueueOK(asked, stored)
  BY <1>1 DEF QueueOK
<1>8. Stages
  BY <1>1, <1>3, <1>4 DEF Stages
<1>9. Window
  <2>1. win \in Seq(Entry) /\ Len(win) = 0 /\ HistoryCap \in Nat
    BY <1>1, MessageWindowAssumption
  <2> QED BY <2>1 DEF Window, WindowOK, Known, Distinct, OwnIsLast
<1>10. Covered
  BY <1>1, <1>5 DEF Covered, Convex, InRoom
<1> QED BY <1>6, <1>7, <1>8, <1>9, <1>10 DEF Inv

\* History frames keep it,
LEMMA HistoryKeeps ==
  ASSUME Inv, HandleHistory
  PROVE  Inv'
<1>1. CASE loaded
  BY <1>1, HistoryIsPage, PageKeeps
<1>2. CASE ~loaded
  BY <1>2, HistoryIsFirst, FirstKeeps
<1> QED BY <1>1, <1>2

\* and so does every step.
LEMMA NextInv ==
  ASSUME Inv, [Next]_vars
  PROVE  Inv'
<1>1. CASE \E top, bottom \in BOOLEAN : HandleScroll(top, bottom)
  BY <1>1, ScrollKeeps
<1>2. CASE Retry
  BY <1>2, RetryKeeps
<1>3. CASE TimeOut
  BY <1>3, TimeOutKeeps
<1>4. CASE HandleLoadOlder \/ ScrollToBottom
  BY <1>4, LoadOlderKeeps
<1>5. CASE SwitchConversation
  BY <1>5, SwitchKeeps
<1>6. CASE Connect \/ Drop
  BY <1>6, ConnectKeeps
<1>7. CASE Missed
  BY <1>7, MissedKeeps
<1>8. CASE LoadPublicPreview
  BY <1>8, PreviewIsFirst, FirstKeeps
<1>9. CASE HandleHistory
  BY <1>9, HistoryKeeps
<1>10. CASE AnswerLost
  BY <1>10, AnswerLostKeeps
<1>11. CASE Arrive
  BY <1>11, ArriveKeeps
<1>12. CASE SendMessage
  BY <1>12, SendKeeps
<1>13. CASE Echo
  BY <1>13, EchoKeepsInv
<1>14. CASE StreamOpens
  BY <1>14, OpenKeeps
<1>15. CASE StreamDone
  BY <1>15, DeletedRemoves, RemovesKeeps
<1>16. CASE \E id \in 1..Len(Author) : Deleted(id)
  BY <1>16, DeletedRemoves, RemovesKeeps
<1>17. CASE UNCHANGED vars
  <2>1. UNCHANGED <<room, online, loaded, win, lost>> /\ asked' = asked
    BY <1>17 DEF vars, socket, ghosts
  <2>2. Rest'
    BY <1>17 DEF vars, bounds, ghosts, socket, Rest, Inv, Types, Stages
  <2> QED BY <2>1, <2>2, StandsStill
<1> QED BY <1>1, <1>2, <1>3, <1>4, <1>5, <1>6, <1>7, <1>8, <1>9, <1>10, <1>11, <1>12, <1>13,
           <1>14, <1>15, <1>16, <1>17 DEF Next

\* The inductive invariant of the transcript holds, for any rows, page sizes and caps
\* (chatStore.ts 86-114, useWebSocket.ts 206-261, MessageTranscript.tsx 170-358).
THEOREM InvHolds == Spec => []Inv
<1>1. Init => Inv
  BY InitInv
<1>2. Inv /\ [Next]_vars => Inv'
  BY NextInv
<1> QED BY <1>1, <1>2, PTL DEF Spec

\* What is rendered is a sequence of messages.
LEMMA VisibleIs ==
  ASSUME Inv
  PROVE  Visible \in Seq(Entry)
<1> DEFINE shown == Shown(view, win)
           n == Len(shown)
<1>1. shown \in Seq(Entry)
  BY Ranges, TranscriptAssumption DEF Shown
<1>2. Visible = IF view.all \/ n <= MaxVisible THEN shown ELSE SubSeq(shown, n - MaxVisible + 1, n)
  BY DEF Visible
<1> HIDE DEF shown
<1>3. n \in Nat /\ MaxVisible \in Nat \ {0}
  BY <1>1, TranscriptAssumption
<1>4. ASSUME ~(n <= MaxVisible)
      PROVE  SubSeq(shown, n - MaxVisible + 1, n) \in Seq(Entry)
  <2> DEFINE p == n - MaxVisible + 1
  <2>1. p \in 1..n
    BY <1>3, <1>4
  <2> HIDE DEF p
  <2>2. SubSeq(shown, p, n) \in Seq(Entry)
    BY <1>1, <1>3, <2>1
  <2> QED BY <2>2 DEF p
<1> QED BY <1>1, <1>2, <1>4

\* It is grouped exactly.
LEMMA InvGroups ==
  ASSUME Inv
  PROVE  GroupsExact
<1> DEFINE v == Visible
           gs == BuildMessageGroups(v)
           Close(m, before) == m.user = before.user /\ m.text # "" /\ m.time < before.time + GroupWindow
<1>1. v \in Seq(Entry)
  BY VisibleIs
<1> HIDE DEF v
<1>2. GroupsOf(gs, v, Len(v))
  BY <1>1, GroupsAreExact
<1> HIDE DEF gs
<1>3. /\ gs \in Seq(Seq(Entry)) /\ FlattenSeq(gs) = SubSeq(v, 1, Len(v))
      /\ \A g \in 1..Len(gs) : Len(gs[g]) > 0
      /\ \A g \in 1..Len(gs) : \A i \in 2..Len(gs[g]) : Close(gs[g][i], gs[g][i - 1])
      /\ \A g \in 2..Len(gs) : ~Close(gs[g][1], gs[g - 1][Len(gs[g - 1])])
  BY <1>2 DEF GroupsOf, Follows
<1>4. FlattenSeq(gs) = v
  <2>1. SubSeq(v, 1, Len(v)) = v
    BY <1>1
  <2> QED BY <1>3, <2>1
<1>5. DOMAIN gs = 1..Len(gs) /\ Len(gs) \in Nat /\ \A g \in 1..Len(gs) : Len(gs[g]) \in Nat
  <2>1. gs \in Seq(Seq(Entry))
    BY <1>3
  <2>2. DOMAIN gs = 1..Len(gs) /\ Len(gs) \in Nat
    BY <2>1
  <2>3. ASSUME NEW g \in 1..Len(gs)
        PROVE  Len(gs[g]) \in Nat
    <3>1. gs[g] \in Seq(Entry)
      BY <2>1
    <3> QED BY <3>1
  <2> QED BY <2>2, <2>3
<1>6. ASSUME NEW g \in DOMAIN gs, NEW i \in 1..Len(gs[g])
      PROVE  LET m == gs[g][i]
                 before == IF i > 1 THEN gs[g][i - 1] ELSE Last(gs[g - 1])
             IN /\ (i > 1 => Close(m, before)) /\ (i = 1 /\ g > 1 => ~Close(m, before))
  <2>1. i > 1 => i \in 2..Len(gs[g])
    BY <1>5
  <2>2. g > 1 => g \in 2..Len(gs)
    BY <1>5
  <2>3. Last(gs[g - 1]) = gs[g - 1][Len(gs[g - 1])]
    BY DEF Last
  <2> HIDE DEF Close
  <2>4. ASSUME i > 1
        PROVE  Close(gs[g][i], gs[g][i - 1])
    BY <1>3, <2>1, <2>4, <1>5
  <2>5. ASSUME i = 1, g > 1
        PROVE  ~Close(gs[g][1], gs[g - 1][Len(gs[g - 1])])
    BY <1>3, <2>2, <2>5
  <2>6. CASE i > 1
    BY <2>4, <2>6
  <2>7. CASE ~(i > 1)
    <3>1. i = 1
      BY <1>5, <2>7
    <3> QED BY <2>3, <2>5, <3>1
  <2> QED BY <2>6, <2>7
<1> QED BY <1>4, <1>6 DEF GroupsExact, gs, v

\* Rows between two rows of the window have been reached.
LEMMA InvNothingLost ==
  ASSUME Inv
  PROVE  NothingLost
<1> SUFFICES ASSUME NEW low \in Ids(win), NEW high \in Ids(win), NEW r \in low..high, r > 0, low > 0
             PROVE  r \in Ids(win) \cup gone \cup lost
  BY DEF NothingLost
<1>1. low \in Int /\ high \in Int
  <2>1. \A x \in Own..stored : x \in Int
    BY DEF Own
  <2> QED BY <2>1, Ranges
<1>2. r \in Int /\ low <= r /\ r <= high
  BY <1>1
<1>3. low \in Reached /\ high \in Reached
  BY <1>1, <1>2 DEF Reached, Positive
<1>4. r \in Reached
  BY <1>2, <1>3 DEF Inv, Covered, Convex
<1> QED BY <1>4 DEF Reached, Positive

\* The invariant bounds every variable.
LEMMA InvTypes ==
  ASSUME Inv
  PROVE  TypeOK
<1>1. /\ stored \in Nat /\ Len(Author) \in Nat /\ stored <= Len(Author)
      /\ Ids(win) \subseteq Own..stored
  BY Ranges
<1>2. ASSUME NEW i \in DOMAIN asked
      PROVE  asked[i] \in Own..(2 * Len(Author) + 1)
  <2>1. DOMAIN asked = 1..Len(asked) /\ asked[i] \in Own..(2 * stored + 1)
    BY DEF Inv, QueueOK
  <2> QED BY <1>1, <2>1 DEF Own
<1>3. view.conv \in {"public", "private"} /\ view.badge \in Nat
  BY DEF Inv, Types, Views
<1>4. asks <= MaxAsk /\ drops <= MaxDrops
  BY TranscriptAssumption DEF Inv, Types
<1> QED BY <1>1, <1>2, <1>3, <1>4 DEF Inv, Types, Window, TypeOK

\* The types, NothingLost and GroupsExact, whatever the rows, the page sizes, the caps
\* and the time of a group: between the ends of the window nothing is missing that was
\* not deleted, cut off by a cap or skipped by a reconnection (chatStore.ts 86-114),
\* and buildMessageGroups (MessageTranscript.tsx 46-72) cuts what is shown exactly.
THEOREM WindowIsWhole == Spec => []WindowInv
<1>1. Inv => WindowInv
  BY InvTypes, InvNothingLost, InvGroups DEF WindowInv
<1> QED BY <1>1, InvHolds, PTL

(***************************************************************************)
(* The kinds of steps                                                      *)
(***************************************************************************)

\* A load has been asked for and not been answered.
Pending(q) == \E t \in ToSet(q) : t > 0

\* A load is waited for, or has been given up, where one could be asked for.
Waits(v) == v.loading \/ v.error => v.more /\ v.conv = "public"

\* The window stands still: what may become of the queue and the view.
Still ==
  /\ UNCHANGED <<gone, loaded, win, cards, lost>> /\ (calm' => calm)
  /\ (Waits(view) => Waits(view')) /\ (~view'.more => ~view.more)
  /\ view'.seen = LastId(Shown(view', win))
  /\ \/ /\ asked' = asked \/ (asked # <<>> /\ asked' = Tail(asked))
        /\ (calm' /\ Pending(asked) /\ view.loading => view'.loading)
     \/ asked' = Append(asked, win[1].time) /\ win # <<>> /\ ~view.loading /\ view'.loading
     \/ asked' = <<>> \/ asked' = <<Join>>
  /\ view'.restore =>
       \/ view.restore /\ view'.first = view.first /\ view'.conv = view.conv
       \/ view'.first = FirstId(win) /\ view'.first \in Int /\ view'.conv = "public" /\ win # <<>>
  /\ view.restore /\ ~view'.restore => view'.conv # view.conv \/ view'.error
  /\ \/ /\ view'.badge = view.badge /\ unseen' = unseen /\ view'.conv = view.conv
        /\ (view'.auto => view.auto)
     \/ view'.badge = 0 /\ unseen' = 0

\* A new entry at the end.
Grown(m) ==
  /\ InRoom /\ loaded /\ UNCHANGED <<loaded, gone>> /\ KeepsCalm
  /\ m \in Entry /\ m.id \notin Ids(win) /\ AtEnd(win', win, m)
  /\ Ids(win') \subseteq Ids(win) \cup {m.id} /\ (Sorted(win) => Sorted(win'))
  /\ (\/ m.id = stored + 1 /\ stored' = stored + 1 /\ Reached' = Reached \cup {stored + 1}
      \/ m.id \in {Own, Card} /\ stored' = stored /\ Reached' = Reached)
  /\ (asked' = asked \/ asked' = Append(asked, Own) \/ (asked # <<>> /\ asked' = Tail(asked)))
  /\ (\/ m.id = Card /\ cards' = 1
      \/ m.id # Card /\ cards' = cards)
  /\ unseen' = (IF ~view.auto /\ view.conv = "public" THEN unseen + 1 ELSE unseen)
  /\ Committed(view', view, TRUE, Shown(view, win), Shown(view, win'))

\* The same, by position in the queue, as KeepsCalm says it.
LEMMA PendingIs ==
  ASSUME NEW q \in Seq(Int)
  PROVE  Pending(q) <=> \E i \in DOMAIN q : q[i] > 0
BY DEF Pending, ToSet

\* Scrolling leaves the window alone,
LEMMA ScrollIsStill ==
  ASSUME Inv, view.seen = LastId(Shown(view, win)), NEW top \in BOOLEAN, NEW bottom \in BOOLEAN,
         HandleScroll(top, bottom)
  PROVE  Still
<1> DEFINE asking == top /\ view.more /\ ~view.loading /\ view.conv = "public"
<1>1. /\ view' \in Views /\ view'.seen = LastId(Shown(view, win))
      /\ view'.conv = view.conv /\ view'.more = view.more /\ view'.error = view.error
      /\ view'.auto = bottom /\ view'.badge = IF bottom THEN 0 ELSE view.badge
      /\ (asking => /\ view'.loading /\ view'.restore /\ win # <<>>
                    /\ view'.first = FirstId(win) /\ view'.first \in Int /\ Ask("scroll"))
      /\ (~asking => /\ view'.loading = view.loading /\ view'.restore = view.restore
                     /\ view'.first = view.first /\ UNCHANGED <<asks, asked, timers>>)
  BY Scrolls
<1>2. /\ UNCHANGED <<room, online, loaded, win, drops, cards, calm, lost>>
      /\ unseen' = IF bottom THEN 0 ELSE unseen
  BY DEF HandleScroll
<1>3. Shown(view', win) = Shown(view, win)
  BY <1>1 DEF Shown
<1>4. CASE asking
  <2>1. asked' = asked \/ asked' = Append(asked, win[1].time)
    BY <1>1, <1>4 DEF Ask
  <2> QED BY <1>1, <1>2, <1>3, <1>4, <2>1 DEF Still, Waits, room
<1>5. CASE ~asking
  BY <1>1, <1>2, <1>3, <1>5 DEF Still, Waits, room
<1> QED BY <1>4, <1>5

\* so does the retry button,
LEMMA RetryIsStill ==
  ASSUME Inv, view.seen = LastId(Shown(view, win)), Retry
  PROVE  Still
<1> DEFINE one == [view EXCEPT !.error = FALSE]
           two == [one EXCEPT !.loading = TRUE]
<1>1. /\ UNCHANGED <<room, online, loaded, win, drops, cards, ghosts>>
      /\ view.error /\ ~view.loading /\ view.conv = "public"
      /\ \/ win # <<>> /\ view' = two /\ Ask("retry")
         \/ view' = one /\ UNCHANGED <<asks, asked, timers>>
  BY DEF Retry
<1>2. view \in Views
  BY DEF Inv, Types
<1>3. /\ one.conv = view.conv /\ one.more = view.more /\ ~one.error /\ one.loading = view.loading
      /\ one.restore = view.restore /\ one.first = view.first /\ one.badge = view.badge
      /\ one.seen = view.seen /\ one.auto = view.auto /\ one \in Views
  BY <1>2 DEF Views
<1> HIDE DEF one
<1>4. /\ two.conv = view.conv /\ two.more = view.more /\ ~two.error /\ two.loading
      /\ two.restore = view.restore /\ two.first = view.first /\ two.badge = view.badge
      /\ two.seen = view.seen /\ two.auto = view.auto
  BY <1>3 DEF Views
<1> HIDE DEF two
<1>5. Shown(view', win) = Shown(view, win)
  BY <1>1, <1>3, <1>4 DEF Shown
<1>6. CASE win # <<>> /\ view' = two /\ Ask("retry")
  <2>1. asked' = asked \/ asked' = Append(asked, win[1].time)
    BY <1>6 DEF Ask
  <2> QED BY <1>1, <1>4, <1>5, <1>6, <2>1 DEF Still, Waits, room, ghosts
<1>7. CASE view' = one /\ UNCHANGED <<asks, asked, timers>>
  BY <1>1, <1>3, <1>5, <1>7 DEF Still, Waits, room, ghosts
<1> QED BY <1>1, <1>6, <1>7

\* Of a load that was given up, the page is not calm.
LEMMA CalmKept ==
  ASSUME Inv, KeepsCalm
  PROVE  calm' => calm /\ (Pending(asked) /\ view.loading => view'.loading)
<1>1. asked \in Seq(Int)
  BY DEF Inv, QueueOK
<1> QED BY <1>1, PendingIs DEF KeepsCalm

\* the time-out,
LEMMA TimeOutIsStill ==
  ASSUME Inv, view.seen = LastId(Shown(view, win)), TimeOut
  PROVE  Still
<1>1. /\ view' \in Views /\ view'.conv = view.conv /\ view'.more = view.more
      /\ view'.seen = view.seen /\ view'.badge = view.badge /\ view'.auto = view.auto
      /\ (view.loading => view'.error /\ ~view'.loading)
      /\ (~view.loading => view' = view)
      /\ (view'.restore => view.restore /\ view'.first = view.first)
      /\ (view.restore /\ ~view'.restore => view'.error)
  BY TimeOuts
<1>2. UNCHANGED <<room, socket, win, bounds, lost, unseen>> /\ KeepsCalm
  BY DEF TimeOut
<1>3. calm' => calm /\ (Pending(asked) /\ view.loading => view'.loading)
  BY <1>2, CalmKept
<1>4. Shown(view', win) = Shown(view, win)
  BY <1>1 DEF Shown
<1> QED BY <1>1, <1>2, <1>3, <1>4 DEF Still, Waits, room, socket, bounds

\* the button that shows hidden messages and the one that scrolls down,
LEMMA LoadOlderIsStill ==
  ASSUME Inv, view.seen = LastId(Shown(view, win)), HandleLoadOlder \/ ScrollToBottom
  PROVE  Still
<1>1. view \in Views
  BY DEF Inv, Types
<1>2. CASE HandleLoadOlder
  <2>1. /\ view' = [view EXCEPT !.all = TRUE]
        /\ UNCHANGED <<room, socket, win, timers, bounds, ghosts>>
    BY <1>2 DEF HandleLoadOlder
  <2>2. /\ view'.conv = view.conv /\ view'.more = view.more /\ view'.error = view.error
        /\ view'.loading = view.loading /\ view'.restore = view.restore /\ view'.first = view.first
        /\ view'.badge = view.badge /\ view'.seen = view.seen /\ view'.auto = view.auto
    BY <1>1, <2>1 DEF Views
  <2>3. Shown(view', win) = Shown(view, win)
    BY <2>2 DEF Shown
  <2> QED BY <2>1, <2>2, <2>3 DEF Still, Waits, room, socket, bounds, ghosts
<1>3. CASE ScrollToBottom
  <2>1. /\ view' = [view EXCEPT !.badge = 0] /\ unseen' = 0
        /\ UNCHANGED <<room, socket, win, timers, bounds, calm, lost>>
    BY <1>3 DEF ScrollToBottom
  <2>2. /\ view'.conv = view.conv /\ view'.more = view.more /\ view'.error = view.error
        /\ view'.loading = view.loading /\ view'.restore = view.restore /\ view'.first = view.first
        /\ view'.badge = 0 /\ view'.seen = view.seen
    BY <1>1, <2>1 DEF Views
  <2>3. Shown(view', win) = Shown(view, win)
    BY <2>2 DEF Shown
  <2> QED BY <2>1, <2>2, <2>3 DEF Still, Waits, room, socket, bounds, ghosts
<1> QED BY <1>2, <1>3

\* the switch of the conversation,
LEMMA SwitchIsStill ==
  ASSUME Inv, SwitchConversation
  PROVE  Still
<1>1. /\ view'.conv # view.conv /\ view'.more /\ ~view'.restore /\ ~view'.loading /\ ~view'.error
      /\ view'.badge = 0 /\ view'.seen = LastId(Shown(view', win))
  BY Switches
<1>2. UNCHANGED <<room, socket, win, timers, bounds, lost>> /\ unseen' = 0 /\ KeepsCalm
  BY DEF SwitchConversation
<1>3. calm' => calm /\ (Pending(asked) /\ view.loading => view'.loading)
  BY <1>2, CalmKept
<1> QED BY <1>1, <1>2, <1>3 DEF Still, Waits, room, socket, bounds

\* and what happens to the socket while no frame is handled.
LEMMA SocketIsStill ==
  ASSUME Inv, view.seen = LastId(Shown(view, win)),
         Connect \/ Drop \/ Missed \/ AnswerLost \/ UNCHANGED vars
  PROVE  Still
<1>1. /\ UNCHANGED <<gone, loaded, win, view, cards, ghosts>>
      /\ \/ asked' = <<Join>> \/ asked' = <<>> \/ asked' = asked
         \/ asked # <<>> /\ asked' = Tail(asked)
  BY DEF Connect, Drop, Missed, AnswerLost, vars, room, socket, bounds, ghosts
<1>2. Shown(view', win) = Shown(view, win)
  BY <1>1
<1> QED BY <1>1, <1>2 DEF Still, ghosts

\* A message of somebody else is a new entry at the end,
LEMMA ArriveIsGrown ==
  ASSUME Inv, Arrive
  PROVE  Grown(Message(stored + 1))
<1> DEFINE m == Message(stored + 1)
           n == stored + 1
<1>1. /\ InRoom /\ loaded /\ n \in Rows..Len(Author)
      /\ stored' = n /\ UNCHANGED <<gone, socket, timers, bounds>>
      /\ m \in Entry /\ m.id = stored + 1 /\ m.time = 2 * (stored + 1) /\ m.id \notin Ids(win)
      /\ Own \notin Ids(win) \cup ToSet(asked)
      /\ AtEnd(win', win, m)
      /\ lost' = (lost \cup {id \in Ids(win) : id > 0}) \ Ids(win')
      /\ unseen' = (IF ~view.auto /\ view.conv = "public" THEN unseen + 1 ELSE unseen)
      /\ Committed(view', view, TRUE, Shown(view, win), Shown(view, win'))
  BY Arrives
<1>2. stored \in Nat /\ Len(Author) \in Nat /\ n \in Nat /\ n <= Len(Author)
  BY <1>1, Ranges
<1>3. InRoom' /\ {t \in ToSet(asked') : t > 0} \subseteq ToSet(asked)
  BY <1>1 DEF InRoom, socket
<1>4. KeepsCalm
  BY DEF Arrive, Gets
<1> HIDE DEF m
<1>5. n \in {stored, stored + 1}
  OBVIOUS
<1> HIDE DEF n
<1>6. /\ Ids(win') \subseteq Ids(win) \cup {m.id} /\ (Sorted(win) => Sorted(win'))
      /\ Reached' = Reached \cup Positive({m.id})
  BY <1>1, <1>2, <1>3, <1>5, Appends DEF n
<1>7. Positive({m.id}) = {stored + 1} /\ m.id # Card
  BY <1>1, <1>2 DEF Positive, Card
<1> HIDE DEF Inv
<1>8. /\ asked' = asked /\ loaded' = loaded /\ cards' = cards /\ gone' = gone
  BY <1>1 DEF socket, bounds
<1>9. m.id = stored + 1 /\ stored' = stored + 1 /\ Reached' = Reached \cup {stored + 1}
  BY <1>1, <1>6, <1>7 DEF n
<1> QED BY <1>1, <1>4, <1>6, <1>7, <1>8, <1>9 DEF Grown, m

\* so is the own one that is sent,
LEMMA SendIsGrown ==
  ASSUME Inv, SendMessage
  PROVE  Grown(Local(Own, Me))
<1> DEFINE m == Local(Own, Me)
           n == stored
<1>1. /\ InRoom /\ loaded /\ stored < Len(Author)
      /\ Own \notin Ids(win) \cup ToSet(asked)
      /\ asked' = Append(asked, Own)
      /\ UNCHANGED <<room, online, loaded, timers, bounds>>
      /\ m \in Entry /\ m.id = Own /\ m.time = 2 * stored + 1
      /\ AtEnd(win', win, m)
      /\ lost' = (lost \cup {id \in Ids(win) : id > 0}) \ Ids(win')
      /\ unseen' = (IF ~view.auto /\ view.conv = "public" THEN unseen + 1 ELSE unseen)
      /\ Committed(view', view, TRUE, Shown(view, win), Shown(view, win'))
  BY Sends
<1>2. stored \in Nat /\ Len(Author) \in Nat
  BY Ranges
<1>3. ToSet(asked') = ToSet(asked) \cup {Own}
  <2>1. Own \in Own..(2 * stored + 1) /\ Own # Join
    BY <1>2 DEF Own, Join
  <2> QED BY <1>1, <1>2, <2>1, QueueAppend DEF Inv
<1>4. KeepsCalm
  BY DEF SendMessage, Gets
<1> HIDE DEF m
<1>5. InRoom' /\ {t \in ToSet(asked') : t > 0} \subseteq ToSet(asked)
  BY <1>1, <1>3 DEF InRoom, Own, Join
<1>6. n \in {stored, stored + 1} /\ stored' = n /\ n <= Len(Author) /\ gone' = gone /\ n = stored
      /\ stored' = stored
  BY <1>1, <1>2 DEF room
<1> HIDE DEF n
<1>7. m.id \in {Own, Card} /\ m.id \notin Ids(win) /\ m.id <= 0 /\ m.id # Card
  BY <1>1 DEF Own, Card
<1>8. /\ Ids(win') \subseteq Ids(win) \cup {m.id} /\ (Sorted(win) => Sorted(win'))
      /\ Reached' = Reached \cup Positive({m.id})
  BY <1>1, <1>5, <1>6, <1>7, Appends
<1>9. Reached' = Reached
  <2>1. Positive({m.id}) = {}
    BY <1>1 DEF Positive, Own
  <2> QED BY <1>8, <2>1
<1>10. loaded' = loaded /\ cards' = cards
  BY <1>1 DEF bounds
<1> QED BY <1>1, <1>4, <1>6, <1>7, <1>8, <1>9, <1>10 DEF Grown, m

\* the card of an answer,
LEMMA OpenIsGrown ==
  ASSUME Inv, StreamOpens
  PROVE  Grown(Local(Card, Bot))
<1> DEFINE m == Local(Card, Bot)
           n == stored
<1>1. /\ InRoom /\ loaded /\ cards' = 1
      /\ UNCHANGED <<room, socket, timers, asks, drops>>
      /\ m \in Entry /\ m.id = Card /\ m.time = 2 * stored + 1 /\ m.id \notin Ids(win)
      /\ AtEnd(win', win, m)
      /\ lost' = (lost \cup {id \in Ids(win) : id > 0}) \ Ids(win')
      /\ unseen' = (IF ~view.auto /\ view.conv = "public" THEN unseen + 1 ELSE unseen)
      /\ Committed(view', view, TRUE, Shown(view, win), Shown(view, win'))
  BY Opens
<1>2. stored \in Nat /\ Len(Author) \in Nat /\ stored <= Len(Author)
  BY Ranges
<1>3. KeepsCalm
  BY DEF StreamOpens, Gets
<1> HIDE DEF m
<1>4. InRoom' /\ {t \in ToSet(asked') : t > 0} \subseteq ToSet(asked)
  BY <1>1 DEF InRoom, socket
<1>5. n \in {stored, stored + 1} /\ stored' = n /\ n <= Len(Author) /\ gone' = gone /\ n = stored
      /\ stored' = stored
  BY <1>1, <1>2 DEF room
<1> HIDE DEF n
<1>6. m.id \in {Own, Card} /\ m.id <= 0
  BY <1>1 DEF Card
<1>7. /\ Ids(win') \subseteq Ids(win) \cup {m.id} /\ (Sorted(win) => Sorted(win'))
      /\ Reached' = Reached \cup Positive({m.id})
  BY <1>1, <1>4, <1>5, <1>6, Appends
<1>8. Reached' = Reached
  <2>1. Positive({m.id}) = {}
    BY <1>1 DEF Positive, Card
  <2> QED BY <1>7, <2>1
<1>9. asked' = asked /\ loaded' = loaded
  BY <1>1 DEF socket
<1> QED BY <1>1, <1>3, <1>5, <1>6, <1>7, <1>8, <1>9 DEF Grown, m

\* (An echo may restore the position too early, like every frame.)
LEMMA EchoCalm ==
  ASSUME Echo
  PROVE  KeepsCalm
BY DEF Echo, Gets

\* and an echo whose entry is gone.
LEMMA EchoIsGrown ==
  ASSUME Inv, Echo, NEW m, EchoOf(m), EchoComes(m)
  PROVE  Grown(m)
<1> DEFINE n == stored + 1
<1>1. /\ InRoom /\ loaded /\ n \in Rows..Len(Author) /\ stored \in Nat
      /\ asked # <<>> /\ Head(asked) = Own /\ asked' = Tail(asked)
      /\ stored' = n /\ UNCHANGED <<gone, online, loaded, timers, bounds>>
      /\ m \in Entry /\ m.id = stored + 1 /\ m.time = 2 * (stored + 1) /\ m.id \notin Ids(win)
      /\ lost' = (lost \cup {id \in Ids(win) : id > 0}) \ Ids(win')
  BY DEF EchoOf
<1>2. n \in Nat /\ n <= Len(Author) /\ n \in {stored, stored + 1}
  BY <1>1, Ranges
<1>3. ToSet(asked') \subseteq ToSet(asked)
  BY <1>1, QueueTail DEF Inv
<1>4. InRoom' /\ {t \in ToSet(asked') : t > 0} \subseteq ToSet(asked)
  BY <1>1, <1>3 DEF InRoom
<1> HIDE DEF n
<1>5. /\ Own \notin Ids(win) /\ AtEnd(win', win, m)
      /\ unseen' = (IF ~view.auto /\ view.conv = "public" THEN unseen + 1 ELSE unseen)
      /\ Committed(view', view, TRUE, Shown(view, win), Shown(view, win'))
  BY DEF EchoComes
<1>6. /\ Ids(win') \subseteq Ids(win) \cup {m.id} /\ (Sorted(win) => Sorted(win'))
      /\ Reached' = Reached \cup Positive({m.id})
  BY <1>1, <1>2, <1>4, <1>5, Appends DEF n
<1>7. Positive({m.id}) = {stored + 1} /\ m.id # Card
  BY <1>1 DEF Positive, Card
<1>8. stored' = stored + 1 /\ Reached' = Reached \cup {stored + 1}
  BY <1>1, <1>6, <1>7 DEF n
<1>9. loaded' = loaded /\ cards' = cards /\ gone' = gone
  BY <1>1 DEF bounds
<1> QED BY <1>1, <1>5, <1>6, <1>7, <1>8, <1>9, EchoCalm DEF Grown

\* Only rows and the card are removed.
LEMMA RemovesOnly ==
  ASSUME Inv, NEW id, Deleted(id) \/ (id = Card /\ StreamDone)
  PROVE  Removes(id) /\ KeepsCalm /\ (id > 0 \/ id = Card)
BY DeletedRemoves DEF Deleted

\* There are six kinds of steps.
LEMMA StepKinds ==
  ASSUME Inv, view.seen = LastId(Shown(view, win)), [Next]_vars
  PROVE  \/ Still
         \/ \E m : Grown(m)
         \/ \E m, at : EchoOf(m) /\ EchoTakes(m, at) /\ KeepsCalm
         \/ \E id : Removes(id) /\ KeepsCalm /\ (id > 0 \/ id = Card)
         \/ FirstComes
         \/ \E request, size, k, rows, fr, v, skipped :
              PageComes(request, size, k, rows, fr, v, skipped)
<1>1. CASE \E top, bottom \in BOOLEAN : HandleScroll(top, bottom)
  BY <1>1, ScrollIsStill
<1>2. CASE Retry \/ TimeOut \/ HandleLoadOlder \/ ScrollToBottom
  BY <1>2, RetryIsStill, TimeOutIsStill, LoadOlderIsStill
<1>3. CASE SwitchConversation
  BY <1>3, SwitchIsStill
<1>4. CASE Connect \/ Drop \/ Missed \/ AnswerLost \/ UNCHANGED vars
  BY <1>4, SocketIsStill
<1>5. CASE LoadPublicPreview
  BY <1>5, PreviewIsFirst
<1>6. CASE HandleHistory
  BY <1>6, HistoryIsFirst, HistoryIsPage
<1>7. CASE Arrive \/ SendMessage \/ StreamOpens
  BY <1>7, ArriveIsGrown, SendIsGrown, OpenIsGrown
<1>8. CASE Echo
  <2>1. PICK m : EchoOf(m) /\ (EchoComes(m) \/ \E at : EchoTakes(m, at))
    BY <1>8, Echoes
  <2>2. KeepsCalm
    BY <1>8, EchoCalm
  <2> QED BY <1>8, <2>1, <2>2, EchoIsGrown
<1>9. CASE StreamDone
  BY <1>9, RemovesOnly
<1>10. CASE \E id \in 1..Len(Author) : Deleted(id)
  BY <1>10, RemovesOnly
<1> QED BY <1>1, <1>2, <1>3, <1>4, <1>5, <1>6, <1>7, <1>8, <1>9, <1>10 DEF Next

(***************************************************************************)
(* Where the messages begin                                                *)
(***************************************************************************)

\* At most one load is not answered, the page waits for it, and no row of the window
\* is older than what it asks for.
QueueCalm(q, w, loading) ==
  /\ \A i, j \in 1..Len(q) : q[i] > 0 /\ q[j] > 0 => i = j
  /\ Pending(q) => loading
  /\ \A t \in ToSet(q), r \in Ids(w) : t > 0 /\ r > 0 => t <= 2 * r

\* All rows up to the last of them.
Down(S) == \A a \in S : \A r \in 1..a : r \in S

\* While no load was given up and no later join's history came.
Calm ==
  calm => /\ Sorted(win) /\ QueueCalm(asked, win, view.loading)
          /\ (~view.more => Down(Reached))

\* An answer: at most one load was asked for, so now none is.
LEMMA TailCalm ==
  ASSUME NEW q \in Seq(Int), q # <<>>, NEW w, NEW l, QueueCalm(q, w, l)
  PROVE  QueueCalm(Tail(q), w, l) /\ (Head(q) > 0 => ~Pending(Tail(q)))
<1> DEFINE d == Tail(q)
<1>1. /\ d \in Seq(Int) /\ Len(q) \in Nat /\ Len(d) = Len(q) - 1
      /\ \A i \in 1..Len(d) : d[i] = q[i + 1]
  OBVIOUS
<1>2. Head(q) = q[1] /\ 1 \in 1..Len(q)
  OBVIOUS
<1> HIDE DEF d
<1>3. \A i \in 1..Len(d) : i + 1 \in 1..Len(q) /\ i + 1 # 1
  BY <1>1
<1>4. ToSet(d) = {d[i] : i \in 1..Len(d)} /\ ToSet(q) = {q[i] : i \in 1..Len(q)}
  <2>1. DOMAIN d = 1..Len(d) /\ DOMAIN q = 1..Len(q)
    BY <1>1
  <2> QED BY <2>1 DEF ToSet
<1>5. ToSet(d) \subseteq ToSet(q)
  BY <1>1, <1>3, <1>4
<1>6. \A i, j \in 1..Len(d) : d[i] > 0 /\ d[j] > 0 => i = j
  <2> SUFFICES ASSUME NEW i \in 1..Len(d), NEW j \in 1..Len(d), d[i] > 0, d[j] > 0
               PROVE  i = j
    OBVIOUS
  <2>1. i + 1 = j + 1
    BY <1>1, <1>3 DEF QueueCalm
  <2> QED BY <2>1
<1>7. ASSUME Head(q) > 0
      PROVE  ~Pending(d)
  <2> SUFFICES ASSUME NEW i \in 1..Len(d), d[i] > 0
               PROVE  FALSE
    BY <1>4 DEF Pending
  <2>1. i + 1 = 1
    BY <1>1, <1>2, <1>3, <1>7 DEF QueueCalm
  <2> QED BY <1>3, <2>1
<1>8. QueueCalm(d, w, l)
  BY <1>5, <1>6 DEF QueueCalm, Pending
<1> QED BY <1>7, <1>8 DEF d

\* A queue without a load is calm.
LEMMA QuietCalm ==
  ASSUME NEW q \in Seq(Int), ~Pending(q), NEW w, NEW l
  PROVE  QueueCalm(q, w, l)
<1>1. ToSet(q) = {q[i] : i \in 1..Len(q)}
  <2>1. DOMAIN q = 1..Len(q)
    OBVIOUS
  <2> QED BY <2>1 DEF ToSet
<1> QED BY <1>1 DEF QueueCalm, Pending

\* A load more, when there is none, and not after any row of the window.
LEMMA AppendCalm ==
  ASSUME NEW q \in Seq(Int), NEW t \in Int, NEW w, NEW l, QueueCalm(q, w, l),
         \/ t <= 0
         \/ ~Pending(q) /\ l /\ \A r \in Ids(w) : r > 0 => t <= 2 * r
  PROVE  QueueCalm(Append(q, t), w, l)
<1> DEFINE d == Append(q, t)
<1>1. /\ d \in Seq(Int) /\ Len(q) \in Nat /\ Len(d) = Len(q) + 1 /\ d[Len(q) + 1] = t
      /\ \A i \in 1..Len(q) : d[i] = q[i]
  OBVIOUS
<1> HIDE DEF d
<1>2. \A i \in 1..Len(d) : i \in 1..Len(q) \/ i = Len(q) + 1
  BY <1>1
<1>3. ToSet(d) = {d[i] : i \in 1..Len(d)} /\ ToSet(q) = {q[i] : i \in 1..Len(q)}
  <2>1. DOMAIN d = 1..Len(d) /\ DOMAIN q = 1..Len(q)
    BY <1>1
  <2> QED BY <2>1 DEF ToSet
<1>4. \A x \in ToSet(d) : x \in ToSet(q) \/ x = t
  BY <1>1, <1>2, <1>3
<1>5. \A i \in 1..Len(q) : q[i] \in ToSet(q)
  BY <1>3
<1>6. CASE t <= 0
  <2>1. \A i \in 1..Len(d) : d[i] > 0 => i \in 1..Len(q) /\ d[i] = q[i]
    BY <1>1, <1>2, <1>6
  <2>2. \A x \in ToSet(d) : x > 0 => x \in ToSet(q)
    BY <1>4, <1>6
  <2> QED BY <2>1, <2>2 DEF QueueCalm, Pending, d
<1>7. CASE ~Pending(q) /\ l /\ \A r \in Ids(w) : r > 0 => t <= 2 * r
  <2>1. \A i \in 1..Len(d) : d[i] > 0 => i = Len(q) + 1
    BY <1>1, <1>2, <1>5, <1>7 DEF Pending
  <2>2. \A x \in ToSet(d) : x > 0 => x = t
    BY <1>4, <1>7 DEF Pending
  <2> QED BY <1>7, <2>1, <2>2 DEF QueueCalm, Pending, d
<1> QED BY <1>6, <1>7

\* A row more, younger than what is asked for.
LEMMA WindowCalm ==
  ASSUME NEW n \in Nat, NEW q, \A t \in ToSet(q) : t \in Int /\ t <= 2 * n + 1,
         NEW w, NEW d, Ids(d) \subseteq Int, \A r \in Ids(d) : r > 0 => r \in Ids(w) \/ r = n + 1,
         NEW l, NEW m, QueueCalm(q, w, l), Pending(q) /\ l => m
  PROVE  QueueCalm(q, d, m)
<1>1. ASSUME NEW t \in ToSet(q), NEW r \in Ids(d), t > 0, r > 0
      PROVE  t <= 2 * r
  <2>1. CASE r \in Ids(w)
    BY <1>1, <2>1 DEF QueueCalm
  <2>2. CASE r = n + 1
    BY <1>1, <2>2
  <2> QED BY <1>1, <2>1, <2>2
<1> QED BY <1>1 DEF QueueCalm

\* The next row keeps the rows without a hole.
LEMMA DownGrows ==
  ASSUME NEW n \in Nat, NEW S, S \subseteq 1..n, Down(S), n > 0 => n \in S
  PROVE  Down(S \cup {n + 1})
<1>1. \A r \in 1..n : r \in S
  BY DEF Down
<1> QED BY <1>1 DEF Down

\* What is asked for lies in the room.
LEMMA AskedIn ==
  ASSUME Inv
  PROVE  /\ asked \in Seq(Int) /\ stored \in Nat
         /\ \A t \in ToSet(asked) : t \in Int /\ t <= 2 * stored + 1
<1>1. stored \in Nat /\ asked \in Seq(Int) /\ \A i \in 1..Len(asked) : asked[i] \in Own..(2 * stored + 1)
  BY Ranges DEF Inv, QueueOK
<1>2. ToSet(asked) = {asked[i] : i \in 1..Len(asked)}
  <2>1. DOMAIN asked = 1..Len(asked)
    BY <1>1
  <2> QED BY <2>1 DEF ToSet
<1> QED BY <1>1, <1>2 DEF Own

\* A row of the window and its time.
LEMMA RowTimes ==
  ASSUME Inv, NEW i \in 1..Len(win)
  PROVE  /\ win[i].id \in Int /\ win[i].time \in Int /\ (win[i].id > 0 => win[i].time = 2 * win[i].id)
         /\ win[i].id \in Ids(win)
<1>1. win \in Seq(Entry) /\ stored \in Nat /\ KnownEntry(win[i], stored, Reached)
  BY Ranges DEF Inv, Window, WindowOK, Known
<1>2. win[i] \in Entry
  BY <1>1
<1>3. Ids(win) = {win[j].id : j \in 1..Len(win)}
  BY <1>1, IdsOf
<1> QED BY <1>1, <1>2, <1>3, KnownFacts

\* Calm is kept while the window stands still: a load is asked for with the time of
\* the first entry, which in a sorted window is not after any row,
LEMMA CalmStill ==
  ASSUME Inv, Calm, Still
  PROVE  Calm'
<1> SUFFICES ASSUME calm'
             PROVE  /\ Sorted(win') /\ QueueCalm(asked', win', view'.loading)
                    /\ (~view'.more => Down(Reached'))
  BY DEF Calm
<1>1. calm /\ UNCHANGED <<gone, loaded, win, cards, lost>> /\ (~view'.more => ~view.more)
  BY DEF Still
<1>2. Sorted(win) /\ QueueCalm(asked, win, view.loading) /\ (~view.more => Down(Reached))
  BY <1>1 DEF Calm
<1>3. Reached' = Reached
  BY <1>1 DEF Reached, Positive, Ids
<1>4. asked \in Seq(Int) /\ win \in Seq(Entry)
  BY AskedIn, Ranges
<1>5. QueueCalm(asked', win, view'.loading)
  <2>1. CASE /\ asked' = asked \/ (asked # <<>> /\ asked' = Tail(asked))
             /\ (calm' /\ Pending(asked) /\ view.loading => view'.loading)
    <3>1. QueueCalm(asked, win, view'.loading)
      BY <1>2, <2>1 DEF QueueCalm
    <3> QED BY <1>4, <2>1, <3>1, TailCalm
  <2>2. CASE asked' = Append(asked, win[1].time) /\ win # <<>> /\ ~view.loading /\ view'.loading
    <3> DEFINE t == win[1].time
    <3>1. 1 \in 1..Len(win)
      BY <1>4, <2>2
    <3>2. t \in Int
      BY <3>1, RowTimes
    <3>3. ASSUME NEW r \in Ids(win), r > 0
          PROVE  t <= 2 * r
      <4>1. Ids(win) = {win[j].id : j \in 1..Len(win)}
        BY <1>4, IdsOf
      <4>2. PICK j \in 1..Len(win) : r = win[j].id
        BY <4>1
      <4>3. win[j].time = 2 * r /\ r \in Int
        BY <3>3, <4>2, RowTimes
      <4>4. CASE j = 1
        BY <4>3, <4>4
      <4>5. CASE 1 < j
        <5>1. t < win[j].time
          BY <1>2, <3>1, <3>3, <4>2, <4>5 DEF Sorted
        <5> QED BY <3>2, <4>3, <5>1
      <4> QED BY <4>4, <4>5
    <3>4. ~Pending(asked)
      BY <1>2, <2>2 DEF QueueCalm
    <3>5. QueueCalm(asked, win, view'.loading)
      BY <1>2, <3>4 DEF QueueCalm
    <3> HIDE DEF t
    <3>6. QueueCalm(Append(asked, t), win, view'.loading)
      BY <1>4, <2>2, <3>2, <3>3, <3>4, <3>5, AppendCalm
    <3> QED BY <2>2, <3>6 DEF t
  <2>3. CASE asked' = <<>> \/ asked' = <<Join>>
    <3>1. asked' \in Seq(Int) /\ ~Pending(asked')
      <4>1. CASE asked' = <<>>
        BY <4>1 DEF Pending, ToSet
      <4>2. CASE asked' = <<Join>>
        <5>1. asked' \in Seq(Int) /\ DOMAIN asked' = {1} /\ asked'[1] = 0
          BY <4>2 DEF Join
        <5> QED BY <5>1 DEF Pending, ToSet
      <4> QED BY <2>3, <4>1, <4>2
    <3> QED BY <3>1, QuietCalm
  <2> QED BY <2>1, <2>2, <2>3 DEF Still
<1> QED BY <1>1, <1>2, <1>3, <1>5

\* In the room, a row more, at the end or in the place of the user's own entry.
LEMMA CalmRow ==
  ASSUME Inv, Calm, InRoom, KeepsCalm, Sorted(win) => Sorted(win'), win' \in Seq(Entry),
         \A r \in Ids(win') : r > 0 => r \in Ids(win) \/ r = stored + 1,
         Reached' = Reached \/ Reached' = Reached \cup {stored + 1},
         asked' = asked \/ asked' = Append(asked, Own) \/ (asked # <<>> /\ asked' = Tail(asked)),
         view'.more = view.more
  PROVE  Calm'
<1> SUFFICES ASSUME calm'
             PROVE  /\ Sorted(win') /\ QueueCalm(asked', win', view'.loading)
                    /\ (~view'.more => Down(Reached'))
  BY DEF Calm
<1>1. calm /\ (Pending(asked) /\ view.loading => view'.loading)
  BY CalmKept
<1>2. Sorted(win) /\ QueueCalm(asked, win, view.loading) /\ (~view.more => Down(Reached))
  BY <1>1 DEF Calm
<1>3. /\ asked \in Seq(Int) /\ stored \in Nat /\ \A t \in ToSet(asked) : t \in Int /\ t <= 2 * stored + 1
  BY AskedIn
<1>4. Ids(win') \subseteq Int
  <2>1. Ids(win') = {win'[j].id : j \in 1..Len(win')} /\ \A j \in 1..Len(win') : win'[j] \in Entry
    BY IdsOf
  <2> QED BY <2>1 DEF Entry
<1>5. QueueCalm(asked, win', view'.loading)
  BY <1>1, <1>2, <1>3, <1>4, WindowCalm
<1>6. QueueCalm(asked', win', view'.loading)
  <2>1. Own \in Int /\ Own <= 0
    BY DEF Own
  <2> QED BY <1>3, <1>5, <2>1, AppendCalm, TailCalm
<1>7. ~view.more => Down(Reached \cup {stored + 1})
  <2>1. Reached \subseteq 1..stored
    BY Ranges
  <2>2. stored > 0 => stored \in Reached
    BY DEF Inv, Covered
  <2> QED BY <1>2, <1>3, <2>1, <2>2, DownGrows
<1> QED BY <1>2, <1>6, <1>7

\* by a new entry,
LEMMA CalmGrown ==
  ASSUME Inv, Calm, NEW m, Grown(m)
  PROVE  Calm'
<1>1. /\ InRoom /\ KeepsCalm /\ (Sorted(win) => Sorted(win')) /\ AtEnd(win', win, m)
      /\ Ids(win') \subseteq Ids(win) \cup {m.id}
      /\ (\/ m.id = stored + 1 /\ stored' = stored + 1 /\ Reached' = Reached \cup {stored + 1}
          \/ m.id \in {Own, Card} /\ stored' = stored /\ Reached' = Reached)
      /\ (asked' = asked \/ asked' = Append(asked, Own) \/ (asked # <<>> /\ asked' = Tail(asked)))
      /\ Committed(view', view, TRUE, Shown(view, win), Shown(view, win'))
  BY DEF Grown
<1>2. win' \in Seq(Entry)
  BY <1>1 DEF AtEnd
<1>3. view'.more = view.more
  BY <1>1 DEF Committed
<1>4. \A r \in Ids(win') : r > 0 => r \in Ids(win) \/ r = stored + 1
  BY <1>1 DEF Own, Card
<1> QED BY <1>1, <1>2, <1>3, <1>4, CalmRow

\* by an echo in the place of its entry,
LEMMA CalmEcho ==
  ASSUME Inv, Calm, NEW m, EchoOf(m), NEW at, EchoTakes(m, at), KeepsCalm
  PROVE  Calm'
<1>1. /\ Reached' = Reached \cup {stored + 1} /\ (Sorted(win) => Sorted(win'))
      /\ Ids(win') = (Ids(win) \ {Own}) \cup {stored + 1}
  BY EchoTakesIds
<1>2. InRoom /\ win' \in Seq(Entry) /\ asked # <<>> /\ asked' = Tail(asked)
  BY DEF EchoOf
<1>3. view'.more = view.more
  BY DEF EchoTakes, Committed
<1> QED BY <1>1, <1>2, <1>3, CalmRow

\* by a removal,
LEMMA CalmRemoves ==
  ASSUME Inv, Calm, NEW id, Removes(id), KeepsCalm
  PROVE  Calm'
<1>1. Reached' = Reached /\ (Sorted(win) => Sorted(win'))
  BY RemovesKeeps
<1>2. /\ InRoom /\ win' = DeleteMessage(win, id) /\ win' \in Seq(Entry) /\ UNCHANGED socket
      /\ Committed(view', view, FALSE, Shown(view, win), Shown(view, win'))
  BY DEF Removes
<1>3. Ids(win') = Ids(win) \ {id}
  BY <1>2, Ranges, DeleteEnds
<1>4. asked' = asked /\ view'.more = view.more
  BY <1>2 DEF socket, Committed
<1> QED BY <1>1, <1>2, <1>3, <1>4, CalmRow

\* by the first history,
LEMMA CalmFirst ==
  ASSUME Inv, Calm, FirstComes
  PROVE  Calm'
<1>1. Sorted(win')
  BY FirstKeeps
<1>2. asked' = <<>> /\ view'.more = view.more /\ ~loaded
  BY DEF FirstComes, Committed
<1>3. view.more
  BY <1>2 DEF Inv, Stages
<1>4. QueueCalm(asked', win', view'.loading)
  <2>1. asked' \in Seq(Int) /\ ~Pending(asked')
    BY <1>2 DEF Pending, ToSet
  <2> QED BY <2>1, QuietCalm
<1> QED BY <1>1, <1>2, <1>3, <1>4 DEF Calm

\* A page whose rows begin the room, up to what the page has had.
LEMMA PageIsDown ==
  ASSUME NEW n \in Nat, NEW S, S \subseteq 1..n, Convex(S), NEW k \in 0..n, k = n \/ k + 1 \in S,
         NEW R, R \subseteq 1..k, \A r \in 1..k : r \in R
  PROVE  Down(S \cup R)
<1> SUFFICES ASSUME NEW a \in S \cup R, NEW r \in 1..a, r > k
             PROVE  r \in S
  <2>1. \A a \in S \cup R : a \in 1..n
    BY DEF Down
  <2> QED BY <2>1 DEF Down
<1>1. a \in 1..n /\ a > k
  OBVIOUS
<1>2. a \in S /\ k + 1 \in S
  BY <1>1
<1>3. k + 1 <= r /\ r <= a /\ r \in Int
  BY <1>1
<1> QED BY <1>2, <1>3 DEF Convex

\* and by a page: it comes in front of all rows, and if it is taken for the last one it
\* has the first row.  (A full page brings a row that the window does not have.)
LEMMA CalmPage ==
  ASSUME Inv, Waits(view), Calm, NEW request, NEW size, NEW k, NEW rows, NEW fr, NEW v, NEW skipped,
         PageComes(request, size, k, rows, fr, v, skipped)
  PROVE  Calm'
<1> SUFFICES ASSUME calm'
             PROVE  /\ Sorted(win') /\ QueueCalm(asked', win', view'.loading)
                    /\ (~view'.more => Down(Reached'))
  BY DEF Calm
<1>1. /\ online /\ loaded /\ asked # <<>> /\ request = Head(asked) /\ asked' = Tail(asked)
      /\ request \in 1..(2 * stored + 1) /\ (request = 2 * k + 1 \/ request = 2 * k + 2)
      /\ size = Page /\ calm' = calm /\ skipped = {}
      /\ k \in 0..stored /\ Span(rows, size, k)
      /\ IsPage(fr) /\ Ids(fr) = Ids(rows) \ Ids(win) /\ InFront(win', fr, win)
      /\ (\/ v = NoMore(view) /\ (fr = <<>> \/ Len(rows) < Page)
          \/ v = view /\ fr # <<>> /\ ~(Len(rows) < Page))
      /\ view'.more = v.more
  BY DEF PageComes, Committed
<1>2. Sorted(win) /\ QueueCalm(asked, win, view.loading) /\ (~view.more => Down(Reached))
  BY <1>1 DEF Calm
<1>3. /\ asked \in Seq(Int) /\ stored \in Nat /\ win \in Seq(Entry) /\ WindowOK(win, stored, Reached)
      /\ Reached \subseteq 1..stored
  BY AskedIn, Ranges DEF Inv, Window
<1>4. request \in ToSet(asked) /\ request > 0
  <2>1. 1 \in DOMAIN asked /\ request = asked[1]
    BY <1>1, <1>3
  <2> QED BY <1>1, <1>3, <2>1 DEF ToSet
<1>5. \A r \in Ids(win) : r > 0 => request <= 2 * r
  BY <1>2, <1>4 DEF QueueCalm
<1>6. QueueCalm(asked', win', view'.loading)
  <2>1. asked' \in Seq(Int) /\ ~Pending(asked')
    BY <1>1, <1>2, <1>3, <1>4, TailCalm
  <2> QED BY <2>1, QuietCalm
<1>7. Ids(rows) \subseteq 1..k /\ (k > 0 => k \in Ids(rows)) /\ IsPage(rows)
      /\ (Len(rows) < Page => \A r \in 1..k : r \in Ids(rows))
  BY <1>1 DEF Span
<1>8. Sorted(win')
  <2>1. \A i \in 1..Len(fr) : fr[i].id \in 1..k /\ fr[i].time = 2 * fr[i].id
    <3>1. fr \in Seq(Entry) /\ \A i \in 1..Len(fr) : fr[i].time = 2 * fr[i].id
      BY <1>1 DEF IsPage
    <3>2. Ids(fr) = {fr[i].id : i \in 1..Len(fr)}
      BY <3>1, IdsOf
    <3> QED BY <1>1, <1>7, <3>1, <3>2
  <2>2. ASSUME NEW i \in 1..Len(fr), NEW j \in 1..Len(win), win[j].id > 0
        PROVE  fr[i].time < win[j].time
    <3>1. win[j].id \in Int /\ win[j].time = 2 * win[j].id /\ request <= 2 * win[j].id
      BY <1>5, <2>2, RowTimes
    <3>2. fr[i].id \in Int /\ fr[i].id <= k /\ fr[i].time = 2 * fr[i].id /\ k \in Int
      BY SMTT(40), <1>1, <1>3, <2>1
    <3>3. request = 2 * k + 1 \/ request = 2 * k + 2
      BY <1>1
    <3>4. request \in Int /\ 2 * k < request
      BY <3>2, <3>3
    <3> QED BY <3>1, <3>2, <3>4
  <2>3. \A id \in Ids(fr) : id \in 1..stored
    BY <1>1, <1>3, <1>7
  <2>4. Ids(fr) \cap Ids(win) = {}
    BY <1>1
  <2>5. Reached \subseteq Reached /\ IsPage(fr) /\ InFront(win', fr, win) /\ WindowOK(win, stored, Reached)
        /\ Sorted(win) /\ stored \in Nat
    BY <1>1, <1>2, <1>3
  <2> QED BY <2>2, <2>3, <2>4, <2>5, InFrontKeeps
<1>9. ASSUME ~view'.more
      PROVE  Down(Reached')
  <2>1. view.more
    <3>1. view.loading
      BY <1>2, <1>4 DEF QueueCalm, Pending
    <3> QED BY <3>1 DEF Waits
  <2>2. fr = <<>> \/ Len(rows) < Page
    BY <1>1, <1>9, <2>1
  <2>3. Len(rows) < Page
    <3> SUFFICES ASSUME fr = <<>>, ~(Len(rows) < Page)
                 PROVE  FALSE
      BY <2>2
    <3>1. Ids(rows) \subseteq Ids(win)
      <4>1. Ids(fr) = {}
        BY DEF Ids
      <4> QED BY <1>1, <4>1
    <3>2. k > 0
      <4>1. rows \in Seq(Entry) /\ Len(rows) \in Nat /\ 1 \in 1..Len(rows)
        BY <1>7, JoinPages DEF IsPage
      <4>2. rows[1].id \in Ids(rows)
        BY <4>1, IdsOf
      <4> QED BY <1>1, <1>3, <1>7, <4>2
    <3>3. request <= 2 * k
      BY <1>5, <1>7, <3>1, <3>2
    <3> QED BY <1>1, <1>3, <3>3
  <2>4. \A r \in 1..k : r \in Ids(rows)
    BY <1>7, <2>3
  <2>5. Join \notin ToSet(asked)
    <3>1. Join \in ToSet(asked) => request = Join
      BY <1>1, <1>3, QueueTail DEF Inv
    <3> QED BY <1>4, <3>1 DEF Join
  <2>6. Convex(Reached) /\ Borders(request, stored, Reached)
    <3>1. InRoom
      BY <1>1, <2>5 DEF InRoom
    <3>2. request \in Marks(asked, win)
      BY <1>4 DEF Marks
    <3> QED BY <3>1, <3>2 DEF Inv, Covered
  <2>7. k = stored \/ k + 1 \in Reached
    BY <1>1, <2>6 DEF Borders
  <2>8. Down(Reached \cup Ids(rows))
    BY <1>1, <1>3, <1>7, <2>4, <2>6, <2>7, PageIsDown
  <2>9. Reached' = Reached \cup Ids(rows)
    BY <1>1, PageReaches
  <2> QED BY <2>8, <2>9
<1> QED BY <1>6, <1>8, <1>9

\* The render leaves what the page waits for alone, or ends it.
LEMMA WaitsCommitted ==
  ASSUME NEW v, Waits(v), NEW b, NEW before, NEW after, Committed(view', v, b, before, after)
  PROVE  Waits(view')
BY DEF Committed, Waits

\* What the page is waiting for, and when it is calm.
Quiet == Waits(view) /\ Calm /\ view.seen = LastId(Shown(view, win))

\* After the render the page has seen the last entry there is.
LEMMA SeenCommitted ==
  ASSUME NEW v, NEW b, NEW before, Committed(view', v, b, before, Shown(v, win'))
  PROVE  view'.seen = LastId(Shown(view', win'))
<1>1. view'.seen = LastId(Shown(v, win')) /\ view'.conv = v.conv
  BY DEF Committed
<1> QED BY <1>1 DEF Shown

\* Every step keeps it.
LEMMA QuietNext ==
  ASSUME Inv, Quiet, [Next]_vars
  PROVE  Quiet'
<1>1. Waits(view) /\ Calm /\ view.seen = LastId(Shown(view, win))
  BY DEF Quiet
<1>2. CASE Still
  <2>1. win' = win /\ Waits(view') /\ view'.seen = LastId(Shown(view', win'))
    BY <1>1, <1>2 DEF Still
  <2> QED BY <1>1, <1>2, <2>1, CalmStill DEF Quiet
<1>3. CASE \E m : Grown(m)
  <2>1. PICK m : Grown(m)
    BY <1>3
  <2>2. Committed(view', view, TRUE, Shown(view, win), Shown(view, win'))
    BY <2>1 DEF Grown
  <2> QED BY <1>1, <2>1, <2>2, CalmGrown, WaitsCommitted, SeenCommitted DEF Quiet
<1>4. CASE \E m, at : EchoOf(m) /\ EchoTakes(m, at) /\ KeepsCalm
  <2>1. PICK m, at : EchoOf(m) /\ EchoTakes(m, at) /\ KeepsCalm
    BY <1>4
  <2>2. Committed(view', view, FALSE, Shown(view, win), Shown(view, win'))
    BY <2>1 DEF EchoTakes
  <2> QED BY <1>1, <2>1, <2>2, CalmEcho, WaitsCommitted, SeenCommitted DEF Quiet
<1>5. CASE \E id : Removes(id) /\ KeepsCalm /\ (id > 0 \/ id = Card)
  <2>1. PICK id : Removes(id) /\ KeepsCalm
    BY <1>5
  <2>2. Committed(view', view, FALSE, Shown(view, win), Shown(view, win'))
    BY <2>1 DEF Removes
  <2> QED BY <1>1, <2>1, <2>2, CalmRemoves, WaitsCommitted, SeenCommitted DEF Quiet
<1>6. CASE FirstComes
  <2>1. PICK b : Committed(view', view, b, Shown(view, win), Shown(view, win'))
    BY <1>6 DEF FirstComes
  <2> QED BY <1>1, <1>6, <2>1, CalmFirst, WaitsCommitted, SeenCommitted DEF Quiet
<1>7. CASE \E request, size, k, rows, fr, v, skipped :
             PageComes(request, size, k, rows, fr, v, skipped)
  <2>1. PICK request, size, k, rows, fr, v, skipped :
          PageComes(request, size, k, rows, fr, v, skipped)
    BY <1>7
  <2>2. PICK b : Committed(view', v, b, Shown(v, win), Shown(v, win'))
    BY <2>1 DEF PageComes
  <2>3. Waits(v)
    <3>1. view \in Views /\ (v = view \/ v = NoMore(view))
      BY <2>1 DEF PageComes, Inv, Types
    <3>2. LET n == NoMore(view) IN ~n.loading /\ ~n.error
      BY <3>1, NoMoreIs
    <3> QED BY <1>1, <3>1, <3>2 DEF Waits
  <2>4. Calm'
    BY <1>1, <2>1, CalmPage
  <2> QED BY <2>2, <2>3, <2>4, WaitsCommitted, SeenCommitted DEF Quiet
<1> QED BY <1>1, <1>2, <1>3, <1>4, <1>5, <1>6, <1>7, StepKinds

\* It holds at the start.
LEMMA QuietInit ==
  ASSUME Init
  PROVE  Quiet
<1>1. /\ win = <<>> /\ asked = <<>>
      /\ view = [conv |-> "public", loading |-> FALSE, error |-> FALSE, more |-> TRUE,
                 restore |-> FALSE, first |-> None, auto |-> TRUE, badge |-> 0,
                 seen |-> None, all |-> FALSE]
  BY DEF Init
<1>2. Waits(view) /\ view.more /\ view.seen = LastId(Shown(view, win))
  BY <1>1 DEF Waits, LastId, Shown
<1>3. QueueCalm(asked, win, view.loading)
  <2>1. asked \in Seq(Int) /\ ~Pending(asked)
    BY <1>1 DEF Pending, ToSet
  <2> QED BY <2>1, QuietCalm
<1>4. Sorted(win)
  BY <1>1 DEF Sorted
<1> QED BY <1>2, <1>3, <1>4 DEF Quiet, Calm

\* What is older than the first entry has been reached.
LEMMA QuietReaches ==
  ASSUME Inv, Quiet
  PROVE  BeginningReached
<1> SUFFICES ASSUME ~view.more, calm, NEW r \in 1..stored, Older(r)
             PROVE  r \in lost \cup gone
  BY DEF BeginningReached
<1>1. Down(Reached)
  BY DEF Quiet, Calm
<1>2. win \in Seq(Entry) /\ win # <<>> /\ stored \in Nat /\ \A i \in 1..Len(win) : 2 * r < win[i].time
  BY Ranges DEF Older
<1>3. 1 \in 1..Len(win)
  BY <1>2
<1>4. KnownEntry(win[1], stored, Reached) /\ win[1].id \in Ids(win)
  BY <1>3, RowTimes DEF Inv, Window, WindowOK, Known
<1>5. r \in Reached
  <2>1. CASE win[1].id \in 1..stored /\ win[1].time = 2 * win[1].id
    <3>1. win[1].id \in Reached
      BY <1>4, <2>1 DEF Reached, Positive
    <3>2. r \in 1..win[1].id
      BY <1>2, <1>3, <2>1
    <3> QED BY <1>1, <3>1, <3>2 DEF Down
  <2>2. CASE \E k \in 0..stored : win[1].time = 2 * k + 1 /\ (k = 0 \/ k \in Reached)
    <3>1. PICK k \in 0..stored : win[1].time = 2 * k + 1 /\ (k = 0 \/ k \in Reached)
      BY <2>2
    <3>2. r \in 1..k
      BY <1>2, <1>3, <3>1
    <3> QED BY <1>1, <3>1, <3>2 DEF Down
  <2> QED BY <1>4, <2>1, <2>2 DEF KnownEntry
<1>6. r \notin Ids(win)
  <2> SUFFICES ASSUME NEW i \in 1..Len(win), win[i].id = r
               PROVE  FALSE
    BY <1>2, IdsOf
  <2>1. win[i].time = 2 * r
    BY RowTimes
  <2> QED BY <1>2, <2>1
<1> QED BY <1>5, <1>6 DEF Reached, Positive

\* When the page has stopped asking for older messages it has reached the first row,
\* whatever the page sizes and caps, as long as no load was given up before its answer
\* and no join came later (useWebSocket.ts 206-261, MessageTranscript.tsx 170-206).
THEOREM BeginningIsReached == Spec => []BeginningReached
<1>1. Init => Quiet
  BY QuietInit
<1>2. Inv /\ Quiet /\ [Next]_vars => Quiet'
  BY QuietNext
<1>3. Inv /\ Quiet => BeginningReached
  BY QuietReaches
<1> QED BY <1>1, <1>2, <1>3, InvHolds, PTL DEF Spec

(***************************************************************************)
(* The scroll position                                                     *)
(***************************************************************************)

\* The position is kept for the entry that was the first one, or for the user's own,
\* which its echo has replaced since.
AnchorInv ==
  /\ view.restore => /\ view.conv = "public" /\ view.first # None
                     /\ view.first = Own \/ view.first = FirstId(win)
  /\ ~loaded => ~view.restore

\* What Anchored says of a step.
AnchorStep ==
  view.first # Own =>
    /\ view.restore /\ OlderCame /\ view'.conv = view.conv /\ view'.more
         => Restored /\ ~view'.loading
    /\ Restored => OlderCame \/ view.first \notin Ids(win')

\* The first entry is one of the window.
LEMMA FirstIn ==
  ASSUME NEW w \in Seq(Entry), w # <<>>
  PROVE  FirstId(w) \in Ids(w) /\ FirstId(w) = w[1].id /\ FirstId(w) \in Int
<1>1. 1 \in 1..Len(w)
  OBVIOUS
<1>2. w[1] \in Entry /\ w[1].id \in Ids(w)
  BY <1>1, IdsOf
<1> QED BY <1>2 DEF FirstId, Entry

\* The layout effect runs when the revision or the number of entries has changed, and
\* otherwise the first entry is still the same, or was the user's own.
LEMMA AnchorCommitted ==
  ASSUME Inv, AnchorInv, win' \in Seq(Entry), NEW b,
         Committed(view', view, b, Shown(view, win), Shown(view, win')),
         loaded' = loaded \/ (loaded' /\ ~loaded),
         \/ b \/ Len(win) # Len(win')
         \/ FirstId(win') = FirstId(win) \/ FirstId(win) = Own,
         \/ b \/ Len(win) # Len(win')
         \/ win' = <<>> \/ FirstId(win') \in Ids(win) \/ FirstId(win) = Own,
         (b \/ Len(win) # Len(win')) /\ FirstId(win') # FirstId(win)
           => OlderCame \/ FirstId(win) \notin Ids(win')
  PROVE  AnchorInv' /\ AnchorStep
<1>1. win \in Seq(Entry) /\ (OlderCame => win' # win)
  BY Ranges, FirstIn DEF OlderCame
<1>2. /\ view'.conv = view.conv /\ view'.error = view.error /\ view'.more = view.more
      /\ (Restores(view, b, Shown(view, win), Shown(view, win')) => ~view'.restore /\ ~view'.loading)
      /\ (~Restores(view, b, Shown(view, win), Shown(view, win')) =>
            view'.restore = view.restore /\ view'.first = view.first)
  BY DEF Committed
<1>3. CASE ~view.restore
  <2>1. ~view'.restore
    BY <1>2, <1>3 DEF Restores
  <2> QED BY <1>3, <2>1 DEF AnchorInv, AnchorStep, Restored
<1>4. CASE view.restore
  <2>1. /\ view.conv = "public" /\ view.first # None /\ loaded
        /\ (view.first = Own \/ view.first = FirstId(win))
    BY <1>4 DEF AnchorInv
  <2>2. Shown(view, win) = win /\ Shown(view, win') = win' /\ loaded'
    BY <2>1 DEF Shown
  <2>3. CASE Restores(view, b, win, win')
    <3>1. FirstId(win') # view.first
      BY <2>1, <2>3 DEF Restores
    <3>2. ~view'.restore /\ ~view'.loading
      BY <1>2, <2>2, <2>3
    <3>3. view.first # Own => OlderCame \/ view.first \notin Ids(win')
      BY <2>1, <2>3, <3>1 DEF Restores
    <3>4. OlderCame /\ view'.conv = view.conv /\ view'.more => Restored
      BY <1>1, <1>4, <3>2 DEF Restored
    <3> QED BY <2>2, <3>2, <3>3, <3>4 DEF AnchorInv, AnchorStep
  <2>4. CASE ~Restores(view, b, win, win')
    <3>1. view'.restore /\ view'.first = view.first
      BY <1>2, <1>4, <2>2, <2>4
    <3>2. (~b /\ Len(win) = Len(win')) \/ FirstId(win') = view.first
      BY <1>4, <2>4 DEF Restores
    <3>3. view'.first = Own \/ view'.first = FirstId(win')
      BY <2>1, <3>1, <3>2
    <3>4. ASSUME view.first # Own, OlderCame
          PROVE  FALSE
      <4>1. view.first = FirstId(win) /\ win # <<>>
        BY <1>1, <2>1, <3>4 DEF FirstId, OlderCame
      <4>2. FirstId(win) \in Ids(win)
        BY <1>1, <4>1, FirstIn
      <4> QED BY <3>2, <3>4, <4>1, <4>2 DEF OlderCame
    <3>5. AnchorInv'
      <4>1. view'.conv = "public" /\ view'.first # None
        BY <1>2, <2>1, <3>1
      <4>2. view'.first = Own \/ view'.first = FirstId(win)'
        BY <3>3 DEF FirstId
      <4> QED BY <2>2, <4>1, <4>2 DEF AnchorInv
    <3> QED BY <3>1, <3>4, <3>5 DEF AnchorStep, Restored
  <2> QED BY <2>2, <2>3, <2>4
<1> QED BY <1>3, <1>4

\* The anchor is good while the window stands still,
LEMMA AnchorStill ==
  ASSUME Inv, AnchorInv, Still
  PROVE  AnchorInv' /\ AnchorStep
<1>1. /\ win' = win /\ loaded' = loaded /\ win \in Seq(Entry)
      /\ view'.restore =>
          \/ view.restore /\ view'.first = view.first /\ view'.conv = view.conv
          \/ view'.first = FirstId(win) /\ view'.first \in Int /\ view'.conv = "public" /\ win # <<>>
      /\ (view.restore /\ ~view'.restore => view'.conv # view.conv \/ view'.error)
  BY Ranges DEF Still
<1>2. None \notin Int
  BY TranscriptAssumption
<1>3. ~loaded => win = <<>>
  BY DEF Inv, Stages
<1>4. FirstId(win)' = FirstId(win)
  BY <1>1 DEF FirstId
<1>5. AnchorInv'
  BY <1>1, <1>2, <1>3, <1>4 DEF AnchorInv
<1>6. ~OlderCame /\ ~Restored
  BY <1>1, FirstIn DEF OlderCame, Restored
<1> QED BY <1>5, <1>6 DEF AnchorStep

\* with a new entry: a cap never leaves that one alone,
LEMMA AnchorGrown ==
  ASSUME Inv, AnchorInv, NEW m, Grown(m)
  PROVE  AnchorInv' /\ AnchorStep
<1> DEFINE always == TRUE
<1>1. /\ AtEnd(win', win, m) /\ loaded' = loaded
      /\ Committed(view', view, always, Shown(view, win), Shown(view, win'))
  BY DEF Grown
<1>2. win' \in Seq(Entry)
  BY <1>1 DEF AtEnd
<1>3. always
  OBVIOUS
<1> HIDE DEF always
<1>4. win \in Seq(Entry) /\ Distinct(win) /\ m.id \notin Ids(win)
  BY Ranges DEF Grown, Inv, Window, WindowOK
<1>5. FirstId(win') # FirstId(win) => FirstId(win) \notin Ids(win')
  <2>1. PICK cut \in 0..Len(win) :
          /\ Len(win') = Len(win) - cut + 1
          /\ \A i \in 1..(Len(win) - cut) : win'[i] = win[i + cut]
          /\ win'[Len(win')] = m
    BY <1>1 DEF AtEnd
  <2>2. CASE win = <<>>
    <3>1. FirstId(win) = None /\ None \notin Int
      BY <2>2, TranscriptAssumption DEF FirstId
    <3>2. \A i \in 1..Len(win') : win'[i] \in Entry
      BY <1>2, IdsOf
    <3>3. \A i \in 1..Len(win') : win'[i].id \in Int
      BY <3>2 DEF Entry
    <3>4. Ids(win') = {win'[i].id : i \in 1..Len(win')}
      BY <1>2, IdsOf
    <3> QED BY <3>1, <3>3, <3>4
  <2>3. CASE win # <<>>
    <3>1. 1 \in 1..Len(win) /\ Len(win') # 0 /\ FirstId(win) = win[1].id /\ FirstId(win') = win'[1].id
      BY <1>2, <1>4, <2>1, <2>3 DEF FirstId
    <3>2. CASE cut = 0
      <4>1. win'[1] = win[1]
        BY <1>4, <2>1, <3>1, <3>2
      <4> QED BY <3>1, <4>1
    <3>3. CASE cut # 0
      <4>1. ASSUME NEW j \in 1..Len(win'), win'[j].id = win[1].id
            PROVE  FALSE
        <5>1. CASE j = Len(win')
          BY <1>4, <2>1, <3>1, <4>1, <5>1, IdsOf
        <5>2. CASE j # Len(win')
          <6>1. j \in 1..(Len(win) - cut) /\ j + cut \in 1..Len(win) /\ j + cut # 1
            <7>1. Len(win) \in Nat /\ cut \in 0..Len(win) /\ Len(win') = Len(win) - cut + 1
              BY <1>4, <2>1
            <7>2. j \in 1..(Len(win) - cut + 1) /\ j # Len(win) - cut + 1
              BY <5>2, <7>1
            <7> QED BY <3>3, <7>1, <7>2
          <6>2. win[j + cut].id = win[1].id
            BY <2>1, <4>1, <6>1
          <6> QED BY <1>4, <3>1, <6>1, <6>2 DEF Distinct
        <5> QED BY <5>1, <5>2
      <4> QED BY <1>2, <3>1, <4>1, IdsOf
    <3> QED BY <3>2, <3>3
  <2> QED BY <2>2, <2>3
<1> QED BY <1>1, <1>2, <1>3, <1>5, AnchorCommitted

\* with an echo,
LEMMA AnchorEcho ==
  ASSUME Inv, AnchorInv, NEW m, EchoOf(m), NEW at, EchoTakes(m, at)
  PROVE  AnchorInv' /\ AnchorStep
<1> DEFINE never == FALSE
<1>1. /\ at \in 1..Len(win) /\ win[at].id = Own /\ Len(win') = Len(win)
      /\ \A i \in 1..Len(win) : i # at => win'[i] = win[i]
      /\ Committed(view', view, never, Shown(view, win), Shown(view, win'))
      /\ loaded' = loaded /\ win' \in Seq(Entry) /\ win \in Seq(Entry)
  BY Ranges DEF EchoTakes, EchoOf
<1>2. ~never
  OBVIOUS
<1> HIDE DEF never
<1>3. win # <<>> /\ win' # <<>>
  BY <1>1
<1>4. FirstId(win) = win[1].id /\ FirstId(win') = win'[1].id /\ FirstId(win) \in Ids(win)
  BY <1>1, <1>3, FirstIn
<1>5. 1 \in 1..Len(win)
  BY <1>1, <1>3
<1>6. FirstId(win) = Own \/ FirstId(win') = FirstId(win)
  BY <1>1, <1>4, <1>5
<1> QED BY <1>1, <1>4, <1>6, <1>2, AnchorCommitted

\* a removal,
LEMMA AnchorRemoves ==
  ASSUME Inv, AnchorInv, NEW id, Removes(id)
  PROVE  AnchorInv' /\ AnchorStep
<1> DEFINE never == FALSE
<1>1. /\ id \in Ids(win) /\ UNCHANGED socket /\ win' = DeleteMessage(win, id) /\ win' \in Seq(Entry)
      /\ Committed(view', view, never, Shown(view, win), Shown(view, win'))
  BY DEF Removes
<1> HIDE DEF never
<1>2. win \in Seq(Entry)
  BY Ranges
<1>3. Len(win') < Len(win) /\ Len(win') \in Nat /\ Len(win) \in Nat
  BY <1>1, <1>2, DeleteEnds
<1>4. loaded' = loaded /\ Len(win) # Len(win')
  BY <1>1, <1>3 DEF socket
<1>5. FirstId(win') # FirstId(win) => FirstId(win) \notin Ids(win')
  <2>1. win # <<>> /\ FirstId(win) = win[1].id
    BY <1>2, <1>3 DEF FirstId
  <2>2. Ids(win') = Ids(win) \ {id} /\ (win[1].id # id => win' # <<>> /\ win'[1] = win[1])
    BY <1>1, <1>2, <2>1, DeleteEnds
  <2> QED BY <2>1, <2>2 DEF FirstId
<1> QED BY <1>1, <1>4, <1>5, AnchorCommitted

\* a first history,
LEMMA AnchorFirst ==
  ASSUME Inv, AnchorInv, FirstComes
  PROVE  AnchorInv' /\ AnchorStep
<1>1. ~view.restore /\ loaded'
  BY DEF FirstComes, AnchorInv
<1>2. PICK b : Committed(view', view, b, Shown(view, win), Shown(view, win'))
  BY DEF FirstComes
<1>3. ~view'.restore
  BY <1>1, <1>2 DEF Committed, Restores
<1> QED BY <1>1, <1>3 DEF AnchorInv, AnchorStep, Restored

\* and a page: its rows change the first entry.
LEMMA AnchorPage ==
  ASSUME Inv, AnchorInv, NEW request, NEW size, NEW k, NEW rows, NEW fr, NEW v, NEW skipped,
         PageComes(request, size, k, rows, fr, v, skipped)
  PROVE  AnchorInv' /\ AnchorStep
<1>1. /\ loaded' = loaded /\ loaded /\ InFront(win', fr, win) /\ view \in Views
      /\ (v = NoMore(view) \/ (v = view /\ fr # <<>>)) /\ Ids(fr) \cap Ids(win) = {}
      /\ (\/ fr # <<>> /\ Committed(view', v, TRUE, Shown(v, win), Shown(v, win'))
          \/ fr = <<>> /\ Committed(view', v, FALSE, Shown(v, win), Shown(v, win')))
  BY DEF PageComes, Inv, Types
<1>2. win' \in Seq(Entry)
  BY <1>1 DEF InFront
<1>3. CASE v = NoMore(view)
  <2>1. ~v.more /\ ~v.restore /\ ~v.loading
    BY <1>1, <1>3, NoMoreIs
  <2>2. ~view'.more /\ ~view'.restore /\ ~view'.loading
    BY <1>1, <2>1 DEF Committed, Restores
  <2> QED BY <1>1, <2>2 DEF AnchorInv, AnchorStep, Restored
<1>4. CASE v = view /\ fr # <<>>
  <2> DEFINE always == TRUE
  <2>1. Committed(view', view, always, Shown(view, win), Shown(view, win')) /\ always
    BY <1>1, <1>4
  <2> HIDE DEF always
  <2>2. OlderCame
    <3>1. 1 \in 1..Len(fr) /\ win' # <<>> /\ win'[1] = fr[1] /\ fr[1].id \in Ids(fr)
      BY <1>1, <1>2, <1>4, IdsOf DEF InFront, PageComes, IsPage
    <3> QED BY <1>1, <3>1 DEF OlderCame, FirstId
  <2> QED BY <1>1, <1>2, <2>1, <2>2, AnchorCommitted
<1> QED BY <1>1, <1>3, <1>4

\* Every step keeps it and is as Anchored says.
LEMMA AnchorNext ==
  ASSUME Inv, Quiet, AnchorInv, [Next]_vars
  PROVE  AnchorInv' /\ AnchorStep
<1>1. view.seen = LastId(Shown(view, win))
  BY DEF Quiet
<1> QED BY <1>1, StepKinds, AnchorStill, AnchorGrown, AnchorEcho, AnchorRemoves, AnchorFirst, AnchorPage

\* No position is kept at the start.
LEMMA AnchorInit ==
  ASSUME Init
  PROVE  AnchorInv
<1>1. ~view.restore
  BY DEF Init
<1> QED BY <1>1 DEF AnchorInv

\* The position is restored when older messages come that are not the last, and by no
\* live message, echo or cap at the other end, whatever the page sizes and caps (the
\* layout effect, MessageTranscript.tsx 208-229).
THEOREM PositionIsKept == Spec => Anchored
<1>1. Init => Quiet /\ AnchorInv
  BY QuietInit, AnchorInit
<1>2. Inv /\ Quiet /\ AnchorInv /\ [Next]_vars => Quiet' /\ AnchorInv'
  BY QuietNext, AnchorNext
<1>3. Inv /\ Quiet /\ AnchorInv /\ [Next]_vars => AnchorStep
  BY AnchorNext
<1>4. AnchorStep =>
        [view.first # Own =>
           /\ view.restore /\ OlderCame /\ view'.conv = view.conv /\ view'.more
                => Restored /\ ~view'.loading
           /\ Restored => OlderCame \/ view.first \notin Ids(win')]_vars
  BY DEF AnchorStep
<1> QED BY <1>1, <1>2, <1>3, <1>4, InvHolds, PTL DEF Spec, Anchored

(***************************************************************************)
(* The badge                                                               *)
(***************************************************************************)

\* While nothing was taken away the badge is exact and the window not empty.
BadgeInv ==
  /\ view.badge <= unseen
  /\ gone = {} /\ cards = 0 => view.badge = unseen
  /\ loaded /\ gone = {} /\ cards = 0 => win # <<>>
  /\ Card \in Ids(win) => cards = 1
  /\ view.auto \/ view.conv = "private" => view.badge = 0 /\ unseen = 0
  /\ ~loaded => view.badge = 0 /\ unseen = 0

\* Types of what the badge is about.
LEMMA BadgeTypes ==
  ASSUME Inv
  PROVE  /\ view.badge \in Nat /\ unseen \in Nat /\ view.conv \in {"public", "private"}
         /\ view \in Views /\ win \in Seq(Entry) /\ (view.auto \in BOOLEAN)
BY Ranges DEF Inv, Types, Views

\* The last entry is one of the window.
LEMMA LastIn ==
  ASSUME NEW w \in Seq(Entry), w # <<>>
  PROVE  /\ LastId(w) = w[Len(w)].id /\ Len(w) \in 1..Len(w) /\ Len(w) \in Nat
         /\ LastId(w) \in Ids(w) /\ LastId(w) # None
<1>1. Len(w) \in 1..Len(w) /\ Len(w) \in Nat
  OBVIOUS
<1>2. w[Len(w)] \in Entry /\ w[Len(w)].id \in Ids(w)
  BY <1>1, IdsOf
<1>3. w[Len(w)].id \in Int
  BY <1>2 DEF Entry
<1> QED BY <1>1, <1>2, <1>3, TranscriptAssumption DEF LastId, Last

\* Nothing is counted in the private thread, at the bottom, or when the last entry
\* the user has seen is the last one still, or gone.
LEMMA NotCounted ==
  ASSUME Inv, Quiet, NEW v, v.conv = view.conv, v.auto = view.auto, v.badge = view.badge,
         v.seen = view.seen, NEW b, NEW before, Committed(view', v, b, before, Shown(v, win')),
         win = <<>> \/ LastId(win') = LastId(win) \/ LastId(win) \notin Ids(win')
         \/ view.auto \/ view.conv = "private"
  PROVE  view'.badge = view.badge
<1>1. v.seen = None \/ v.auto \/ v.seen = LastId(Shown(v, win')) \/ v.seen \notin Ids(Shown(v, win'))
      => view'.badge = v.badge
  BY DEF Committed
<1>2. view.seen = LastId(Shown(view, win))
  BY DEF Quiet
<1>3. CASE view.conv = "private"
  <2>1. Shown(v, win') = Shown(view, win)
    BY <1>3 DEF Shown
  <2> QED BY <1>1, <1>2, <2>1
<1>4. CASE view.conv # "private"
  <2>1. view.conv = "public"
    BY <1>4, BadgeTypes
  <2>2. Shown(view, win) = win /\ Shown(v, win') = win'
    BY <2>1 DEF Shown
  <2>3. win = <<>> => view.seen = None
    BY <1>2, <2>2 DEF LastId
  <2> QED BY <1>1, <1>2, <1>4, <2>2, <2>3
<1> QED BY <1>3, <1>4

\* The badge is right while the window stands still,
LEMMA BadgeStill ==
  ASSUME Inv, BadgeInv, Still
  PROVE  BadgeInv'
<1>1. /\ UNCHANGED <<gone, loaded, win, cards>>
      /\ \/ /\ view'.badge = view.badge /\ unseen' = unseen /\ view'.conv = view.conv
            /\ (view'.auto => view.auto)
         \/ view'.badge = 0 /\ unseen' = 0
  BY DEF Still
<1>2. Ids(win)' = Ids(win)
  BY <1>1 DEF Ids
<1> QED BY <1>1, <1>2 DEF BadgeInv

\* The badge and what it should count stay as they are.
LEMMA BadgeSame ==
  ASSUME Inv, BadgeInv, view'.badge = view.badge, unseen' = unseen, view'.conv = view.conv,
         view'.auto = view.auto, gone \subseteq gone', cards' = cards \/ cards' = 1, loaded' \/ ~loaded,
         Card \in Ids(win') => cards' = 1,
         loaded' /\ gone' = {} /\ cards' = 0 => win' # <<>>
  PROVE  BadgeInv'
<1>1. Ids(win)' = Ids(win')
  BY DEF Ids
<1>2. cards \in {0, 1}
  BY DEF Inv, Types
<1>3. gone' = {} /\ cards' = 0 => gone = {} /\ cards = 0
  BY <1>2
<1> QED BY <1>1, <1>3 DEF BadgeInv

\* with a new entry: it is the only one after the last one seen,
LEMMA BadgeGrown ==
  ASSUME Inv, Inv', Quiet, BadgeInv, NEW m, Grown(m)
  PROVE  BadgeInv'
<1>1. /\ loaded /\ loaded' = loaded /\ gone' = gone /\ m \in Entry /\ m.id \notin Ids(win)
      /\ AtEnd(win', win, m) /\ Ids(win') \subseteq Ids(win) \cup {m.id}
      /\ (\/ m.id = Card /\ cards' = 1
          \/ m.id # Card /\ cards' = cards)
      /\ unseen' = (IF ~view.auto /\ view.conv = "public" THEN unseen + 1 ELSE unseen)
      /\ Committed(view', view, TRUE, Shown(view, win), Shown(view, win'))
  BY DEF Grown
<1>2. PICK cut \in 0..Len(win) :
        /\ win' \in Seq(Entry) /\ Len(win') = Len(win) - cut + 1
        /\ \A i \in 1..(Len(win) - cut) : win'[i] = win[i + cut]
        /\ win'[Len(win')] = m
        /\ cut > 0 => Len(win') = MessageCap
  BY <1>1 DEF AtEnd
<1>3. win \in Seq(Entry) /\ Len(win) \in Nat /\ Len(win') \in Nat /\ Len(win') >= 1 /\ win' # <<>>
  <2>1. win \in Seq(Entry) /\ Len(win) \in Nat
    BY Ranges
  <2>2. Len(win') \in Nat /\ Len(win') >= 1
    BY <1>2, <2>1
  <2> QED BY <2>1, <2>2
<1>4. view'.conv = view.conv /\ view'.auto = view.auto
  BY <1>1 DEF Committed
<1>5. Card \in Ids(win') => cards' = 1
  BY <1>1 DEF BadgeInv
<1>6. view.badge \in Nat /\ unseen \in Nat /\ view.conv \in {"public", "private"}
  BY BadgeTypes
<1>7. Ids(win)' = Ids(win')
  BY DEF Ids
<1>8. CASE view.auto \/ view.conv # "public"
  <2>1. view'.badge = view.badge
    BY <1>1, <1>6, <1>8, NotCounted
  <2>2. unseen' = unseen
    BY <1>1, <1>8
  <2>3. cards' = cards \/ cards' = 1
    BY <1>1
  <2> QED BY <1>1, <1>3, <1>4, <1>5, <2>1, <2>2, <2>3, BadgeSame
<1>9. CASE ~view.auto /\ view.conv = "public" /\ win = <<>>
  <2>1. view'.badge = view.badge
    BY <1>1, <1>9, NotCounted
  <2>2. ~(gone' = {} /\ cards' = 0)
    BY <1>1, <1>9 DEF BadgeInv, Card
  <2>3. unseen' = unseen + 1
    BY <1>1, <1>9
  <2> QED BY <1>1, <1>3, <1>4, <1>5, <1>6, <1>7, <1>9, <2>1, <2>2, <2>3 DEF BadgeInv
<1>10. CASE ~view.auto /\ view.conv = "public" /\ win # <<>>
  <2> DEFINE n == Len(win') - 1
             l == Len(win)
  <2>1. l \in Nat /\ l >= 1 /\ cut \in Nat /\ cut <= l
    BY <1>2, <1>3, <1>10
  <2>2. cut < l
    <3> SUFFICES ASSUME cut = l
                 PROVE  FALSE
      BY <2>1
    <3>1. Len(win') = 1 /\ cut > 0
      BY <1>2, <2>1
    <3> QED BY <1>2, <3>1, TranscriptAssumption
  <2>3. n \in 1..(l - cut) /\ n + cut = l /\ n \in 1..Len(win') /\ n # Len(win') /\ Len(win') - n = 1
    BY <1>2, <1>3, <2>1, <2>2
  <2> HIDE DEF n, l
  <2>4. win'[n] = win[Len(win)]
    <3>1. win'[n] = win[n + cut]
      BY <1>2, <2>3 DEF l
    <3> QED BY <2>3, <3>1 DEF l
  <2>5. view.seen = LastId(win) /\ Shown(view, win') = win' /\ Shown(view, win) = win
    BY <1>10 DEF Quiet, Shown
  <2>6. view.seen = win'[n].id /\ view.seen # None
    BY <1>3, <1>10, <2>4, <2>5, LastIn
  <2>7. \A j \in 1..Len(win') : win'[j].id = view.seen => j = n
    <3>1. Distinct(win')
      BY DEF Inv, Window, WindowOK
    <3> QED BY <2>3, <2>6, <3>1 DEF Distinct
  <2>8. view'.badge = view.badge + Len(win') - n
    BY <1>1, <1>10, <2>3, <2>5, <2>6, <2>7 DEF Committed
  <2>9. view'.badge = view.badge + 1
    BY <1>3, <1>6, <2>3, <2>8
  <2>10. unseen' = unseen + 1
    BY <1>1, <1>10
  <2>11. gone' = {} /\ cards' = 0 => gone = {} /\ cards = 0
    BY <1>1
  <2> QED BY <1>1, <1>3, <1>4, <1>5, <1>6, <1>7, <1>10, <2>9, <2>10, <2>11 DEF BadgeInv
<1> QED BY <1>8, <1>9, <1>10

\* with an echo in the place of its entry,
LEMMA BadgeEcho ==
  ASSUME Inv, Quiet, BadgeInv, NEW m, EchoOf(m), NEW at, EchoTakes(m, at)
  PROVE  BadgeInv'
<1>1. /\ at \in 1..Len(win) /\ win[at].id = Own /\ Len(win') = Len(win) /\ win'[at] = m
      /\ \A i \in 1..Len(win) : i # at => win'[i] = win[i]
      /\ unseen' = unseen
      /\ Committed(view', view, FALSE, Shown(view, win), Shown(view, win'))
      /\ UNCHANGED <<gone, loaded, bounds>> /\ win' \in Seq(Entry) /\ win \in Seq(Entry)
  BY Ranges DEF EchoTakes, EchoOf
<1>2. Ids(win') = (Ids(win) \ {Own}) \cup {stored + 1} /\ stored \in Nat
  BY EchoTakesIds, Ranges
<1>3. win # <<>> /\ win' # <<>>
  BY <1>1
<1>4. LastId(win) = win[Len(win)].id /\ LastId(win') = win'[Len(win)].id /\ Len(win) \in 1..Len(win)
  BY <1>1, <1>3, LastIn
<1>5. LastId(win') = LastId(win) \/ LastId(win) \notin Ids(win')
  <2>1. CASE at = Len(win)
    BY <1>1, <1>2, <1>4, <2>1 DEF Own
  <2>2. CASE at # Len(win)
    BY <1>1, <1>4, <2>2
  <2> QED BY <2>1, <2>2
<1>6. view'.badge = view.badge
  BY <1>1, <1>5, NotCounted
<1>7. view'.conv = view.conv /\ view'.auto = view.auto
  BY <1>1 DEF Committed
<1>8. Card \in Ids(win') => cards' = 1
  BY <1>1, <1>2 DEF BadgeInv, Card, bounds
<1>9. cards' = cards /\ gone' = gone /\ loaded' = loaded
  BY <1>1 DEF bounds
<1> QED BY <1>1, <1>3, <1>6, <1>7, <1>8, <1>9, BadgeSame

\* a removal: if the last entry seen goes, nothing is counted,
LEMMA BadgeRemoves ==
  ASSUME Inv, Quiet, BadgeInv, NEW id, Removes(id), id > 0 \/ id = Card
  PROVE  BadgeInv'
<1>1. /\ loaded /\ id \in Ids(win) /\ id \in Int
      /\ UNCHANGED <<stored, socket, timers, bounds, unseen>> /\ gone' = gone \cup Positive({id})
      /\ win' = DeleteMessage(win, id) /\ win' \in Seq(Entry)
      /\ Committed(view', view, FALSE, Shown(view, win), Shown(view, win'))
  BY DEF Removes
<1>2. win \in Seq(Entry)
  BY Ranges
<1>3. /\ Ids(win') = Ids(win) \ {id}
      /\ (win # <<>> /\ Last(win).id # id => win' # <<>> /\ Last(win') = Last(win))
  BY <1>1, <1>2, DeleteEnds
<1>4. win = <<>> \/ LastId(win') = LastId(win) \/ LastId(win) \notin Ids(win')
  BY <1>3 DEF LastId
<1>5. view'.badge = view.badge
  BY <1>1, <1>4, NotCounted
<1>6. view'.conv = view.conv /\ view'.auto = view.auto
  BY <1>1 DEF Committed
<1>7. cards' = cards /\ loaded' = loaded /\ unseen' = unseen
  BY <1>1 DEF bounds, socket
<1>8. Card \in Ids(win') => cards' = 1
  BY <1>3, <1>7 DEF BadgeInv
<1>9. ~(gone' = {} /\ cards' = 0)
  <2>1. CASE id > 0
    <3>1. id \in gone'
      BY <1>1, <2>1 DEF Positive
    <3> QED BY <3>1
  <2>2. CASE id = Card
    BY <1>1, <1>7, <2>2 DEF BadgeInv
  <2> QED BY <2>1, <2>2
<1>10. gone \subseteq gone'
  BY <1>1
<1> QED BY <1>1, <1>5, <1>6, <1>7, <1>8, <1>9, <1>10, BadgeSame

\* the first history of a room that has a message,
LEMMA BadgeFirst ==
  ASSUME Inv, Quiet, BadgeInv, FirstComes, Rows # 0
  PROVE  BadgeInv'
<1>1. /\ ~loaded /\ loaded' /\ win = <<>> /\ gone = {} /\ cards = 0
      /\ UNCHANGED <<room, timers, bounds, unseen>>
      /\ Ids(win') \subseteq 1..stored /\ (stored > 0 => stored \in Ids(win'))
  BY DEF FirstComes
<1>2. PICK b : Committed(view', view, b, Shown(view, win), Shown(view, win'))
  BY DEF FirstComes
<1>3. view'.badge = view.badge
  BY <1>1, <1>2, NotCounted
<1>4. view'.conv = view.conv /\ view'.auto = view.auto
  BY <1>2 DEF Committed
<1>5. cards' = cards /\ gone' = gone /\ unseen' = unseen
  BY <1>1 DEF room, bounds
<1>6. stored > 0
  <2>1. stored \in Rows..Len(Author) /\ Rows \in 0..Len(Author) /\ Len(Author) \in Nat
    BY TranscriptAssumption DEF Inv, Types
  <2> QED BY <2>1, Rows # 0
<1>7. win' # <<>>
  BY <1>1, <1>6 DEF Ids
<1>8. Card \notin Ids(win')
  BY <1>1 DEF Card
<1> QED BY <1>1, <1>3, <1>4, <1>5, <1>7, <1>8, BadgeSame

\* and a page, even one that pushes the newest entries out.
LEMMA BadgePage ==
  ASSUME Inv, Quiet, BadgeInv,
         NEW request, NEW size, NEW k, NEW rows, NEW fr, NEW v, NEW skipped,
         PageComes(request, size, k, rows, fr, v, skipped)
  PROVE  BadgeInv'
<1> DEFINE f == Len(fr)
<1>1. /\ loaded /\ UNCHANGED <<room, online, loaded, timers, bounds, unseen>>
      /\ IsPage(fr) /\ Ids(fr) = Ids(rows) \ Ids(win) /\ InFront(win', fr, win)
      /\ (v = NoMore(view) \/ v = view) /\ view \in Views
  BY DEF PageComes, Inv, Types
<1>2. PICK b : Committed(view', v, b, Shown(v, win), Shown(v, win'))
  BY DEF PageComes
<1>3. v.conv = view.conv /\ v.auto = view.auto /\ v.badge = view.badge /\ v.seen = view.seen
  BY <1>1, NoMoreIs
<1>4. /\ fr \in Seq(Entry) /\ f \in Nat /\ win' \in Seq(Entry) /\ win \in Seq(Entry)
      /\ Len(win) \in Nat /\ Len(win') \in Nat
      /\ f <= Len(win') /\ Len(win') <= f + Len(win)
      /\ \A i \in 1..f : win'[i] = fr[i]
      /\ \A i \in 1..(Len(win') - f) : win'[f + i] = win[i]
      /\ (fr = <<>> => win' = win)
  <2>1. fr \in Seq(Entry) /\ win' \in Seq(Entry) /\ win \in Seq(Entry)
    BY <1>1, Ranges DEF IsPage, InFront
  <2>2. f \in Nat /\ Len(win) \in Nat /\ Len(win') \in Nat
    BY <2>1
  <2> QED BY <1>1, <2>1, <2>2 DEF InFront
<1>5. Ids(fr) = {fr[i].id : i \in 1..f}
  BY <1>4, IdsOf
<1>6. fr = <<>> <=> f = 0
  BY <1>4
<1> HIDE DEF f
<1>7. win = <<>> \/ LastId(win') = LastId(win) \/ LastId(win) \notin Ids(win')
  <2> SUFFICES ASSUME win # <<>>
               PROVE  LastId(win') = LastId(win) \/ LastId(win) \notin Ids(win')
    OBVIOUS
  <2>1. /\ LastId(win) = win[Len(win)].id /\ Len(win) \in 1..Len(win) /\ LastId(win) \in Ids(win)
    BY <1>4, LastIn
  <2>2. CASE Len(win') = f + Len(win)
    <3>1. Len(win') - f = Len(win) /\ Len(win') >= 1
      BY <1>4, <2>1, <2>2
    <3>2. win'[Len(win')] = win[Len(win)]
      BY <1>4, <2>1, <2>2, <3>1
    <3>3. win' # <<>>
      BY <1>4, <3>1
    <3>4. LastId(win') = win'[Len(win')].id
      BY <1>4, <3>3, LastIn
    <3> QED BY <2>1, <3>2, <3>4
  <2>3. CASE Len(win') < f + Len(win)
    <3> SUFFICES ASSUME NEW i \in 1..Len(win'), win'[i].id = LastId(win)
                 PROVE  FALSE
      BY SMTT(40), <1>4, IdsOf
    <3>1. CASE i \in 1..f
      <4>1. fr[i].id \in Ids(fr) /\ win'[i] = fr[i]
        BY <1>4, <1>5, <3>1
      <4> QED BY <1>1, <2>1, <4>1
    <3>2. CASE i \notin 1..f
      <4> DEFINE j == i - f
      <4>1. j \in 1..(Len(win') - f) /\ j \in 1..Len(win) /\ j < Len(win) /\ f + j = i
        BY <1>4, <2>3, <3>2
      <4> HIDE DEF j
      <4>2. win'[i] = win[j]
        BY <1>4, <4>1
      <4>3. Distinct(win)
        BY DEF Inv, Window, WindowOK
      <4>4. j = Len(win)
        BY <2>1, <4>1, <4>2, <4>3 DEF Distinct
      <4> QED BY <1>4, <4>1, <4>4
    <3> QED BY <3>1, <3>2
  <2> QED BY <1>4, <2>2, <2>3
<1>8. view'.badge = view.badge
  BY <1>2, <1>3, <1>7, NotCounted
<1>9. view'.conv = view.conv /\ view'.auto = view.auto
  BY <1>2, <1>3 DEF Committed
<1>10. cards' = cards /\ gone' = gone /\ unseen' = unseen /\ loaded' = loaded
  BY <1>1 DEF room, bounds
<1>11. Card \in Ids(win') => cards' = 1
  <2>1. Ids(win') \subseteq Ids(fr) \cup Ids(win) /\ Ids(rows) \subseteq 1..stored
    BY PageReaches
  <2>2. Card \notin Ids(fr)
    BY <1>1, <2>1 DEF Card
  <2> QED BY <1>10, <2>1, <2>2 DEF BadgeInv
<1>12. gone' = {} /\ cards' = 0 => win' # <<>>
  <2>1. CASE fr = <<>>
    BY <1>1, <1>4, <1>10, <2>1 DEF BadgeInv
  <2>2. CASE fr # <<>>
    <3>1. Len(win') >= 1
      BY <1>4, <1>6, <2>2
    <3> QED BY <1>4, <3>1
  <2> QED BY <2>1, <2>2
<1> QED BY <1>1, <1>8, <1>9, <1>10, <1>11, <1>12, BadgeSame

\* Every step keeps it right.
LEMMA BadgeNext ==
  ASSUME Inv, Inv', Quiet, BadgeInv, Rows # 0, [Next]_vars
  PROVE  BadgeInv'
<1>1. view.seen = LastId(Shown(view, win))
  BY DEF Quiet
<1> QED BY <1>1, Rows # 0, StepKinds, BadgeStill, BadgeGrown, BadgeEcho, BadgeRemoves, BadgeFirst, BadgePage

\* At the start there is none.
LEMMA BadgeInit ==
  ASSUME Init
  PROVE  BadgeInv
<1>1. /\ win = <<>> /\ ~loaded /\ cards = 0 /\ gone = {} /\ unseen = 0 /\ view.badge = 0
  BY DEF Init
<1>2. Card \notin Ids(win)
  BY <1>1 DEF Ids
<1> QED BY <1>1, <1>2 DEF BadgeInv

\* The badge never counts more than what came while the user was away from the bottom,
\* and all of it if nothing was taken away (MessageTranscript.tsx 331-358), in a room
\* that has a message.  (In one that has none the first to come is not counted when
\* the user has left the bottom of the private thread and come back.)
THEOREM BadgeCounts == ASSUME Rows # 0 PROVE Spec => []BadgeHonest
<1>1. Init => Quiet /\ BadgeInv
  BY QuietInit, BadgeInit
<1>2. Inv /\ Inv' /\ Quiet /\ BadgeInv /\ [Next]_vars => Quiet' /\ BadgeInv'
  BY Rows # 0, QuietNext, BadgeNext
<1>3. BadgeInv => BadgeHonest
  BY DEF BadgeInv, BadgeHonest
<1> QED BY <1>1, <1>2, <1>3, InvHolds, PTL DEF Spec

-----------------------------------------------------------------------------
(***************************************************************************)
(* Panels, for any queries, messages and users, and with all areas of the  *)
(* page in use at once.                                                    *)
(***************************************************************************)

Searches ==
  [open : BOOLEAN, query : Queries \cup {NoQuery}, timer : Queries \cup {Nothing},
   results : Queries \cup {Nothing}, index : Nat \cup {-1}, loading : BOOLEAN, error : BOOLEAN]

Convs == [open : BOOLEAN, query : Queries \cup {NoQuery}, index : Nat \cup {-1}, highlight : BOOLEAN]

\* What is put off is the query.  If nothing is, the last request is for the query, or
\* its answer is shown.
SearchOK(s, o, v) ==
  /\ s.timer # Nothing => s.timer = s.query
  /\ s.query # NoQuery /\ s.timer = Nothing /\ o # <<>> => v \/ o[Len(o)] = s.query
  /\ s.query # NoQuery /\ s.timer = Nothing /\ o = <<>> =>
       ~s.loading /\ (v \/ s.error \/ s.results = s.query)
  /\ HitCount(s) > 0 => s.index \in 0..(HitCount(s) - 1)

SearchPart ==
  /\ search \in Searches /\ out \in Seq(Queries) /\ overtook \in BOOLEAN
  /\ SearchOK(search, out, overtook)

ConvOK(c) ==
  /\ c \in Convs
  /\ Found(c) > 0 => c.index \in 0..(Found(c) - 1)
  /\ c.highlight => c.open /\ c.query # NoQuery

\* The last request for a thread is for the one that is open.
ThreadPart ==
  /\ thread \in [parent : Messages \cup {Nothing}, replies : Messages \cup {Nothing}, closing : 0..MaxClose]
  /\ wire \in Seq(Messages) /\ heard \in BOOLEAN /\ crossed \in BOOLEAN
  /\ thread.parent # Nothing =>
       /\ wire # <<>> => wire[Len(wire)] = thread.parent
       /\ wire = <<>> /\ heard => thread.replies = thread.parent
       /\ ~crossed => /\ thread.replies \in {Nothing, thread.parent}
                      /\ \A k \in 1..Len(wire) : wire[k] = thread.parent

\* A history is wanted in the private space only, and one at a time.
SpacePart ==
  /\ space \in {"public", "bot"} /\ user \in Users \cup {Nothing} /\ private \subseteq Users
  /\ fetches \subseteq [of : Users, wanted : BOOLEAN]
  /\ \A f \in fetches : f.wanted => space = "bot"
  /\ \A f, g \in fetches : f.wanted /\ g.wanted => f = g

PanelsIInv == SearchPart /\ ConvOK(conv) /\ ThreadPart /\ SpacePart

-----------------------------------------------------------------------------
(* The search over all messages                                            *)

\* Each field of a search may be set on its own.
LEMMA SearchWith ==
  ASSUME NEW s \in Searches
  PROVE  /\ \A v \in BOOLEAN : [s EXCEPT !.open = v] \in Searches
         /\ \A v \in Queries \cup {NoQuery} : [s EXCEPT !.query = v] \in Searches
         /\ \A v \in Queries \cup {Nothing} : [s EXCEPT !.timer = v] \in Searches
         /\ \A v \in Queries \cup {Nothing} : [s EXCEPT !.results = v] \in Searches
         /\ \A v \in Nat \cup {-1} : [s EXCEPT !.index = v] \in Searches
         /\ \A v \in BOOLEAN : [s EXCEPT !.loading = v] \in Searches
         /\ \A v \in BOOLEAN : [s EXCEPT !.error = v] \in Searches
<1>1. \A v \in BOOLEAN : [s EXCEPT !.open = v] \in Searches
  BY DEF Searches
<1>2. \A v \in Queries \cup {NoQuery} : [s EXCEPT !.query = v] \in Searches
  BY DEF Searches
<1>3. \A v \in Queries \cup {Nothing} : [s EXCEPT !.timer = v] \in Searches
  BY DEF Searches
<1>4. \A v \in Queries \cup {Nothing} : [s EXCEPT !.results = v] \in Searches
  BY DEF Searches
<1>5. \A v \in Nat \cup {-1} : [s EXCEPT !.index = v] \in Searches
  BY DEF Searches
<1>6. \A v \in BOOLEAN : [s EXCEPT !.loading = v] \in Searches
  BY DEF Searches
<1>7. \A v \in BOOLEAN : [s EXCEPT !.error = v] \in Searches
  BY DEF Searches
<1> QED BY <1>1, <1>2, <1>3, <1>4, <1>5, <1>6, <1>7

\* A flag that is set leaves the rest alone.
LEMMA FlagsOf ==
  ASSUME NEW s \in Searches
  PROVE  /\ [s EXCEPT !.open = FALSE] \in Searches /\ [s EXCEPT !.open = ~@] \in Searches
         /\ [s EXCEPT !.loading = FALSE] \in Searches /\ [s EXCEPT !.loading = TRUE] \in Searches
         /\ [s EXCEPT !.error = FALSE] \in Searches /\ [s EXCEPT !.error = TRUE] \in Searches
         /\ \A r \in {[s EXCEPT !.open = FALSE], [s EXCEPT !.open = ~@], [s EXCEPT !.loading = FALSE],
                     [s EXCEPT !.loading = TRUE], [s EXCEPT !.error = FALSE], [s EXCEPT !.error = TRUE]} :
              /\ r.query = s.query /\ r.timer = s.timer /\ r.results = s.results /\ r.index = s.index
         /\ ~[s EXCEPT !.loading = FALSE].loading /\ [s EXCEPT !.error = TRUE].error
         /\ [s EXCEPT !.error = TRUE].loading = s.loading
         /\ [s EXCEPT !.open = FALSE].loading = s.loading /\ [s EXCEPT !.open = FALSE].error = s.error
         /\ \A r \in {[s EXCEPT !.loading = TRUE], [s EXCEPT !.error = FALSE]} : r.open = s.open
<1>1. /\ [s EXCEPT !.open = FALSE] \in Searches /\ [s EXCEPT !.open = ~@] \in Searches
      /\ [s EXCEPT !.loading = FALSE] \in Searches /\ [s EXCEPT !.loading = TRUE] \in Searches
      /\ [s EXCEPT !.error = FALSE] \in Searches /\ [s EXCEPT !.error = TRUE] \in Searches
  BY DEF Searches
<1>2. \A r \in {[s EXCEPT !.open = FALSE], [s EXCEPT !.open = ~@], [s EXCEPT !.loading = FALSE],
             [s EXCEPT !.loading = TRUE], [s EXCEPT !.error = FALSE], [s EXCEPT !.error = TRUE]} :
        /\ r.query = s.query /\ r.timer = s.timer /\ r.results = s.results /\ r.index = s.index
  BY DEF Searches
<1>3. /\ ~[s EXCEPT !.loading = FALSE].loading /\ [s EXCEPT !.error = TRUE].error
      /\ [s EXCEPT !.error = TRUE].loading = s.loading
      /\ [s EXCEPT !.open = FALSE].loading = s.loading /\ [s EXCEPT !.open = FALSE].error = s.error
      /\ \A r \in {[s EXCEPT !.loading = TRUE], [s EXCEPT !.error = FALSE]} : r.open = s.open
  BY DEF Searches
<1> QED BY <1>1, <1>2, <1>3

\* What a change of the query does.
LEMMA QueryBecomesOf ==
  ASSUME NEW s \in Searches, NEW q \in Queries \cup {NoQuery}
  PROVE  /\ QueryBecomes(s, q) \in Searches
         /\ QueryBecomes(s, q).query = q
         /\ QueryBecomes(s, q).open = s.open
         /\ QueryBecomes(s, q).index = s.index
         /\ q = s.query => QueryBecomes(s, q) = s
         /\ q # s.query /\ q = NoQuery =>
              QueryBecomes(s, q).timer = Nothing /\ QueryBecomes(s, q).results = Nothing
         /\ q # s.query /\ q # NoQuery =>
              QueryBecomes(s, q).timer = q /\ QueryBecomes(s, q).results = s.results
<1>1. CASE q = s.query
  BY <1>1 DEF QueryBecomes
<1>2. CASE q # s.query
  <2> DEFINE a == [s EXCEPT !.query = q]
  <2>1. /\ a \in Searches /\ a.query = q /\ a.open = s.open /\ a.index = s.index
        /\ a.results = s.results /\ a.timer = s.timer
    BY SearchWith DEF Searches
  <2>2. CASE q = NoQuery
    <3> DEFINE b == [a EXCEPT !.timer = Nothing]
               c == [b EXCEPT !.results = Nothing]
               d == [c EXCEPT !.error = FALSE]
    <3>1. QueryBecomes(s, q) = d
      BY <1>2, <2>2 DEF QueryBecomes
    <3> HIDE DEF a
    <3>2. b \in Searches /\ b.query = q /\ b.open = s.open /\ b.index = s.index /\ b.timer = Nothing
      BY <2>1, SearchWith DEF Searches
    <3> HIDE DEF b
    <3>3. /\ c \in Searches /\ c.query = q /\ c.open = s.open /\ c.index = s.index /\ c.timer = Nothing
          /\ c.results = Nothing
      BY <3>2, SearchWith DEF Searches
    <3> HIDE DEF c
    <3>4. /\ d \in Searches /\ d.query = q /\ d.open = s.open /\ d.index = s.index /\ d.timer = Nothing
          /\ d.results = Nothing
      BY <3>3, FlagsOf
    <3> HIDE DEF d
    <3> QED BY <1>2, <2>2, <3>1, <3>4
  <2>3. CASE q # NoQuery
    <3> DEFINE b == [a EXCEPT !.timer = q]
               c == [b EXCEPT !.loading = TRUE]
               d == [c EXCEPT !.error = FALSE]
    <3>1. QueryBecomes(s, q) = d
      BY <1>2, <2>3 DEF QueryBecomes
    <3>a. q \in Queries
      BY <2>3
    <3> HIDE DEF a
    <3>2. /\ b \in Searches /\ b.query = q /\ b.open = s.open /\ b.index = s.index /\ b.timer = q
          /\ b.results = s.results
      BY <2>1, <3>a, SearchWith DEF Searches
    <3> HIDE DEF b
    <3>3. /\ c \in Searches /\ c.query = q /\ c.open = s.open /\ c.index = s.index /\ c.timer = q
          /\ c.results = s.results
      BY <3>2, FlagsOf
    <3> HIDE DEF c
    <3>4. /\ d \in Searches /\ d.query = q /\ d.open = s.open /\ d.index = s.index /\ d.timer = q
          /\ d.results = s.results
      BY <3>3, FlagsOf
    <3> HIDE DEF d
    <3> QED BY <1>2, <2>3, <3>1, <3>4
  <2> QED BY <2>2, <2>3
<1> QED BY <1>1, <1>2

\* A search that is given up has no query and shows nothing.
LEMMA EmptiedOf ==
  ASSUME NEW s \in Searches, s.timer # Nothing => s.timer = s.query
  PROVE  /\ Emptied(s) \in Searches
         /\ Emptied(s).query = NoQuery /\ Emptied(s).results = Nothing
         /\ Emptied(s).timer # Nothing => Emptied(s).timer = NoQuery
<1> DEFINE r == QueryBecomes(s, NoQuery)
           e == [r EXCEPT !.results = Nothing]
<1>1. Emptied(s) = e
  BY DEF Emptied
<1>2. r \in Searches /\ r.query = NoQuery /\ (r.timer # Nothing => r.timer = NoQuery)
  BY QueryBecomesOf
<1> HIDE DEF r
<1>3. /\ e \in Searches /\ e.query = NoQuery /\ e.results = Nothing
      /\ e.timer # Nothing => e.timer = NoQuery
  BY <1>2, SearchWith DEF Searches
<1> HIDE DEF e
<1> QED BY <1>1, <1>3

\* Opening, closing and clearing an error do not matter to a search without a query.
LEMMA NoSearchKeeps ==
  ASSUME SearchPart, search' \in Searches, search'.query = NoQuery, search'.results = Nothing,
         search'.timer # Nothing => search'.timer = NoQuery, UNCHANGED <<out, overtook>>
  PROVE  SearchPart'
BY DEF SearchPart, SearchOK, HitCount

LEMMA ToggleKeeps ==
  ASSUME SearchPart, ToggleSearch
  PROVE  SearchPart'
<1> DEFINE e == Emptied(search)
           a == [e EXCEPT !.open = ~@]
           b == [a EXCEPT !.error = FALSE]
<1>1. search' = b
  BY DEF ToggleSearch
<1>2. /\ e \in Searches /\ e.query = NoQuery /\ e.results = Nothing
      /\ e.timer # Nothing => e.timer = NoQuery
  BY EmptiedOf DEF SearchPart, SearchOK
<1> HIDE DEF e
<1>3. /\ a \in Searches /\ a.query = NoQuery /\ a.results = Nothing
      /\ a.timer # Nothing => a.timer = NoQuery
  BY <1>2, FlagsOf
<1> HIDE DEF a
<1>4. /\ b \in Searches /\ b.query = NoQuery /\ b.results = Nothing
      /\ b.timer # Nothing => b.timer = NoQuery
  BY <1>3, FlagsOf
<1> HIDE DEF b
<1> QED BY <1>1, <1>4, NoSearchKeeps DEF ToggleSearch

LEMMA TypeQueryKeeps ==
  ASSUME SearchPart, NEW q \in Queries \cup {NoQuery}, TypeQuery(q)
  PROVE  SearchPart'
<1>1. search \in Searches /\ search' = QueryBecomes(search, q) /\ UNCHANGED <<out, overtook>>
  BY DEF TypeQuery, SearchPart
<1>2. CASE q = search.query
  BY <1>1, <1>2, QueryBecomesOf DEF SearchPart
<1>3. CASE q # search.query /\ q = NoQuery
  BY <1>1, <1>3, QueryBecomesOf, NoSearchKeeps
<1>4. CASE q # search.query /\ q # NoQuery
  <2>1. /\ search' \in Searches /\ search'.query = q /\ search'.timer = q
        /\ search'.index = search.index /\ search'.results = search.results
    BY <1>1, <1>4, QueryBecomesOf
  <2>2. q # Nothing
    BY <1>4, PanelsAssumption
  <2> QED BY <1>1, <2>1, <2>2 DEF SearchPart, SearchOK, HitCount
<1> QED BY <1>2, <1>3, <1>4

LEMMA SearchKeeps ==
  ASSUME SearchPart, Search
  PROVE  SearchPart'
<1>1. /\ search \in Searches /\ search.timer # Nothing /\ search.timer = search.query
      /\ out \in Seq(Queries) /\ overtook \in BOOLEAN
  BY DEF Search, SearchPart, SearchOK
<1>2. search.timer \in Queries
  BY <1>1 DEF Searches
<1>3. search' = [search EXCEPT !.timer = Nothing]
  BY DEF Search
<1>4. /\ search' \in Searches /\ search'.timer = Nothing /\ search'.query = search.query
      /\ search'.index = search.index /\ search'.results = search.results
  BY <1>1, <1>3, SearchWith DEF Searches
<1>5. out' = Append(out, search.query) /\ overtook' \in BOOLEAN
  BY <1>1 DEF Search
<1>6. /\ out' \in Seq(Queries) /\ out' # <<>> /\ out'[Len(out')] = search.query
  BY <1>1, <1>2, <1>5
<1> QED BY <1>4, <1>5, <1>6 DEF SearchPart, SearchOK, HitCount

\* What is left when one is taken out.
LEMMA RemoveAtOf ==
  ASSUME NEW S, NEW s \in Seq(S), NEW k \in 1..Len(s)
  PROVE  /\ RemoveAt(s, k) \in Seq(S) /\ Len(RemoveAt(s, k)) = Len(s) - 1
         /\ RemoveAt(s, k) # <<>> /\ k < Len(s) => RemoveAt(s, k)[Len(RemoveAt(s, k))] = s[Len(s)]
         /\ RemoveAt(s, k) = <<>> => k = 1 /\ Len(s) = 1
<1> DEFINE a == SubSeq(s, 1, k - 1)
           b == SubSeq(s, k + 1, Len(s))
<1>1. /\ a \in Seq(S) /\ Len(a) = k - 1
  OBVIOUS
<1>2. /\ b \in Seq(S) /\ Len(b) = Len(s) - k
      /\ k < Len(s) => b[Len(s) - k] = s[Len(s)]
  <2>1. b \in Seq(S)
    OBVIOUS
  <2>2. Len(b) = Len(s) - k
    OBVIOUS
  <2>3. ASSUME k < Len(s)
        PROVE  b[Len(s) - k] = s[Len(s)]
    BY <2>3
  <2> QED BY <2>1, <2>2, <2>3
<1>3. RemoveAt(s, k) = a \o b
  BY DEF RemoveAt
<1> HIDE DEF a, b
<1>4. /\ a \o b \in Seq(S) /\ Len(a \o b) = Len(s) - 1
      /\ k < Len(s) => (a \o b)[Len(s) - 1] = b[Len(s) - k]
  BY SMTT(40), <1>1, <1>2
<1>5. a \o b = <<>> => Len(s) = 1
  BY <1>4
<1> QED BY <1>2, <1>3, <1>4, <1>5

\* The answer that comes last is that to the query, or an earlier one was overtaken.
LEMMA SearchAnswersKeeps ==
  ASSUME SearchPart, NEW k \in 1..MaxOut, NEW ok \in BOOLEAN, SearchAnswers(k, ok)
  PROVE  SearchPart'
<1>1. /\ search \in Searches /\ out \in Seq(Queries) /\ k \in 1..Len(out) /\ overtook \in BOOLEAN
      /\ search' = Answered(search, out[k], ok)
      /\ out' = RemoveAt(out, k) /\ overtook' = (overtook \/ k > 1)
  BY DEF SearchPart, SearchAnswers
<1>2. out[k] \in Queries /\ out[k] # Nothing
  BY <1>1, PanelsAssumption
<1>3. /\ search' \in Searches /\ search'.query = search.query /\ search'.timer = search.timer
      /\ search'.index = 0 /\ ~search'.loading
      /\ ok => search'.results = out[k]
      /\ ~ok => search'.error /\ search'.results = search.results
  <2> DEFINE a == [search EXCEPT !.loading = FALSE]
             b == [a EXCEPT !.index = 0]
             c == [b EXCEPT !.results = out[k]]
             d == [b EXCEPT !.error = TRUE]
  <2>1. search' = IF ok THEN c ELSE d
    BY <1>1 DEF Answered
  <2>2. /\ a \in Searches /\ a.query = search.query /\ a.timer = search.timer /\ ~a.loading
        /\ a.results = search.results
    BY <1>1, FlagsOf
  <2> HIDE DEF a
  <2>3. /\ b \in Searches /\ b.query = search.query /\ b.timer = search.timer /\ ~b.loading
        /\ b.results = search.results /\ b.index = 0
    BY <2>2, SearchWith DEF Searches
  <2> HIDE DEF b
  <2>4. /\ c \in Searches /\ c.query = search.query /\ c.timer = search.timer /\ ~c.loading
        /\ c.results = out[k] /\ c.index = 0
    BY <1>2, <2>3, SearchWith DEF Searches
  <2>5. /\ d \in Searches /\ d.query = search.query /\ d.timer = search.timer /\ ~d.loading
        /\ d.results = search.results /\ d.index = 0 /\ d.error
    BY <2>3, FlagsOf
  <2> HIDE DEF c, d
  <2> QED BY <2>1, <2>4, <2>5
<1>4. overtook' \in BOOLEAN /\ (~overtook' => ~overtook /\ k = 1)
  <2>1. CASE k = 1
    <3>1. (k > 1) = FALSE
      BY <2>1
    <3> QED BY <1>1, <2>1, <3>1
  <2>2. CASE k # 1
    <3>1. (k > 1) = TRUE
      BY <1>1, <2>2
    <3> QED BY <1>1, <3>1
  <2> QED BY <2>1, <2>2
<1>5. /\ out' \in Seq(Queries)
      /\ out' # <<>> /\ k < Len(out) => out'[Len(out')] = out[Len(out)]
      /\ out' = <<>> => k = 1 /\ Len(out) = 1
      /\ out' # <<>> /\ k = 1 => k < Len(out)
  <2>1. Len(out') = Len(out) - 1
    BY <1>1, RemoveAtOf
  <2>2. /\ out' \in Seq(Queries)
        /\ out' # <<>> /\ k < Len(out) => out'[Len(out')] = out[Len(out)]
        /\ out' = <<>> => k = 1 /\ Len(out) = 1
    BY <1>1, RemoveAtOf
  <2>3. out' # <<>> => Len(out') > 0
    BY <2>2
  <2>4. out' # <<>> /\ k = 1 => k < Len(out)
    BY <1>1, <2>1, <2>3
  <2> QED BY <2>2, <2>4
<1>6. out # <<>>
  BY <1>1
<1>7. search'.timer # Nothing => search'.timer = search'.query
  BY <1>3 DEF SearchPart, SearchOK
<1>8. ASSUME search'.query # NoQuery, search'.timer = Nothing
      PROVE  /\ out' # <<>> => overtook' \/ out'[Len(out')] = search'.query
             /\ out' = <<>> => ~search'.loading /\ (overtook' \/ search'.error \/ search'.results = search'.query)
  <2>1. overtook \/ out[Len(out)] = search.query
    BY <1>3, <1>6, <1>8 DEF SearchPart, SearchOK
  <2> QED BY <1>3, <1>4, <1>5, <2>1
<1>9. HitCount(search') > 0 => search'.index \in 0..(HitCount(search') - 1)
  <2>1. HitCount(search') \in Nat
    BY <1>3, PanelsAssumption DEF HitCount, Searches
  <2> QED BY <1>3, <2>1
<1> QED BY <1>3, <1>4, <1>5, <1>7, <1>8, <1>9 DEF SearchPart, SearchOK

\* Up and down stay in the results, if there are any.
LEMMA NextIndexOf ==
  ASSUME NEW i \in Nat \cup {-1}, NEW n \in Nat, NEW k \in NextIndex(i, n), n > 0 => i \in 0..(n - 1)
  PROVE  k \in Nat \cup {-1} /\ (n > 0 => k \in 0..(n - 1))
BY DEF NextIndex

LEMMA MoveSelectionKeeps ==
  ASSUME SearchPart, MoveSelection
  PROVE  SearchPart'
<1>1. PICK k \in NextIndex(search.index, HitCount(search)) : search' = [search EXCEPT !.index = k]
  BY DEF MoveSelection
<1>2. /\ search \in Searches /\ search.index \in Nat \cup {-1}
      /\ HitCount(search) > 0 => search.index \in 0..(HitCount(search) - 1)
  BY DEF SearchPart, SearchOK, Searches
<1>3. HitCount(search) \in Nat
  BY <1>2, PanelsAssumption DEF HitCount, Searches
<1>4. k \in Nat \cup {-1} /\ (HitCount(search) > 0 => k \in 0..(HitCount(search) - 1))
  BY <1>2, <1>3, NextIndexOf
<1>5. /\ search' \in Searches /\ search'.index = k /\ search'.query = search.query
      /\ search'.timer = search.timer /\ search'.results = search.results
      /\ search'.loading = search.loading /\ search'.error = search.error
  BY <1>1, <1>2, <1>4, SearchWith DEF Searches
<1>6. HitCount(search') = HitCount(search)
  BY <1>5 DEF HitCount
<1> QED BY <1>4, <1>5, <1>6 DEF MoveSelection, SearchPart, SearchOK

\* Leaving and the key that closes.
LEMMA CloseKeeps ==
  ASSUME SearchPart, UNCHANGED <<out, overtook>>,
         \/ search' = search
         \/ search' = [search EXCEPT !.open = FALSE]
         \/ search' = Emptied(search)
         \/ search' = [Emptied(search) EXCEPT !.open = FALSE]
  PROVE  SearchPart'
<1> DEFINE e == Emptied(search)
<1>1. /\ e \in Searches /\ e.query = NoQuery /\ e.results = Nothing
      /\ e.timer # Nothing => e.timer = NoQuery
  BY EmptiedOf DEF SearchPart, SearchOK
<1> HIDE DEF e
<1>2. CASE search' = search
  BY <1>2 DEF SearchPart
<1>3. CASE search' = [search EXCEPT !.open = FALSE]
  <2>1. search \in Searches
    BY DEF SearchPart
  <2>2. /\ search' \in Searches /\ search'.index = search.index /\ search'.query = search.query
        /\ search'.timer = search.timer /\ search'.results = search.results
        /\ search'.loading = search.loading /\ search'.error = search.error
    BY <1>3, <2>1, FlagsOf
  <2> QED BY <2>2 DEF SearchPart, SearchOK, HitCount
<1>4. CASE search' = e
  BY <1>1, <1>4, NoSearchKeeps
<1>5. CASE search' = [e EXCEPT !.open = FALSE]
  <2>1. /\ search' \in Searches /\ search'.query = NoQuery /\ search'.results = Nothing
        /\ search'.timer # Nothing => search'.timer = NoQuery
    BY <1>1, <1>5, FlagsOf
  <2> QED BY <2>1, NoSearchKeeps
<1> QED BY <1>2, <1>3, <1>4, <1>5 DEF e

-----------------------------------------------------------------------------
(* The search in the conversation                                          *)

\* What the effects of a render leave.
LEMMA HighlightedOf ==
  ASSUME NEW c \in Convs, c.open /\ Found(c) > 0 => c.index \in 0..(Found(c) - 1)
  PROVE  ConvOK(Highlighted(c))
<1>1. CASE c.open /\ c.query # NoQuery
  <2>1. (c.query # NoQuery) = TRUE
    BY <1>1
  <2> DEFINE h == [c EXCEPT !.highlight = TRUE]
  <2>2. Highlighted(c) = h
    BY <1>1, <2>1 DEF Highlighted
  <2>3. h \in Convs /\ h.open = c.open /\ h.query = c.query /\ h.index = c.index
    BY DEF Convs
  <2> HIDE DEF h
  <2> QED BY <1>1, <2>2, <2>3 DEF ConvOK, Found
<1>2. CASE c.open /\ c.query = NoQuery
  <2>1. (c.query # NoQuery) = FALSE
    BY <1>2
  <2> DEFINE h == [c EXCEPT !.highlight = FALSE]
  <2>2. Highlighted(c) = h
    BY <1>2, <2>1 DEF Highlighted
  <2>3. h \in Convs /\ h.query = c.query /\ ~h.highlight
    BY DEF Convs
  <2> HIDE DEF h
  <2> QED BY <1>2, <2>2, <2>3 DEF ConvOK, Found
<1>3. CASE ~c.open
  <2> DEFINE a == [c EXCEPT !.query = NoQuery]
             b == [a EXCEPT !.index = 0]
             h == [b EXCEPT !.highlight = FALSE]
  <2>1. Highlighted(c) = h
    BY <1>3 DEF Highlighted
  <2>2. a \in Convs /\ a.query = NoQuery
    BY DEF Convs
  <2> HIDE DEF a
  <2>3. b \in Convs /\ b.query = NoQuery
    BY <2>2 DEF Convs
  <2> HIDE DEF b
  <2>4. h \in Convs /\ h.query = NoQuery /\ ~h.highlight
    BY <2>3 DEF Convs
  <2> HIDE DEF h
  <2> QED BY <2>1, <2>4 DEF ConvOK, Found
<1> QED BY <1>1, <1>2, <1>3

\* A conversation's search opens, closes and is typed in.
LEMMA ToggledOf ==
  ASSUME ConvOK(conv)
  PROVE  ConvOK(Highlighted([conv EXCEPT !.open = ~@])) /\ ConvOK(Highlighted([conv EXCEPT !.open = FALSE]))
<1>1. conv \in Convs /\ (Found(conv) > 0 => conv.index \in 0..(Found(conv) - 1))
  BY DEF ConvOK
<1>2. \A c \in {[conv EXCEPT !.open = ~@], [conv EXCEPT !.open = FALSE]} :
        c \in Convs /\ c.query = conv.query /\ c.index = conv.index
  BY <1>1 DEF Convs
<1>3. \A c \in {[conv EXCEPT !.open = ~@], [conv EXCEPT !.open = FALSE]} :
        Found(c) > 0 => c.index \in 0..(Found(c) - 1)
  BY <1>1, <1>2 DEF Found
<1> QED BY <1>2, <1>3, HighlightedOf

LEMMA TypeInConversationKeeps ==
  ASSUME ConvOK(conv), NEW q \in Queries \cup {NoQuery}, TypeInConversation(q)
  PROVE  ConvOK(conv')
<1> DEFINE a == [conv EXCEPT !.query = q]
           k == IF Found(a) = Found(conv) THEN conv.index ELSE 0
           b == [a EXCEPT !.index = k]
<1>1. conv \in Convs /\ (Found(conv) > 0 => conv.index \in 0..(Found(conv) - 1))
  BY DEF ConvOK
<1>2. a \in Convs /\ a.index = conv.index /\ a.open = conv.open
  BY <1>1 DEF Convs
<1>3. conv' = Highlighted(b)
  BY DEF TypeInConversation
<1>4. Found(a) \in Nat
  BY <1>2, PanelsAssumption DEF Found, Convs
<1>5. k \in Nat \cup {-1} /\ (Found(a) > 0 => k \in 0..(Found(a) - 1))
  BY <1>1, <1>4 DEF Convs
<1> HIDE DEF a, k
<1>6. b \in Convs /\ b.index = k /\ b.query = a.query
  BY <1>2, <1>5 DEF Convs
<1> HIDE DEF b
<1>7. Found(b) > 0 => b.index \in 0..(Found(b) - 1)
  BY <1>5, <1>6 DEF Found
<1> QED BY <1>3, <1>6, <1>7, HighlightedOf

LEMMA MoveInConversationKeeps ==
  ASSUME ConvOK(conv), MoveInConversation
  PROVE  ConvOK(conv')
<1>1. PICK k \in NextIndex(conv.index, Found(conv)) : conv' = [conv EXCEPT !.index = k]
  BY DEF MoveInConversation
<1>2. /\ conv \in Convs /\ conv.index \in Nat \cup {-1}
      /\ Found(conv) > 0 => conv.index \in 0..(Found(conv) - 1)
  BY DEF ConvOK, Convs
<1>3. Found(conv) \in Nat
  BY <1>2, PanelsAssumption DEF Found, Convs
<1>4. k \in Nat \cup {-1} /\ (Found(conv) > 0 => k \in 0..(Found(conv) - 1))
  BY <1>2, <1>3, NextIndexOf
<1>5. /\ conv' \in Convs /\ conv'.index = k /\ conv'.query = conv.query
      /\ conv'.open = conv.open /\ conv'.highlight = conv.highlight
  BY <1>1, <1>2, <1>4 DEF Convs
<1> QED BY <1>4, <1>5 DEF ConvOK, Found

-----------------------------------------------------------------------------
(* Threads and the private space                                           *)

LEMMA OpenThreadKeeps ==
  ASSUME ThreadPart, NEW m \in Messages, HandleOpenThread(m)
  PROVE  ThreadPart'
<1> DEFINE T == Messages \cup {Nothing}
           Panes == [parent : T, replies : T, closing : 0..MaxClose]
           a == [thread EXCEPT !.parent = m]
           b == [a EXCEPT !.replies = Nothing]
<1>1. thread \in Panes /\ wire \in Seq(Messages) /\ wire' = Append(wire, m) /\ thread' = b
      /\ heard' = FALSE /\ crossed' = (ToSet(wire) \ {m} # {})
  BY DEF HandleOpenThread, Asked, ThreadPart
<1>2. a \in Panes /\ a.parent = m
  BY <1>1
<1> HIDE DEF a
<1>3. b \in Panes /\ b.parent = m /\ b.replies = Nothing
  BY <1>2
<1> HIDE DEF b
<1>4. /\ wire' \in Seq(Messages) /\ wire' # <<>> /\ Len(wire') = Len(wire) + 1 /\ Len(wire) \in Nat
      /\ wire'[Len(wire')] = m /\ \A k \in 1..Len(wire) : wire'[k] = wire[k]
  BY <1>1
<1>5. crossed' \in BOOLEAN
  BY <1>1, Zenon
<1>6. ASSUME ~crossed', NEW k \in 1..Len(wire')
      PROVE  wire'[k] = m
  <2>1. ToSet(wire) \ {m} = {}
    BY <1>1, <1>6
  <2>2. \A j \in 1..Len(wire) : wire[j] \in ToSet(wire)
    BY <1>1 DEF ToSet
  <2>3. k \in 1..Len(wire) \/ k = Len(wire')
    BY <1>4, <1>6
  <2> QED BY <1>4, <2>1, <2>2, <2>3
<1> QED BY <1>1, <1>3, <1>4, <1>5, <1>6 DEF ThreadPart

\* An answer that comes is that to the first of the requests; so is one that is lost, or
\* has nothing.
LEMMA ThreadAnswersKeeps ==
  ASSUME ThreadPart, ThreadAnswers \/ NothingComes
  PROVE  ThreadPart'
<1> DEFINE Panes == [parent : Messages \cup {Nothing}, replies : Messages \cup {Nothing}, closing : 0..MaxClose]
<1>1. /\ wire \in Seq(Messages) /\ wire # <<>> /\ wire' = Tail(wire) /\ crossed' = crossed /\ crossed \in BOOLEAN
      /\ thread \in Panes
      /\ thread.parent # Nothing => wire[Len(wire)] = thread.parent
      /\ thread.parent # Nothing /\ ~crossed =>
           thread.replies \in {Nothing, thread.parent} /\ \A k \in 1..Len(wire) : wire[k] = thread.parent
  BY DEF ThreadAnswers, NothingComes, ThreadPart
<1>2. /\ Head(wire) \in Messages /\ Head(wire) = wire[1] /\ wire' \in Seq(Messages)
      /\ Len(wire) \in Nat /\ Len(wire) >= 1 /\ Len(wire') = Len(wire) - 1
      /\ \A k \in 1..Len(wire') : wire'[k] = wire[k + 1] /\ k + 1 \in 1..Len(wire)
  BY <1>1
<1>3. wire' # <<>> => wire'[Len(wire')] = wire[Len(wire)]
  BY <1>1, <1>2
<1>4. thread.parent # Nothing /\ ~crossed' => \A k \in 1..Len(wire') : wire'[k] = thread.parent
  BY <1>1, <1>2
<1>5. CASE ThreadAnswers
  <2>1. thread' = [thread EXCEPT !.replies = wire[1]] /\ heard' = (thread.parent # Nothing)
    BY <1>2, <1>5 DEF ThreadAnswers
  <2>2. thread' \in Panes /\ thread'.parent = thread.parent /\ thread'.replies = wire[1]
    BY <1>1, <1>2, <2>1
  <2>3. heard' \in BOOLEAN
    BY <2>1, Zenon
  <2>4. ASSUME wire' = <<>>
        PROVE  wire[1] = wire[Len(wire)]
    <3>1. Len(wire') = 0
      BY <2>4
    <3>2. Len(wire) = 1
      BY <1>2, <3>1
    <3> QED BY <3>2
  <2>5. 1 \in 1..Len(wire)
    BY <1>2
  <2> QED BY <1>1, <1>2, <1>3, <1>4, <2>2, <2>3, <2>4, <2>5 DEF ThreadPart
<1>6. CASE NothingComes
  <2>1. thread' = thread /\ heard' = FALSE
    BY <1>6 DEF NothingComes
  <2> QED BY <1>1, <1>2, <1>3, <1>4, <2>1 DEF ThreadPart
<1> QED BY <1>5, <1>6

\* Closing, the timer that runs to its end, and the key that closes.
LEMMA ThreadClosesKeeps ==
  ASSUME ThreadPart, UNCHANGED wire,
         \/ HandleClose
         \/ HandleCloseThread
         \/ /\ thread' = [thread EXCEPT !.parent = Nothing, !.replies = Nothing]
            /\ heard' = FALSE /\ crossed' = FALSE
  PROVE  ThreadPart'
<1> DEFINE T == Messages \cup {Nothing}
           Panes == [parent : T, replies : T, closing : 0..MaxClose]
<1>1. thread \in Panes /\ MaxClose \in Nat /\ thread.closing \in 0..MaxClose
  BY PanelsAssumption DEF ThreadPart
<1>2. CASE HandleClose
  <2>1. thread' = [thread EXCEPT !.closing = thread.closing + 1] /\ thread.closing + 1 \in 0..MaxClose
    BY <1>1, <1>2 DEF HandleClose
  <2>2. thread' \in Panes /\ thread'.parent = thread.parent /\ thread'.replies = thread.replies
    BY <1>1, <2>1
  <2>3. UNCHANGED <<wire, heard, crossed>>
    BY <1>2 DEF HandleClose, threadGhosts
  <2> QED BY <2>2, <2>3 DEF ThreadPart
<1>3. CASE HandleCloseThread
  <2>1. thread' \in Panes /\ thread'.parent = Nothing /\ heard' = FALSE /\ crossed' = FALSE
    BY <1>1, <1>3 DEF HandleCloseThread
  <2> QED BY <2>1 DEF ThreadPart
<1>4. CASE /\ thread' = [thread EXCEPT !.parent = Nothing, !.replies = Nothing]
           /\ heard' = FALSE /\ crossed' = FALSE
  <2> DEFINE a == [thread EXCEPT !.parent = Nothing]
             b == [a EXCEPT !.replies = Nothing]
  <2>1. thread' = b
    BY <1>4
  <2>2. a \in Panes /\ a.parent = Nothing
    BY <1>1
  <2> HIDE DEF a
  <2>3. b \in Panes /\ b.parent = Nothing
    BY <2>2
  <2> HIDE DEF b
  <2> QED BY <1>4, <2>1, <2>3 DEF ThreadPart
<1> QED BY <1>2, <1>3, <1>4

\* Entering and leaving: what was asked for before is not wanted any more.
LEMMA SpaceSelectKeeps ==
  ASSUME SpacePart, NEW s \in {"public", "bot"}, HandleSpaceSelect(s)
  PROVE  SpacePart'
<1> DEFINE Fetches == [of : Users, wanted : BOOLEAN]
           old == {[f EXCEPT !.wanted = FALSE] : f \in fetches}
<1>1. \A f \in Fetches : [f EXCEPT !.wanted = FALSE] \in Fetches /\ ~[f EXCEPT !.wanted = FALSE].wanted
  OBVIOUS
<1>2. old \subseteq Fetches /\ \A f \in old : ~f.wanted
  BY <1>1 DEF SpacePart
<1>3. CASE s = "bot" /\ user # Nothing
  <2>1. fetches' = old \cup {[of |-> user, wanted |-> TRUE]}
    BY <1>3 DEF HandleSpaceSelect
  <2>2. [of |-> user, wanted |-> TRUE] \in Fetches
    BY <1>3 DEF SpacePart
  <2>3. [of |-> user, wanted |-> TRUE].wanted
    OBVIOUS
  <2> HIDE DEF old
  <2>4. \A f, g \in fetches' : f.wanted /\ g.wanted => f = g
    BY <1>2, <2>1
  <2> QED BY <1>2, <1>3, <2>1, <2>2, <2>4 DEF HandleSpaceSelect, SpacePart
<1>4. CASE ~(s = "bot" /\ user # Nothing)
  <2>1. fetches' = old
    BY <1>4 DEF HandleSpaceSelect
  <2> HIDE DEF old
  <2> QED BY <1>2, <2>1 DEF HandleSpaceSelect, SpacePart
<1> QED BY <1>3, <1>4

-----------------------------------------------------------------------------
(* The steps                                                               *)

LEMMA InitHolds == PanelsInit => PanelsIInv
<1> SUFFICES ASSUME PanelsInit PROVE PanelsIInv
  OBVIOUS
<1>1. search \in Searches /\ search.query = NoQuery /\ search.timer = Nothing /\ search.results = Nothing
  BY DEF PanelsInit, Searches
<1>2. out \in Seq(Queries) /\ overtook \in BOOLEAN
  <2>1. out = <<>> /\ overtook = FALSE
    BY DEF PanelsInit
  <2>2. out \in Seq(Queries)
    BY <2>1
  <2>3. overtook \in BOOLEAN
    BY <2>1, Zenon
  <2> QED BY <2>2, <2>3
<1>3. conv \in Convs /\ conv.query = NoQuery /\ ~conv.highlight
  BY DEF PanelsInit, Convs
<1>4. thread \in [parent : Messages \cup {Nothing}, replies : Messages \cup {Nothing}, closing : 0..MaxClose]
  BY PanelsAssumption DEF PanelsInit
<1>5. /\ wire \in Seq(Messages) /\ wire = <<>> /\ heard \in BOOLEAN /\ crossed \in BOOLEAN
      /\ thread.parent = Nothing
  <2>1. wire = <<>> /\ heard = FALSE /\ crossed = FALSE /\ thread.parent = Nothing
    BY DEF PanelsInit
  <2>2. wire \in Seq(Messages)
    BY <2>1
  <2>3. heard \in BOOLEAN /\ crossed \in BOOLEAN
    BY <2>1, Zenon
  <2> QED BY <2>1, <2>2, <2>3
<1>6. SearchPart
  BY <1>1, <1>2 DEF SearchPart, SearchOK, HitCount
<1>7. ConvOK(conv)
  BY <1>3 DEF ConvOK, Found
<1>8. SpacePart
  BY DEF PanelsInit, SpacePart
<1> QED BY <1>4, <1>5, <1>6, <1>7, <1>8 DEF PanelsIInv, ThreadPart

LEMMA StepKeeps == PanelsIInv /\ [PanelsNext]_panelsVars => PanelsIInv'
<1> SUFFICES ASSUME PanelsIInv, [PanelsNext]_panelsVars PROVE PanelsIInv'
  OBVIOUS
<1> USE DEF searchVars, threadVars, spaceVars, threadGhosts
<1>0. SearchPart /\ ConvOK(conv) /\ ThreadPart /\ SpacePart
  BY DEF PanelsIInv
<1>a. UNCHANGED searchVars => SearchPart'
  BY <1>0 DEF SearchPart
<1>b. UNCHANGED conv => ConvOK(conv')
  BY <1>0
<1>c. UNCHANGED threadVars => ThreadPart'
  BY <1>0 DEF ThreadPart
<1>d. UNCHANGED spaceVars => SpacePart'
  BY <1>0 DEF SpacePart
<1>1. CASE ToggleSearch
  BY <1>0, <1>1, <1>b, <1>c, <1>d, ToggleKeeps DEF PanelsIInv, ToggleSearch
<1>2. CASE Search
  BY <1>0, <1>2, <1>b, <1>c, <1>d, SearchKeeps DEF PanelsIInv, Search
<1>3. CASE MoveSelection
  BY <1>0, <1>3, <1>b, <1>c, <1>d, MoveSelectionKeeps DEF PanelsIInv, MoveSelection
<1>4. ASSUME NEW q \in Queries \cup {NoQuery}, TypeQuery(q)
      PROVE  PanelsIInv'
  BY <1>0, <1>4, <1>b, <1>c, <1>d, TypeQueryKeeps DEF PanelsIInv, TypeQuery
<1>5. ASSUME NEW q \in Queries \cup {NoQuery}, TypeInConversation(q)
      PROVE  PanelsIInv'
  BY <1>0, <1>5, <1>a, <1>c, <1>d, TypeInConversationKeeps DEF PanelsIInv, TypeInConversation
<1>6. ASSUME NEW k \in 1..MaxOut, NEW ok \in BOOLEAN, SearchAnswers(k, ok)
      PROVE  PanelsIInv'
  BY <1>0, <1>6, <1>b, <1>c, <1>d, SearchAnswersKeeps DEF PanelsIInv, SearchAnswers
<1>7. ASSUME NEW b \in BOOLEAN, LeaveSearch(b)
      PROVE  PanelsIInv'
  <2>1. /\ UNCHANGED <<out, overtook, conv, threadVars, spaceVars>>
        /\ \/ search' = [search EXCEPT !.open = FALSE]
           \/ search' = [Emptied(search) EXCEPT !.open = FALSE]
    BY <1>7 DEF LeaveSearch
  <2>2. SearchPart'
    BY <1>0, <2>1, CloseKeeps
  <2> QED BY <2>1, <2>2, <1>b, <1>c, <1>d DEF PanelsIInv
<1>8. ASSUME NEW b \in BOOLEAN, Escape(b)
      PROVE  PanelsIInv'
  <2>1. /\ UNCHANGED <<out, overtook>>
        /\ \/ search' = search
           \/ search' = [search EXCEPT !.open = FALSE]
           \/ search' = Emptied(search)
    BY <1>8 DEF Escape
  <2>2. SearchPart'
    BY <1>0, <2>1, CloseKeeps
  <2>3. ConvOK(conv')
    BY <1>0, <1>8, ToggledOf DEF Escape
  <2>4. ThreadPart'
    BY <1>0, <1>8, ThreadClosesKeeps DEF Escape
  <2>5. SpacePart'
    BY <1>8, <1>d DEF Escape
  <2> QED BY <2>2, <2>3, <2>4, <2>5 DEF PanelsIInv
<1>9. CASE ToggleConversationSearch
  BY <1>0, <1>9, <1>a, <1>c, <1>d, ToggledOf DEF PanelsIInv, ToggleConversationSearch
<1>10. CASE MoveInConversation
  BY <1>0, <1>10, <1>a, <1>c, <1>d, MoveInConversationKeeps DEF PanelsIInv, MoveInConversation
<1>11. ASSUME NEW m \in Messages, HandleOpenThread(m)
       PROVE  PanelsIInv'
  BY <1>0, <1>11, <1>a, <1>b, <1>d, OpenThreadKeeps DEF PanelsIInv, HandleOpenThread
<1>12. CASE ThreadAnswers \/ NothingComes
  BY <1>0, <1>12, <1>a, <1>b, <1>d, ThreadAnswersKeeps DEF PanelsIInv, ThreadAnswers, NothingComes
<1>13. CASE SocketCloses
  <2>1. /\ wire' \in Seq(Messages) /\ wire' = <<>> /\ Len(wire') = 0 /\ heard' = FALSE
        /\ UNCHANGED <<thread, crossed>>
    BY <1>13 DEF SocketCloses
  <2>2. \A k \in 1..Len(wire') : FALSE
    BY <2>1
  <2>3. /\ thread \in [parent : Messages \cup {Nothing}, replies : Messages \cup {Nothing}, closing : 0..MaxClose]
        /\ crossed \in BOOLEAN
        /\ thread.parent # Nothing /\ ~crossed => thread.replies \in {Nothing, thread.parent}
    BY <1>0 DEF ThreadPart
  <2>4. ThreadPart'
    BY <2>1, <2>2, <2>3 DEF ThreadPart
  <2> QED BY <1>13, <2>4, <1>a, <1>b, <1>d DEF PanelsIInv, SocketCloses
<1>14. CASE HandleClose \/ HandleCloseThread
  <2>1. UNCHANGED <<searchVars, conv, wire, spaceVars>>
    BY <1>14 DEF HandleClose, HandleCloseThread
  <2>2. ThreadPart'
    BY <1>0, <1>14, <2>1, ThreadClosesKeeps
  <2> QED BY <2>1, <2>2, <1>a, <1>b, <1>d DEF PanelsIInv
<1>15. ASSUME NEW s \in {"public", "bot"}, HandleSpaceSelect(s)
       PROVE  PanelsIInv'
  BY <1>0, <1>15, <1>a, <1>c, ToggledOf, SpaceSelectKeeps DEF PanelsIInv, HandleSpaceSelect
<1>16. ASSUME NEW f \in fetches, HistoryAnswers(f)
       PROVE  PanelsIInv'
  <2>1. f.of \in Users
    BY <1>0 DEF SpacePart
  <2>2. SpacePart'
    BY <1>0, <1>16, <2>1 DEF SpacePart, HistoryAnswers, Taken
  <2> QED BY <1>16, <2>2, <1>a, <1>b, <1>c DEF PanelsIInv, HistoryAnswers
<1>17. CASE PrivateMessage
  <2>1. SpacePart'
    BY <1>0, <1>17 DEF SpacePart, PrivateMessage
  <2> QED BY <1>17, <2>1, <1>a, <1>b, <1>c DEF PanelsIInv, PrivateMessage
<1>18. CASE HandleDisconnect
  <2>1. SpacePart'
    BY <1>0, <1>18 DEF SpacePart, HandleDisconnect
  <2> QED BY <1>18, <2>1, <1>a, <1>b, <1>c DEF PanelsIInv, HandleDisconnect
<1>19. ASSUME NEW u \in Users, Login(u)
       PROVE  PanelsIInv'
  <2>1. SpacePart'
    BY <1>0, <1>19 DEF SpacePart, Login
  <2> QED BY <1>19, <2>1, <1>a, <1>b, <1>c DEF PanelsIInv, Login
<1>20. ASSUME NEW o \in {"sidebar", "settings", "more", "mobile"}, ToggleOverlay(o)
       PROVE  PanelsIInv'
  BY <1>20, <1>a, <1>b, <1>c, <1>d DEF PanelsIInv, ToggleOverlay
<1>21. CASE UNCHANGED panelsVars
  BY <1>21, <1>a, <1>b, <1>c, <1>d DEF PanelsIInv, panelsVars
<1> QED BY <1>1, <1>2, <1>3, <1>4, <1>5, <1>6, <1>7, <1>8, <1>9, <1>10, <1>11, <1>12, <1>13, <1>14,
           <1>15, <1>16, <1>17, <1>18, <1>19, <1>20, <1>21 DEF PanelsNext

LEMMA PanelsInvariant == PanelsSpec => []PanelsIInv
<1>1. PanelsInit => PanelsIInv
  BY InitHolds
<1>2. PanelsIInv /\ [PanelsNext]_panelsVars => PanelsIInv'
  BY StepKeeps
<1> QED BY <1>1, <1>2, PTL DEF PanelsSpec

-----------------------------------------------------------------------------
(* Theorems                                                                *)

\* Both searches show, select and mark what belongs to their query (SearchBar,
\* ConversationSearch): when all requests are answered in order, the results are those of
\* the query that was typed last, and the selection is one of them.
THEOREM SearchesHold == PanelsSpec => []SearchInv
<1>1. PanelsIInv => SearchInv
  BY DEF PanelsIInv, SearchInv, PanelsTypeOK, SearchSettles, SelectionInRange, HighlightEnds, SearchPart, SearchOK,
         ConvOK, ThreadPart, SpacePart, Searches, Convs
<1> QED BY <1>1, PanelsInvariant, PTL

\* However threads are opened and closed and whichever answers are dropped, a panel whose
\* request was answered last has its own replies, and replies of another message are only
\* in one that was opened before they came (handleOpenThread, handleThreadMessages).
THEOREM ThreadsSettle == PanelsSpec => []ThreadSettles
<1>1. PanelsIInv => ThreadSettles
  BY DEF PanelsIInv, ThreadPart, ThreadSettles
<1> QED BY <1>1, PanelsInvariant, PTL

\* The history of the private space that is taken is the one that this stay in the space has
\* asked for, however often the user enters and leaves meanwhile (the effect's cancelled).
THEOREM HistoriesAreWanted == PanelsSpec => HistoryIsWanted
<1>1. PanelsIInv /\ [PanelsNext]_panelsVars =>
        (fetches' # fetches /\ private' # private => space = "bot" /\ \A f \in fetches' : ~f.wanted)
  <2> SUFFICES ASSUME PanelsIInv, [PanelsNext]_panelsVars, fetches' # fetches, private' # private
               PROVE  space = "bot" /\ \A f \in fetches' : ~f.wanted
    OBVIOUS
  <2>1. PICK f \in fetches : HistoryAnswers(f)
    BY DEF PanelsNext, panelsVars, searchVars, threadVars, spaceVars, ToggleSearch, Search, MoveSelection, TypeQuery,
       TypeInConversation, SearchAnswers, LeaveSearch, Escape, ToggleConversationSearch, MoveInConversation,
       HandleOpenThread, ThreadAnswers, NothingComes, SocketCloses, HandleClose, HandleCloseThread, HandleSpaceSelect,
       PrivateMessage, HandleDisconnect, Login, ToggleOverlay
  <2>2. f.wanted /\ fetches' = fetches \ {f}
    BY <2>1 DEF HistoryAnswers, Taken
  <2> QED BY <2>2 DEF PanelsIInv, SpacePart
<1> QED BY <1>1, PanelsInvariant, PTL DEF PanelsSpec, HistoryIsWanted
=============================================================================

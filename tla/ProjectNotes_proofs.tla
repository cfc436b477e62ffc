------------------------ MODULE ProjectNotes_proofs ------------------------
(***************************************************************************)
(* Theorems about ProjectContent for every number of clients, notes,       *)
(* slots, messages and failures, whatever calls overlap, and their proofs: *)
(* the types of the state, the order in which clients see the messages,    *)
(* and that no note is stored twice.                                       *)
(*                                                                         *)
(* Edited, Without and KeysAfter are functions on an interval, defined by  *)
(* recursion.  What they compute is proved by induction along the          *)
(* interval, of membership in a set.                                       *)
(***************************************************************************)
EXTENDS ProjectContent, WellFoundedInduction, SequenceTheorems, TLAPS

---------------------------------------------------------------------------
(***************************************************************************)
(* Induction over an interval, and what is computed along it.              *)
(***************************************************************************)

\* A nonempty set of natural numbers has a least element.
LEMMA Least ==
  ASSUME NEW T \in SUBSET Nat, T # {}
  PROVE  \E m \in T : \A k \in T : m <= k
<1> DEFINE R == OpToRel(<, Nat)
<1>1. IsWellFoundedOn(R, Nat)
  BY NatLessThanWellFounded
<1>2. \A x, y \in Nat : x < y => <<x, y>> \in R
  BY DEF OpToRel
<1> HIDE DEF R
<1>3. PICK m \in T : \A k \in T : ~ (<<k, m>> \in R)
  BY <1>1, WFMin
<1>4. ASSUME NEW k \in T
      PROVE  m <= k
  <2>1. m \in Nat /\ k \in Nat
    OBVIOUS
  <2>2. ~ (k < m)
    BY <1>2, <1>3, <2>1
  <2> QED BY <2>1, <2>2
<1> QED BY <1>4

LEMMA UpTo ==
  ASSUME NEW n \in Nat, NEW P, 0 \in P, \A i \in 1..n : i - 1 \in P => i \in P
  PROVE  \A i \in 0..n : i \in P
<1> DEFINE T == {i \in 0..n : i \notin P}
<1> SUFFICES ASSUME T # {} PROVE FALSE
  OBVIOUS
<1>1. T \in SUBSET Nat
  OBVIOUS
<1>2. PICK m \in T : \A k \in T : m <= k
  BY <1>1, Least
<1>3. m \in 1..n /\ m - 1 \in 0..n /\ ~ (m <= m - 1)
  BY <1>2
<1>4. m - 1 \in P
  BY <1>2, <1>3
<1> QED BY <1>2, <1>3, <1>4

\* g applied n times, beginning with b, is a function on 0..n.
Iterates(f, n, b, g) == f = [i \in 0..n |-> IF i = 0 THEN b ELSE g[<<i, f[i - 1]>>]]

LEMMA Iteration ==
  ASSUME NEW n \in Nat, NEW U, NEW b \in U, NEW g \in [(1..n) \X U -> U]
  PROVE  \E f \in [0..n -> U] : Iterates(f, n, b, g)
<1> DEFINE P == {m \in 0..n : \E f \in [0..m -> U] : Iterates(f, m, b, g)}
<1>1. 0 \in P
  <2> DEFINE f == [i \in 0..0 |-> b]
  <2>1. f \in [0..0 -> U] /\ Iterates(f, 0, b, g)
    BY DEF Iterates
  <2> QED BY <2>1
<1>2. ASSUME NEW m \in 1..n, m - 1 \in P
      PROVE  m \in P
  <2>1. PICK f \in [0..(m - 1) -> U] : Iterates(f, m - 1, b, g)
    BY <1>2
  <2>2. /\ f[0] = b
        /\ \A i \in 1..(m - 1) : f[i] = g[<<i, f[i - 1]>>]
    BY <2>1 DEF Iterates
  <2> DEFINE h == [i \in 0..m |-> IF i = m THEN g[<<m, f[m - 1]>>] ELSE f[i]]
  <2>3. f[m - 1] \in U
    BY <2>1
  <2>4. g[<<m, f[m - 1]>>] \in U
    BY <2>3
  <2>5. \A i \in 0..m : i # m => i \in 0..(m - 1)
    OBVIOUS
  <2>6. h \in [0..m -> U]
    BY <2>1, <2>4, <2>5
  <2>7. /\ h[0] = b
        /\ \A i \in 1..m : h[i] = g[<<i, h[i - 1]>>]
    <3>1. \A i \in 1..m : i - 1 \in 0..m /\ i - 1 # m /\ h[i - 1] = f[i - 1]
      OBVIOUS
    <3>2. h[0] = b
      BY <2>2
    <3>3. ASSUME NEW i \in 1..m PROVE h[i] = g[<<i, h[i - 1]>>]
      <4>1. CASE i = m
        <5>1. h[i] = g[<<m, f[m - 1]>>] /\ h[i - 1] = f[m - 1]
          BY <3>1, <4>1
        <5> QED BY <4>1, <5>1
      <4>2. CASE i # m
        <5>1. i \in 1..(m - 1) /\ h[i] = f[i]
          BY <4>2
        <5>2. h[i - 1] = f[i - 1]
          BY <3>1
        <5>3. f[i] = g[<<i, f[i - 1]>>]
          BY <2>2, <5>1
        <5> QED BY <5>1, <5>2, <5>3
      <4> QED BY <4>1, <4>2
    <3> QED BY <3>2, <3>3
  <2> HIDE DEF h
  <2>8. Iterates(h, m, b, g)
    <3>1. \A i \in 0..m : i # 0 => i \in 1..m
      OBVIOUS
    <3>2. \A i \in 0..m : h[i] = IF i = 0 THEN b ELSE g[<<i, h[i - 1]>>]
      BY <2>7, <3>1
    <3> QED BY <2>6, <3>2 DEF Iterates
  <2> QED BY <2>6, <2>8
<1> HIDE DEF P
<1>3. n \in P
  <2>1. \A i \in 0..n : i \in P
    BY <1>1, <1>2, UpTo
  <2> QED BY <2>1
<1> QED BY <1>3 DEF P

---------------------------------------------------------------------------
(***************************************************************************)
(* What the entries of a message do to notes.                              *)
(***************************************************************************)

Entry == [action : Actions, uuid : Uuids]
Named(notes)  == {notes[j].uuid : j \in DOMAIN notes}
Unique(notes) == \A j, k \in DOMAIN notes : notes[j].uuid = notes[k].uuid => j = k

LEMMA OneNoteMore ==
  ASSUME NEW notes \in Contents, NEW x \in Notes, NEW r, r = Append(notes, x)
  PROVE  /\ r \in Contents
         /\ Named(r) = Named(notes) \cup {x.uuid}
         /\ Unique(notes) /\ x.uuid \notin Named(notes) => Unique(r)
<1>1. /\ r \in Contents /\ Len(notes) \in Nat /\ DOMAIN notes = 1..Len(notes)
      /\ DOMAIN r = 1..(Len(notes) + 1)
      /\ r[Len(notes) + 1] = x /\ \A j \in 1..Len(notes) : r[j] = notes[j]
      /\ \A j \in DOMAIN r : j \in 1..Len(notes) \/ j = Len(notes) + 1
  BY DEF Contents
<1>2. Named(r) = Named(notes) \cup {x.uuid}
  BY <1>1 DEF Named
<1>3. ASSUME Unique(notes), x.uuid \notin Named(notes)
      PROVE  Unique(r)
  <2>1. \A j \in 1..Len(notes) : r[j].uuid # x.uuid
    BY <1>1, <1>3 DEF Named
  <2> SUFFICES ASSUME NEW j \in DOMAIN r, NEW k \in DOMAIN r, r[j].uuid = r[k].uuid PROVE j = k
    BY DEF Unique
  <2>2. CASE j \in 1..Len(notes) /\ k \in 1..Len(notes)
    BY <1>1, <1>3, <2>2 DEF Unique
  <2>3. CASE j = Len(notes) + 1 \/ k = Len(notes) + 1
    BY <1>1, <2>1, <2>3
  <2> QED BY <1>1, <2>2, <2>3
<1> QED BY <1>1, <1>2, <1>3

\* Without keeps notes, and no other.
Keeps(r, notes) ==
  /\ r \in Contents
  /\ Named(r) \subseteq Named(notes)
  /\ Unique(notes) => Unique(r)

LEMMA WithoutKeeps ==
  ASSUME NEW notes \in Contents, NEW u
  PROVE  Keeps(Without(notes, u), notes)
<1> DEFINE n == Len(notes)
           Step(f, j) == IF notes[j].uuid = u THEN f[j - 1] ELSE Append(f[j - 1], notes[j])
           Runs(f) == f = [j \in 0..n |-> IF j = 0 THEN <<>> ELSE Step(f, j)]
<1>1. n \in Nat /\ DOMAIN notes = 1..n /\ \A j \in 1..n : notes[j] \in Notes
  <2>1. n \in Nat /\ DOMAIN notes = 1..n
    BY DEF Contents
  <2> QED BY <2>1, ElementOfSeq DEF Contents
<1>2. \E f : Runs(f)
  <2> DEFINE g == [p \in (1..n) \X Contents |->
                     IF notes[p[1]].uuid = u THEN p[2] ELSE Append(p[2], notes[p[1]])]
  <2>1. <<>> \in Contents
    BY DEF Contents
  <2>2. g \in [(1..n) \X Contents -> Contents]
    BY <1>1, OneNoteMore
  <2>3. \A j \in 1..n : \A c \in Contents :
          g[<<j, c>>] = IF notes[j].uuid = u THEN c ELSE Append(c, notes[j])
    OBVIOUS
  <2> HIDE DEF g
  <2>4. PICK f \in [0..n -> Contents] : Iterates(f, n, <<>>, g)
    BY <1>1, <2>1, <2>2, Iteration
  <2>5. ASSUME NEW j \in 0..n
        PROVE  f[j] = IF j = 0 THEN <<>> ELSE Step(f, j)
    <3>1. f[j] = IF j = 0 THEN <<>> ELSE g[<<j, f[j - 1]>>]
      BY <2>4, Zenon DEF Iterates
    <3>2. CASE j # 0
      <4>1. j \in 1..n /\ j - 1 \in 0..n
        BY <1>1, <3>2
      <4>2. f[j - 1] \in Contents
        BY <4>1
      <4> QED BY <2>3, <3>1, <3>2, <4>1, <4>2
    <3> QED BY <3>1, <3>2
  <2>6. Runs(f)
    BY <2>4, <2>5
  <2> QED BY <2>6
<1>3. PICK f : Runs(f) /\ Without(notes, u) = f[n]
  <2>1. Runs(CHOOSE f : Runs(f))
    BY <1>2
  <2> QED BY <2>1 DEF Without
<1>4. f[0] = <<>> /\ \A j \in 1..n : f[j] = Step(f, j)
  <2>1. \A j \in 0..n : f[j] = IF j = 0 THEN <<>> ELSE Step(f, j)
    BY <1>3, Zenon
  <2>2. 0 \in 0..n /\ \A j \in 1..n : j \in 0..n /\ j # 0
    BY <1>1
  <2> HIDE DEF Step
  <2> QED BY <2>1, <2>2, Zenon
<1> HIDE DEF Runs
<1> DEFINE Before(j) == {notes[i].uuid : i \in 1..j}
           P == {j \in 0..n : /\ f[j] \in Contents
                              /\ Named(f[j]) \subseteq Before(j)
                              /\ Unique(notes) => Unique(f[j])}
<1>5. 0 \in P
  <2>1. <<>> \in Contents /\ Named(<<>>) = {} /\ Unique(<<>>)
    BY DEF Contents, Named, Unique
  <2>2. 0 \in 0..n
    BY <1>1
  <2> QED BY <1>4, <2>1, <2>2, Zenon
<1>6. ASSUME NEW j \in 1..n, j - 1 \in P
      PROVE  j \in P
  <2>1. /\ f[j - 1] \in Contents /\ Named(f[j - 1]) \subseteq Before(j - 1)
        /\ Unique(notes) => Unique(f[j - 1])
    BY <1>6
  <2>2. Before(j - 1) \subseteq Before(j) /\ notes[j].uuid \in Before(j) /\ j \in 0..n
    BY <1>1
  <2>3. CASE notes[j].uuid = u
    BY <1>4, <2>1, <2>2, <2>3
  <2>4. CASE notes[j].uuid # u
    <3>1. PICK c, x, r : c = f[j - 1] /\ x = notes[j] /\ r = Append(c, x)
      OBVIOUS
    <3>2. f[j] = r /\ c \in Contents /\ x \in Notes
      BY <1>1, <1>4, <2>1, <2>4, <3>1
    <3>3. /\ r \in Contents
          /\ Named(r) = Named(c) \cup {x.uuid}
          /\ Unique(c) /\ x.uuid \notin Named(c) => Unique(r)
      BY <3>1, <3>2, OneNoteMore
    <3>4. Unique(notes) => x.uuid \notin Before(j - 1)
      BY <1>1, <3>1 DEF Unique
    <3>5. Named(r) \subseteq Before(j)
      BY <2>1, <2>2, <3>1, <3>3
    <3>6. Unique(notes) => Unique(r)
      BY <2>1, <3>1, <3>3, <3>4
    <3> QED BY <2>2, <3>2, <3>3, <3>5, <3>6
  <2> QED BY <2>3, <2>4
<1>7. n \in P
  <2> HIDE DEF P
  <2>1. \A j \in 0..n : j \in P
    BY <1>1, <1>5, <1>6, UpTo
  <2> QED BY <1>1, <2>1
<1>8. Before(n) = Named(notes)
  BY <1>1 DEF Named
<1> QED BY <1>3, <1>7, <1>8 DEF Keeps

\* One entry of message k: it may add the note of its uuid, and no other.
LEMMA AppliedNotes ==
  ASSUME NEW notes \in Contents, NEW e \in Entry, NEW k \in 1..MaxMessages,
         NEW r, r = Applied(notes, e, k)
  PROVE  /\ r \in Contents
         /\ Named(r) \subseteq Named(notes) \cup (IF e.action = "ADD" THEN {e.uuid} ELSE {})
         /\ Unique(notes) /\ (e.action = "ADD" => e.uuid \notin Named(notes)) => Unique(r)
<1>1. e.action \in Actions /\ e.uuid \in Uuids
  BY DEF Entry
<1> DEFINE x == [uuid |-> e.uuid, by |-> k]
<1>2. x \in Notes /\ x.uuid = e.uuid
  BY <1>1 DEF Notes
<1> HIDE DEF x
<1>3. CASE e.action = "ADD"
  <2>1. r = Append(notes, x)
    BY <1>3 DEF Applied, x
  <2> QED BY <1>2, <1>3, <2>1, OneNoteMore
<1>4. CASE e.action = "UPDATE"
  <2>1. r = [j \in DOMAIN notes |-> IF notes[j].uuid = e.uuid THEN x ELSE notes[j]]
    BY <1>4 DEF Applied, x
  <2>2. /\ Len(notes) \in Nat /\ DOMAIN notes = 1..Len(notes)
        /\ \A j \in 1..Len(notes) : notes[j] \in Notes
    <3>1. Len(notes) \in Nat /\ DOMAIN notes = 1..Len(notes)
      BY DEF Contents
    <3> QED BY <3>1, ElementOfSeq DEF Contents
  <2>3. r \in [1..Len(notes) -> Notes]
    BY <1>2, <2>1, <2>2
  <2>4. r \in Contents
    BY <2>2, <2>3 DEF Contents
  <2>5. DOMAIN r = DOMAIN notes /\ \A j \in DOMAIN notes : r[j].uuid = notes[j].uuid
    BY <1>2, <2>1
  <2> QED BY <2>4, <2>5 DEF Named, Unique
<1>5. CASE e.action = "DELETE"
  <2>1. r = Without(notes, e.uuid)
    BY <1>5 DEF Applied
  <2>2. Keeps(r, notes)
    BY <2>1, WithoutKeeps
  <2> QED BY <2>2 DEF Keeps
<1> QED BY <1>1, <1>3, <1>4, <1>5 DEF Actions

\* Message k on notes that have none of what it adds.
EditKeeps(r, notes, b) ==
  /\ r \in Contents
  /\ Named(r) \subseteq Named(notes) \cup Added(b)
  /\ Unique(notes) /\ Named(notes) \cap Added(b) = {} => Unique(r)

LEMMA EditedKeeps ==
  ASSUME NEW notes \in Contents, NEW k \in 1..MaxMessages, NEW b \in Batches, batches[k] = b
  PROVE  EditKeeps(Edited(notes, k), notes, b)
<1> DEFINE n == Len(b)
           Step(f, i) == Applied(f[i - 1], b[i], k)
           Runs(f) == f = [i \in 0..n |-> IF i = 0 THEN notes ELSE Step(f, i)]
<1>1. n \in Nat /\ DOMAIN b = 1..n /\ \A i \in 1..n : b[i] \in Entry
  <2>1. b \in Seq(Entry)
    BY ContentConstants DEF Entry
  <2>2. n \in Nat /\ DOMAIN b = 1..n
    BY <2>1
  <2> QED BY <2>1, <2>2, ElementOfSeq
<1>2. \E f : Runs(f)
  <2> DEFINE g == [p \in (1..n) \X Contents |-> Applied(p[2], b[p[1]], k)]
  <2>1. \A i \in 1..n : \A c \in Contents : Applied(c, b[i], k) \in Contents
    BY <1>1, AppliedNotes
  <2>2. g \in [(1..n) \X Contents -> Contents]
    BY <2>1
  <2>3. \A i \in 1..n : \A c \in Contents : g[<<i, c>>] = Applied(c, b[i], k)
    OBVIOUS
  <2> HIDE DEF g
  <2>4. PICK f \in [0..n -> Contents] : Iterates(f, n, notes, g)
    BY <1>1, <2>2, Iteration
  <2>5. ASSUME NEW i \in 0..n
        PROVE  f[i] = IF i = 0 THEN notes ELSE Step(f, i)
    <3>1. f[i] = IF i = 0 THEN notes ELSE g[<<i, f[i - 1]>>]
      BY <2>4, Zenon DEF Iterates
    <3>2. CASE i # 0
      <4>1. i \in 1..n /\ i - 1 \in 0..n
        BY <1>1, <3>2
      <4>2. f[i - 1] \in Contents
        BY <4>1
      <4> QED BY <2>3, <3>1, <3>2, <4>1, <4>2
    <3> QED BY <3>1, <3>2
  <2>6. Runs(f)
    BY <2>4, <2>5
  <2> QED BY <2>6
<1>3. PICK f : Runs(f) /\ Edited(notes, k) = f[n]
  <2>1. Runs(CHOOSE f : Runs(f))
    BY <1>2
  <2>2. Edited(notes, k) = (CHOOSE f : Runs(f))[n]
    BY Zenon DEF Edited
  <2> HIDE DEF Runs
  <2> QED BY <2>1, <2>2
<1>4. f[0] = notes /\ \A i \in 1..n : f[i] = Step(f, i)
  <2>1. \A i \in 0..n : f[i] = IF i = 0 THEN notes ELSE Step(f, i)
    BY <1>3, Zenon
  <2>2. 0 \in 0..n /\ \A i \in 1..n : i \in 0..n /\ i # 0
    BY <1>1
  <2> HIDE DEF Step
  <2> QED BY <2>1, <2>2, Zenon
<1> HIDE DEF Runs
\* Added by the entries up to the i-th.
<1> DEFINE Sofar(i) == {b[j].uuid : j \in {h \in 1..i : b[h].action = "ADD"}}
           Clean == Unique(notes) /\ Named(notes) \cap Added(b) = {}
           P == {i \in 0..n : /\ f[i] \in Contents
                              /\ Named(f[i]) \subseteq Named(notes) \cup Sofar(i)
                              /\ Clean => Unique(f[i])}
<1>5. 0 \in P
  BY <1>1, <1>4
<1>6. ASSUME NEW i \in 1..n, i - 1 \in P
      PROVE  i \in P
  <2>1. PICK c, e, r : c = f[i - 1] /\ e = b[i] /\ r = f[i]
    OBVIOUS
  <2>2. /\ c \in Contents /\ Named(c) \subseteq Named(notes) \cup Sofar(i - 1)
        /\ Clean => Unique(c)
    BY <1>6, <2>1
  <2>3. e \in Entry /\ r = Applied(c, e, k)
    BY <1>1, <1>4, <2>1
  <2>4. /\ r \in Contents
        /\ Named(r) \subseteq Named(c) \cup (IF e.action = "ADD" THEN {e.uuid} ELSE {})
        /\ Unique(c) /\ (e.action = "ADD" => e.uuid \notin Named(c)) => Unique(r)
    BY <2>2, <2>3, AppliedNotes
  <2>5. Sofar(i - 1) \subseteq Sofar(i) /\ (e.action = "ADD" => e.uuid \in Sofar(i)) /\ i \in 0..n
    BY <1>1, <2>1
  <2>6. ASSUME Clean, e.action = "ADD"
        PROVE  e.uuid \notin Named(c)
    <3>1. e.uuid \in Added(b)
      BY <1>1, <2>1, <2>6 DEF Added
    <3>2. e.uuid \notin Named(notes)
      BY <2>6, <3>1
    <3>3. ASSUME NEW h \in 1..(i - 1), b[h].action = "ADD", b[h].uuid = e.uuid
          PROVE  FALSE
      <4>1. h \in 1..n /\ h \in DOMAIN b /\ i \in DOMAIN b /\ h # i
        BY <1>1
      <4>2. b[h] = b[i]
        BY <1>1, <2>1, <2>6, <3>3, <4>1 DEF Entry
      <4> QED BY <2>1, <2>6, <4>1, <4>2, NewNotes
    <3>4. e.uuid \notin Sofar(i - 1)
      BY <3>3
    <3> QED BY <2>2, <3>2, <3>4
  <2>7. Named(r) \subseteq Named(notes) \cup Sofar(i)
    BY <2>2, <2>4, <2>5
  <2>8. Clean => Unique(r)
    BY <2>2, <2>4, <2>6
  <2> HIDE DEF Clean, Sofar
  <2> QED BY <2>1, <2>4, <2>5, <2>7, <2>8
<1>7. n \in P
  <2> HIDE DEF P
  <2>1. \A i \in 0..n : i \in P
    BY <1>1, <1>5, <1>6, UpTo
  <2> QED BY <1>1, <2>1
<1>8. Sofar(n) = Added(b)
  BY <1>1 DEF Added
<1> QED BY <1>3, <1>7, <1>8 DEF EditKeeps

---------------------------------------------------------------------------
(***************************************************************************)
(* The queues of commands and replies.                                     *)
(***************************************************************************)

On(q)       == {q[j] : j \in DOMAIN q}
Distinct(q) == \A i, j \in DOMAIN q : q[i] = q[j] => i = j
Queue(q)    == q \in Seq(Slots) /\ Distinct(q)

LEMMA NoneQueued == Queue(<<>>) /\ On(<<>>) = {}
BY DEF Queue, Distinct, On

LEMMA Enqueued ==
  ASSUME NEW q, Queue(q), NEW s \in Slots, s \notin On(q), NEW r, r = Append(q, s)
  PROVE  Queue(r) /\ On(r) = On(q) \cup {s}
<1>1. /\ r \in Seq(Slots) /\ Len(q) \in Nat /\ DOMAIN q = 1..Len(q) /\ DOMAIN r = 1..(Len(q) + 1)
      /\ r[Len(q) + 1] = s /\ \A j \in 1..Len(q) : r[j] = q[j]
      /\ \A j \in DOMAIN r : j \in 1..Len(q) \/ j = Len(q) + 1
  BY DEF Queue
<1>2. On(r) = On(q) \cup {s}
  BY <1>1 DEF On
<1>3. \A j \in 1..Len(q) : r[j] # s
  BY <1>1 DEF On
<1>4. ASSUME NEW i \in DOMAIN r, NEW j \in DOMAIN r, r[i] = r[j]
      PROVE  i = j
  <2>1. CASE i \in 1..Len(q) /\ j \in 1..Len(q)
    BY <1>1, <1>4, <2>1 DEF Queue, Distinct
  <2> QED BY <1>1, <1>3, <1>4, <2>1
<1> QED BY <1>1, <1>2, <1>4 DEF Queue, Distinct

LEMMA Dequeued ==
  ASSUME NEW q, Queue(q), q # <<>>, NEW h, h = Head(q), NEW r, r = Tail(q)
  PROVE  Queue(r) /\ h \in On(q) /\ h \in Slots /\ On(r) = On(q) \ {h}
<1>1. /\ r \in Seq(Slots) /\ Len(q) \in Nat /\ Len(q) >= 1 /\ DOMAIN q = 1..Len(q)
      /\ DOMAIN r = 1..(Len(q) - 1) /\ h = q[1] /\ \A j \in 1..(Len(q) - 1) : r[j] = q[j + 1]
  BY DEF Queue
<1>2. \A i, j \in 1..Len(q) : q[i] = q[j] => i = j
  BY <1>1 DEF Queue, Distinct
<1>3. h \in On(q) /\ h \in Slots
  <2>1. 1 \in 1..Len(q)
    BY <1>1
  <2>2. q[1] \in Slots
    BY <2>1, ElementOfSeq DEF Queue
  <2> QED BY <1>1, <2>1, <2>2 DEF On
<1>4. Distinct(r)
  <2> SUFFICES ASSUME NEW i \in DOMAIN r, NEW j \in DOMAIN r, r[i] = r[j] PROVE i = j
    BY DEF Distinct
  <2>1. i + 1 \in 1..Len(q) /\ j + 1 \in 1..Len(q) /\ q[i + 1] = q[j + 1]
    BY <1>1
  <2>2. i + 1 = j + 1
    BY <1>2, <2>1
  <2> QED BY <1>1, <2>2
<1>5. ASSUME NEW x \in On(r)
      PROVE  x \in On(q) /\ x # h
  <2>1. PICK j \in 1..(Len(q) - 1) : x = q[j + 1]
    BY <1>1 DEF On
  <2>2. j + 1 \in 1..Len(q) /\ 1 \in 1..Len(q) /\ j + 1 # 1
    BY <1>1
  <2> QED BY <1>1, <1>2, <2>1, <2>2 DEF On
<1>6. ASSUME NEW x \in On(q), x # h
      PROVE  x \in On(r)
  <2>1. PICK j \in 1..Len(q) : x = q[j]
    BY <1>1 DEF On
  <2>2. j # 1
    BY <1>1, <1>6, <2>1
  <2>3. j - 1 \in 1..(Len(q) - 1) /\ (j - 1) + 1 = j
    BY <1>1, <2>2
  <2>4. r[j - 1] = x
    BY <1>1, <2>1, <2>3
  <2> QED BY <1>1, <2>3, <2>4 DEF On
<1> QED BY <1>1, <1>3, <1>4, <1>5, <1>6 DEF Queue

\* r is a and then b.
Joined(r, a, b) ==
  /\ r \in Seq(Slots)
  /\ Len(r) = Len(a) + Len(b)
  /\ \A i \in 1..Len(r) : r[i] = IF i <= Len(a) THEN a[i] ELSE b[i - Len(a)]

LEMMA Joins ==
  ASSUME NEW a \in Seq(Slots), NEW b \in Seq(Slots), NEW r, r = a \o b
  PROVE  Joined(r, a, b)
<1>1. r \in Seq(Slots) /\ Len(r) = Len(a) + Len(b)
  BY ConcatProperties
<1>2. \A i \in 1..(Len(a) + Len(b)) : r[i] = IF i <= Len(a) THEN a[i] ELSE b[i - Len(a)]
  BY ConcatProperties
<1> QED BY <1>1, <1>2 DEF Joined

\* Where the i-th entry was before the j-th was removed.
Past(i, j) == IF i < j THEN i ELSE i + 1
Removed(r, q, j) ==
  /\ Queue(r)
  /\ Len(r) = Len(q) - 1
  /\ \A i \in 1..Len(r) : Past(i, j) \in 1..Len(q) /\ r[i] = q[Past(i, j)]

LEMMA RemovedAt ==
  ASSUME NEW q, Queue(q), NEW j \in DOMAIN q, NEW r, r = RemoveAt(q, j)
  PROVE  Removed(r, q, j)
<1>1. q \in Seq(Slots) /\ Len(q) \in Nat /\ DOMAIN q = 1..Len(q)
  BY DEF Queue
<1> DEFINE a == SubSeq(q, 1, j - 1)
           b == SubSeq(q, j + 1, Len(q))
<1>2. /\ a \in Seq(Slots) /\ Len(a) = j - 1
      /\ \A i \in 1..(j - 1) : a[i] = q[i]
  BY <1>1, SubSeqProperties
<1>3. /\ b \in Seq(Slots) /\ Len(b) = Len(q) - j
      /\ \A i \in 1..(Len(q) - j) : b[i] = q[j + i]
  BY <1>1, SubSeqProperties
<1>4. r = a \o b
  BY DEF RemoveAt
<1> HIDE DEF a, b
<1>5. Joined(r, a, b)
  BY <1>2, <1>3, <1>4, Joins
<1>6. r \in Seq(Slots) /\ Len(r) = Len(q) - 1
  BY <1>1, <1>2, <1>3, <1>5 DEF Joined
<1>7. ASSUME NEW i \in 1..Len(r)
      PROVE  Past(i, j) \in 1..Len(q) /\ r[i] = q[Past(i, j)]
  <2>1. i \in 1..(Len(a) + Len(b))
    BY <1>5 DEF Joined
  <2>2. r[i] = IF i <= Len(a) THEN a[i] ELSE b[i - Len(a)]
    BY <1>5, <2>1 DEF Joined
  <2>3. CASE i < j
    <3>1. i <= Len(a) /\ i \in 1..(j - 1) /\ i \in 1..Len(q)
      BY <1>1, <1>2, <1>6, <2>3
    <3> QED BY <1>2, <2>2, <2>3, <3>1 DEF Past
  <2>4. CASE ~ (i < j)
    <3>1. /\ ~ (i <= Len(a)) /\ i - Len(a) \in 1..(Len(q) - j)
          /\ j + (i - Len(a)) = i + 1 /\ i + 1 \in 1..Len(q)
      BY <1>1, <1>2, <1>6, <2>4
    <3>2. r[i] = b[i - Len(a)]
      BY <2>2, <3>1
    <3>3. b[i - Len(a)] = q[i + 1]
      BY <1>3, <3>1
    <3> QED BY <2>4, <3>1, <3>2, <3>3 DEF Past
  <2> QED BY <2>3, <2>4
<1>8. Distinct(r)
  <2> SUFFICES ASSUME NEW h \in 1..Len(r), NEW i \in 1..Len(r), r[h] = r[i] PROVE h = i
    BY <1>6 DEF Distinct
  <2>1. Past(h, j) = Past(i, j)
    BY <1>1, <1>7 DEF Queue, Distinct
  <2> QED BY <1>1, <1>6, <2>1 DEF Past
<1> QED BY <1>6, <1>7, <1>8 DEF Removed, Queue

LEMMA RemovedOn ==
  ASSUME NEW q, Queue(q), NEW j \in DOMAIN q, NEW r, Removed(r, q, j)
  PROVE  Queue(r) /\ On(r) = On(q) \ {q[j]}
<1>1. /\ q \in Seq(Slots) /\ Len(q) \in Nat /\ DOMAIN q = 1..Len(q)
      /\ DOMAIN r = 1..(Len(q) - 1) /\ Len(r) = Len(q) - 1
      /\ \A i \in 1..Len(r) : Past(i, j) \in 1..Len(q) /\ r[i] = q[Past(i, j)]
  BY DEF Queue, Removed
<1>2. \A h, i \in 1..Len(q) : q[h] = q[i] => h = i
  BY <1>1 DEF Queue, Distinct
<1>3. ASSUME NEW x \in On(r)
      PROVE  x \in On(q) /\ x # q[j]
  <2>1. PICK i \in 1..Len(r) : x = q[Past(i, j)] /\ Past(i, j) \in 1..Len(q)
    BY <1>1 DEF On
  <2>2. Past(i, j) # j
    BY <1>1 DEF Past
  <2> QED BY <1>1, <1>2, <2>1, <2>2 DEF On
<1>4. ASSUME NEW x \in On(q), x # q[j]
      PROVE  x \in On(r)
  <2>1. PICK h \in 1..Len(q) : x = q[h]
    BY <1>1 DEF On
  <2>2. h # j
    BY <1>4, <2>1
  <2>3. PICK i \in 1..Len(r) : Past(i, j) = h
    <3>1. CASE h < j
      <4>1. h \in 1..Len(r) /\ Past(h, j) = h
        BY <1>1, <3>1 DEF Past
      <4> QED BY <4>1
    <3>2. CASE ~ (h < j)
      <4>1. h - 1 \in 1..Len(r) /\ Past(h - 1, j) = h
        BY <1>1, <2>2, <3>2 DEF Past
      <4> QED BY <4>1
    <3> QED BY <3>1, <3>2
  <2>4. r[i] = x
    BY <1>1, <2>1, <2>3
  <2> QED BY <1>1, <2>4 DEF On
<1> QED BY <1>3, <1>4 DEF Removed

\* Taken removes the reply of slot s, wherever it is.
LEMMA TakenAway ==
  ASSUME Queue(replies), NEW s \in On(replies)
  PROVE  \E j \in DOMAIN replies : replies[j] = s /\ Removed(Taken(s), replies, j)
<1> DEFINE j == CHOOSE i \in DOMAIN replies : replies[i] = s
<1>1. j \in DOMAIN replies /\ replies[j] = s
  BY DEF On
<1>2. Taken(s) = RemoveAt(replies, j)
  BY DEF Taken
<1> HIDE DEF j
<1> QED BY <1>1, <1>2, RemovedAt

LEMMA TakenOn ==
  ASSUME Queue(replies), NEW s \in On(replies)
  PROVE  Queue(Taken(s)) /\ On(Taken(s)) = On(replies) \ {s}
<1>1. PICK j \in DOMAIN replies : replies[j] = s /\ Removed(Taken(s), replies, j)
  BY TakenAway
<1> QED BY <1>1, RemovedOn

---------------------------------------------------------------------------
(***************************************************************************)
(* The types of the state.                                                 *)
(***************************************************************************)

\* The awaits of the calls of each kind.
Stage(t) ==
  \/ t.kind = "none" /\ t.pc = "idle"
  \/ t.kind = "sync" /\ t.pc \in {"getHistory", "setHistory", "getContent", "setContent"}
  \/ t.kind = "snapshot" /\ t.pc \in {"getContent", "save"}
  \/ t.kind = "restore" /\ t.pc \in {"getContent", "save", "setContent"}

\* A call, when there are n messages.
CallOK(t, n) ==
  /\ Stage(t)
  /\ IF t.kind = "sync" THEN t.message \in 1..n ELSE t.message = 0
  /\ t.goal \in Contents
  /\ t.read \in IF t.pc \in {"getHistory", "setHistory"} THEN Seq(1..MaxMessages) ELSE Contents

KeysOK == [history : Seq(1..MaxMessages), content : Contents,
           stored : Seq(1..MaxMessages), ideal : Contents]

Values ==
  /\ room \subseteq Clients
  /\ snapshots \subseteq Contents
  /\ batches \in Seq(Batches)
  /\ Len(batches) <= MaxMessages
  /\ seen \in [Clients -> Seq(1..MaxMessages)]
  /\ overlapped \in BOOLEAN
  /\ failures \in 0..MaxFailures

Tasks == DOMAIN task = Slots /\ \A s \in Slots : CallOK(task[s], Len(batches))

\* No call waits for two commands, and none that is idle or saves a row for one.
Waiting(t) == t.pc \notin {"idle", "save"}
InFlight ==
  /\ Queue(pipe)
  /\ Queue(replies)
  /\ On(pipe) \cap On(replies) = {}
  /\ \A s \in On(pipe) \cup On(replies) : Waiting(task[s])

Typed == Values /\ Keys \in KeysOK /\ Tasks /\ InFlight

LEMMA TypedTypeOK == Typed => TypeOK
<1> SUFFICES ASSUME Typed PROVE TypeOK
  OBVIOUS
<1>1. /\ history \in Seq(1..MaxMessages) /\ content \in Contents
      /\ stored \in Seq(1..MaxMessages) /\ ideal \in Contents
  BY DEF Typed, Keys, KeysOK
<1>2. pipe \in Seq(Slots) /\ replies \in Seq(Slots)
  BY DEF Typed, InFlight, Queue
<1>3. ASSUME NEW s \in Slots
      PROVE  /\ task[s].pc \in PCs
             /\ task[s].kind \in Kinds
             /\ task[s].pc = "idle" <=> task[s].kind = "none"
             /\ task[s].kind = "sync" <=> task[s].message \in DOMAIN batches
             /\ task[s].goal \in Contents
             /\ task[s].read \in IF task[s].pc \in {"getHistory", "setHistory"}
                                  THEN Seq(1..MaxMessages) ELSE Contents
  <2>1. CallOK(task[s], Len(batches)) /\ DOMAIN batches = 1..Len(batches) /\ Len(batches) \in Nat
    BY DEF Typed, Tasks, Values
  <2> QED BY <2>1 DEF CallOK, Stage, PCs, Kinds
<1> QED BY <1>1, <1>2, <1>3 DEF Typed, Values, TypeOK

\* The slots of pipe and replies.
LEMMA Places ==
  ASSUME InFlight
  PROVE  /\ On(pipe) \subseteq Slots
         /\ On(replies) \subseteq Slots
         /\ \A s \in Slots : ~ Waiting(task[s]) => s \notin On(pipe) /\ s \notin On(replies)
<1>1. \A q : Queue(q) => On(q) \subseteq Slots
  <2> SUFFICES ASSUME NEW q, Queue(q), NEW j \in DOMAIN q PROVE q[j] \in Slots
    BY DEF On
  <2>1. q \in Seq(Slots) /\ DOMAIN q = 1..Len(q)
    BY DEF Queue
  <2> QED BY <2>1, ElementOfSeq
<1> QED BY <1>1 DEF InFlight

\* The values of a call that goes on or comes back.
LEMMA NextCallOK ==
  ASSUME NEW n \in Nat, NEW t, CallOK(t, n)
  PROVE  /\ t.pc = "getHistory" => CallOK(At(t, "setHistory"), n)
         /\ t.kind = "sync" => CallOK(Got(At(t, "getContent"), <<>>), n)
         /\ t.pc = "getContent" /\ t.kind = "sync" => CallOK(At(t, "setContent"), n)
         /\ t.pc = "getContent" /\ t.kind # "sync" => CallOK(At(t, "save"), n)
         /\ t.pc = "save" /\ t.kind = "restore" => CallOK(At(t, "setContent"), n)
         /\ Keys \in KeysOK => CallOK(Answer(t), n) /\ Answer(t).pc = t.pc
         /\ CallOK(NoCall, n)
<1>1. <<>> \in Contents
  BY DEF Contents
<1>2. t.pc = "getHistory" => t.kind = "sync"
  BY DEF CallOK, Stage
<1>3. /\ t.pc = "getHistory" => CallOK(At(t, "setHistory"), n)
      /\ t.kind = "sync" => CallOK(Got(At(t, "getContent"), <<>>), n)
      /\ t.pc = "getContent" /\ t.kind = "sync" => CallOK(At(t, "setContent"), n)
      /\ t.pc = "getContent" /\ t.kind # "sync" => CallOK(At(t, "save"), n)
      /\ t.pc = "save" /\ t.kind = "restore" => CallOK(At(t, "setContent"), n)
      /\ CallOK(NoCall, n)
  BY <1>1, <1>2 DEF CallOK, Stage, At, Got, NoCall, CallAt
<1>4. Keys \in KeysOK => CallOK(Answer(t), n) /\ Answer(t).pc = t.pc
  <2> SUFFICES ASSUME Keys \in KeysOK PROVE CallOK(Answer(t), n) /\ Answer(t).pc = t.pc
    OBVIOUS
  <2>1. history \in Seq(1..MaxMessages) /\ content \in Contents
    BY DEF Keys, KeysOK
  <2>2. CASE t.pc = "getHistory"
    BY <2>1, <2>2 DEF Answer, CallOK, Stage, Got, CallAt
  <2>3. CASE t.pc = "getContent"
    BY <2>1, <2>3 DEF Answer, CallOK, Stage, Got, CallAt
  <2> QED BY <2>2, <2>3 DEF Answer
<1> QED BY <1>3, <1>4

\* One call becomes t.
LEMMA OneCall ==
  ASSUME Tasks, batches \in Seq(Batches), batches' \in Seq(Batches), Len(batches) <= Len(batches'),
         NEW s \in Slots, NEW t, CallOK(t, Len(batches')), task' = [task EXCEPT ![s] = t]
  PROVE  /\ Tasks'
         /\ task'[s] = t
         /\ \A r \in Slots \ {s} : task'[r] = task[r]
<1>1. Len(batches) \in Nat /\ Len(batches') \in Nat
  OBVIOUS
<1>2. task'[s] = t /\ (\A r \in Slots \ {s} : task'[r] = task[r]) /\ DOMAIN task' = Slots
  BY DEF Tasks
<1>3. \A x : CallOK(x, Len(batches)) => CallOK(x, Len(batches'))
  <2> SUFFICES ASSUME NEW x, CallOK(x, Len(batches)) PROVE CallOK(x, Len(batches'))
    OBVIOUS
  <2>1. \A m : m \in 1..Len(batches) => m \in 1..Len(batches')
    BY <1>1
  <2> QED BY <2>1 DEF CallOK
<1> QED BY <1>2, <1>3 DEF Tasks

---------------------------------------------------------------------------
(***************************************************************************)
(* The commands of pipe that Redis executes.                               *)
(***************************************************************************)

LEMMA EffectOK ==
  ASSUME batches \in Seq(Batches), Len(batches) <= MaxMessages,
         NEW s, CallOK(task[s], Len(batches)), NEW r \in KeysOK
  PROVE  Effect(r, s) \in KeysOK
<1>1. Len(batches) \in Nat /\ MaxMessages \in Nat
  BY ContentConstants
<1>2. /\ r.history \in Seq(1..MaxMessages) /\ r.content \in Contents
      /\ r.stored \in Seq(1..MaxMessages) /\ r.ideal \in Contents
  BY DEF KeysOK
<1>3. task[s].kind = "sync" => task[s].message \in 1..MaxMessages
  BY <1>1 DEF CallOK
<1>4. ASSUME task[s].kind = "sync", NEW c \in Contents
      PROVE  Edited(c, task[s].message) \in Contents
  <2>1. PICK b : b = batches[task[s].message]
    OBVIOUS
  <2>2. task[s].message \in 1..Len(batches)
    BY <1>4 DEF CallOK
  <2>3. b \in Batches
    BY <2>1, <2>2, ElementOfSeq
  <2> QED BY <1>3, <1>4, <2>1, <2>3, EditedKeeps DEF EditKeeps
<1>5. CASE task[s].pc = "setHistory"
  <2>1. task[s].kind = "sync" /\ task[s].read \in Seq(1..MaxMessages)
    BY <1>5 DEF CallOK, Stage
  <2>2. Lengthened(s) \in Seq(1..MaxMessages)
    BY <1>3, <2>1 DEF Lengthened
  <2> QED BY <1>2, <1>5, <2>2 DEF Effect, KeysOK
<1>6. CASE task[s].pc = "setContent" /\ task[s].kind = "sync"
  <2>1. Replaced(s) \in Contents
    BY <1>4, <1>6 DEF Replaced, CallOK
  <2>2. Edited(r.ideal, task[s].message) \in Contents
    BY <1>2, <1>4, <1>6
  <2>3. Append(r.stored, task[s].message) \in Seq(1..MaxMessages)
    BY <1>2, <1>3, <1>6
  <2> QED BY <1>2, <1>6, <2>1, <2>2, <2>3 DEF Effect, KeysOK
<1>7. CASE task[s].pc = "setContent" /\ task[s].kind = "restore"
  <2>1. Replaced(s) \in Contents /\ task[s].goal \in Contents
    BY <1>7 DEF Replaced, CallOK
  <2> QED BY <1>2, <1>7, <2>1 DEF Effect, KeysOK
<1> QED BY <1>5, <1>6, <1>7 DEF Effect

\* What KeysAfter computes, command by command.
Executions(f, n) ==
  /\ f[0] = Keys
  /\ \A i \in 1..n : f[i] = Effect(f[i - 1], pipe[i + 1])

LEMMA ExecutesAfter ==
  ASSUME Typed, pipe # <<>>, NEW n \in 0..(Len(pipe) - 1)
  PROVE  \E f \in [0..n -> KeysOK] : KeysAfter(n) = f[n] /\ Executions(f, n)
<1>1. Len(pipe) \in Nat /\ DOMAIN pipe = 1..Len(pipe) /\ n \in Nat
  BY DEF Typed, InFlight, Queue
<1>2. ASSUME NEW i \in 1..n, NEW r \in KeysOK
      PROVE  Effect(r, pipe[i + 1]) \in KeysOK
  <2>1. i + 1 \in 1..Len(pipe)
    BY <1>1
  <2>2. pipe[i + 1] \in Slots
    BY <2>1, ElementOfSeq DEF Typed, InFlight, Queue
  <2>3. CallOK(task[pipe[i + 1]], Len(batches))
    BY <2>2 DEF Typed, Tasks
  <2> QED BY <2>3, EffectOK DEF Typed, Values
<1> DEFINE Runs(f) == f = [i \in 0..n |-> IF i = 0 THEN Keys ELSE Effect(f[i - 1], pipe[i + 1])]
<1>3. \E f \in [0..n -> KeysOK] : Runs(f)
  <2> DEFINE g == [p \in (1..n) \X KeysOK |-> Effect(p[2], pipe[p[1] + 1])]
  <2>1. g \in [(1..n) \X KeysOK -> KeysOK]
    BY <1>2
  <2>2. \A i \in 1..n : \A r \in KeysOK : g[<<i, r>>] = Effect(r, pipe[i + 1])
    OBVIOUS
  <2> HIDE DEF g
  <2>3. Keys \in KeysOK
    BY DEF Typed
  <2>4. PICK f \in [0..n -> KeysOK] : Iterates(f, n, Keys, g)
    BY <1>1, <2>1, <2>3, Iteration
  <2>5. ASSUME NEW i \in 0..n
        PROVE  f[i] = IF i = 0 THEN Keys ELSE Effect(f[i - 1], pipe[i + 1])
    <3>1. f[i] = IF i = 0 THEN Keys ELSE g[<<i, f[i - 1]>>]
      BY <2>4, Zenon DEF Iterates
    <3>2. CASE i # 0
      <4>1. i \in 1..n /\ i - 1 \in 0..n
        BY <1>1, <3>2
      <4>2. f[i - 1] \in KeysOK
        BY <4>1
      <4> QED BY <2>2, <3>1, <3>2, <4>1, <4>2
    <3> QED BY <3>1, <3>2
  <2>6. Runs(f)
    BY <2>4, <2>5
  <2> QED BY <2>6
<1>4. PICK f : Runs(f) /\ KeysAfter(n) = f[n]
  <2>1. Runs(CHOOSE f : Runs(f))
    BY <1>3
  <2> QED BY <2>1 DEF KeysAfter
<1>5. \A i \in 0..n : f[i] = IF i = 0 THEN Keys ELSE Effect(f[i - 1], pipe[i + 1])
  BY <1>4, Zenon
<1>6. DOMAIN f = 0..n /\ f = [i \in 0..n |-> f[i]]
  BY <1>4
<1> HIDE DEF Runs
<1>7. Executions(f, n)
  <2>1. 0 \in 0..n /\ \A i \in 1..n : i \in 0..n /\ i # 0
    BY <1>1
  <2>2. f[0] = Keys
    BY <1>5, <2>1, Zenon
  <2>3. \A i \in 1..n : f[i] = Effect(f[i - 1], pipe[i + 1])
    BY <1>5, <2>1, Zenon
  <2> QED BY <2>2, <2>3 DEF Executions
<1>8. \A i \in 0..n : f[i] \in KeysOK
  <2> DEFINE P == {i \in 0..n : f[i] \in KeysOK}
  <2>1. 0 \in P
    BY <1>1, <1>7 DEF Typed, Executions
  <2>2. \A i \in 1..n : i - 1 \in P => i \in P
    BY <1>1, <1>2, <1>7 DEF Executions
  <2> HIDE DEF P
  <2>3. \A i \in 0..n : i \in P
    BY <1>1, <2>1, <2>2, UpTo
  <2> QED BY <2>3 DEF P
<1>9. f \in [0..n -> KeysOK]
  BY <1>6, <1>8
<1> QED BY <1>4, <1>7, <1>9

---------------------------------------------------------------------------
(***************************************************************************)
(* The steps keep the types.                                               *)
(***************************************************************************)

\* A call that starts takes a slot that waits for nothing.
LEMMA StartTyped ==
  ASSUME Typed, NEW t, Start(t), Waiting(t), UNCHANGED <<data, replies>>,
         batches' \in Seq(Batches), Len(batches) <= Len(batches'), CallOK(t, Len(batches'))
  PROVE  Tasks' /\ InFlight' /\ (Keys \in KeysOK)' /\ overlapped' \in BOOLEAN
<1>1. PICK s \in Slots : /\ task[s].pc = "idle"
                         /\ task' = [task EXCEPT ![s] = t]
                         /\ pipe' = Append(pipe, s)
  BY DEF Start, FreeSlots
<1>2. /\ Tasks' /\ task'[s] = t
      /\ \A r \in Slots \ {s} : task'[r] = task[r]
  BY <1>1, OneCall DEF Typed, Values
<1>3. s \notin On(pipe) /\ s \notin On(replies)
  BY <1>1, Places DEF Typed, Waiting
<1>4. Queue(pipe') /\ On(pipe') = On(pipe) \cup {s}
  BY <1>1, <1>3, Enqueued DEF Typed, InFlight
<1>5. Queue(replies') /\ On(replies') = On(replies)
  BY DEF Typed, InFlight
<1>6. On(pipe) \subseteq Slots /\ On(replies) \subseteq Slots
  BY Places DEF Typed
<1>7. \A r \in On(pipe) \cup On(replies) : Waiting(task[r]) /\ On(pipe) \cap On(replies) = {}
  BY DEF Typed, InFlight
<1>8. \A r \in On(pipe') \cup On(replies') : Waiting(task'[r])
  BY <1>2, <1>3, <1>4, <1>5, <1>6, <1>7
<1>9. On(pipe') \cap On(replies') = {}
  BY <1>3, <1>4, <1>5 DEF Typed, InFlight
<1>10. InFlight'
  BY <1>4, <1>5, <1>8, <1>9 DEF InFlight
<1>11. (Keys \in KeysOK)'
  BY DEF Typed, Keys, data
<1> QED BY <1>2, <1>10, <1>11 DEF Typed, Values, Start

\* The command at the head of pipe is answered.
LEMMA ExecuteTyped ==
  ASSUME Typed, Execute
  PROVE  /\ Head(pipe) \in Slots /\ Head(pipe) \in On(pipe) /\ Head(pipe) \notin On(replies)
         /\ task'[Head(pipe)] = Answer(task[Head(pipe)])
         /\ \A r \in Slots \ {Head(pipe)} : task'[r] = task[r]
         /\ On(replies') = On(replies) \cup {Head(pipe)}
         /\ Typed'
<1>1. PICK s : s = Head(pipe)
  OBVIOUS
<1>2. /\ pipe # <<>> /\ pipe' = Tail(pipe) /\ replies' = Append(replies, s)
      /\ KeysBecome(Effect(Keys, s)) /\ task' = [task EXCEPT ![s] = Answer(task[s])]
  BY <1>1 DEF Execute, Typed, Tasks
<1>3. Queue(pipe') /\ s \in On(pipe) /\ s \in Slots /\ On(pipe') = On(pipe) \ {s}
  BY <1>1, <1>2, Dequeued DEF Typed, InFlight
<1>4. s \notin On(replies)
  BY <1>3 DEF Typed, InFlight
<1>5. Queue(replies') /\ On(replies') = On(replies) \cup {s}
  BY <1>2, <1>3, <1>4, Enqueued DEF Typed, InFlight
<1>6. /\ UNCHANGED batches /\ batches \in Seq(Batches) /\ Len(batches) \in Nat
      /\ CallOK(task[s], Len(batches)) /\ Keys \in KeysOK /\ Len(batches) <= MaxMessages
  BY <1>3 DEF Execute, Typed, Values, Tasks
<1>7. CallOK(Answer(task[s]), Len(batches)) /\ Answer(task[s]).pc = task[s].pc
  BY <1>6, NextCallOK
<1>8. /\ Tasks' /\ task'[s] = Answer(task[s])
      /\ \A r \in Slots \ {s} : task'[r] = task[r]
  <2>1. /\ batches' \in Seq(Batches) /\ Len(batches) <= Len(batches')
        /\ CallOK(Answer(task[s]), Len(batches')) /\ Tasks
    BY <1>6, <1>7 DEF Typed
  <2> QED BY <1>2, <1>3, <1>6, <2>1, OneCall
<1>9. Effect(Keys, s) \in KeysOK
  BY <1>6, EffectOK
<1>10. (Keys \in KeysOK)'
  BY <1>2, <1>9 DEF KeysBecome, Keys, KeysOK
<1>11. On(pipe) \subseteq Slots /\ On(replies) \subseteq Slots
  BY Places DEF Typed
<1>12. /\ \A r \in On(pipe) \cup On(replies) : Waiting(task[r])
       /\ On(pipe) \cap On(replies) = {}
  BY DEF Typed, InFlight
<1>13. Waiting(task'[s])
  BY <1>3, <1>7, <1>8, <1>12 DEF Waiting
<1>14. InFlight'
  BY <1>3, <1>5, <1>8, <1>11, <1>12, <1>13 DEF InFlight
<1>15. Values'
  BY DEF Execute, Typed, Values
<1> QED BY <1>1, <1>3, <1>4, <1>5, <1>8, <1>10, <1>14, <1>15 DEF Typed

LEMMA ErrorTyped ==
  ASSUME Typed, RedisError
  PROVE  /\ Head(pipe) \in Slots /\ Head(pipe) \in On(pipe) /\ Head(pipe) \notin On(replies)
         /\ task'[Head(pipe)] = NoCall
         /\ \A r \in Slots \ {Head(pipe)} : task'[r] = task[r]
         /\ Typed'
<1>1. PICK s : s = Head(pipe)
  OBVIOUS
<1>2. /\ pipe # <<>> /\ pipe' = Tail(pipe) /\ replies' = replies /\ UNCHANGED data
      /\ task' = [task EXCEPT ![s] = NoCall]
  BY <1>1 DEF RedisError
<1>3. Queue(pipe') /\ s \in On(pipe) /\ s \in Slots /\ On(pipe') = On(pipe) \ {s}
  BY <1>1, <1>2, Dequeued DEF Typed, InFlight
<1>4. s \notin On(replies)
  BY <1>3 DEF Typed, InFlight
<1>5. /\ UNCHANGED batches /\ batches \in Seq(Batches) /\ Len(batches) \in Nat
      /\ CallOK(task[s], Len(batches))
  BY <1>3 DEF RedisError, Typed, Values, Tasks
<1>6. CallOK(NoCall, Len(batches))
  BY <1>5, NextCallOK
<1>7. /\ Tasks' /\ task'[s] = NoCall
      /\ \A r \in Slots \ {s} : task'[r] = task[r]
  <2>1. /\ batches' \in Seq(Batches) /\ Len(batches) <= Len(batches')
        /\ CallOK(NoCall, Len(batches')) /\ Tasks
    BY <1>5, <1>6 DEF Typed
  <2> QED BY <1>2, <1>3, <1>5, <2>1, OneCall
<1>8. (Keys \in KeysOK)'
  BY <1>2 DEF Typed, Keys, data
<1>9. On(pipe) \subseteq Slots /\ On(replies) \subseteq Slots
  BY Places DEF Typed
<1>10. InFlight'
  BY <1>2, <1>3, <1>4, <1>7, <1>9 DEF Typed, InFlight
<1>11. Values'
  BY ContentConstants DEF RedisError, Typed, Values
<1> QED BY <1>1, <1>3, <1>4, <1>7, <1>8, <1>10, <1>11 DEF Typed

\* After a restart there are no calls.
LEMMA RestartTyped ==
  ASSUME Typed, RedisErrorEndsProcess
  PROVE  /\ \A s \in Slots : task'[s] = NoCall
         /\ On(replies') = {} /\ On(pipe') = {}
         /\ Typed'
<1>1. /\ \A s \in Slots : task'[s] = NoCall
      /\ DOMAIN task' = Slots /\ pipe' = <<>> /\ replies' = <<>> /\ UNCHANGED batches
  BY DEF RedisErrorEndsProcess
<1>2. batches \in Seq(Batches) /\ Len(batches) \in Nat
  BY DEF Typed, Values
<1>3. CallOK(NoCall, Len(batches))
  <2>1. <<>> \in Contents
    BY DEF Contents
  <2> QED BY <2>1 DEF CallOK, Stage, NoCall, CallAt
<1>4. Tasks'
  BY <1>1, <1>3 DEF Tasks
<1>5. Queue(pipe') /\ Queue(replies') /\ On(pipe') = {} /\ On(replies') = {}
  BY <1>1, NoneQueued
<1>6. InFlight'
  BY <1>5 DEF InFlight
<1>7. PICK n \in 0..(Len(pipe) - 1) : KeysBecome(KeysAfter(n))
  BY DEF RedisErrorEndsProcess
<1>8. n \in 0..n
  BY DEF Typed, InFlight, Queue
<1>9. KeysAfter(n) \in KeysOK
  BY <1>7, <1>8, ExecutesAfter DEF RedisErrorEndsProcess
<1>10. (Keys \in KeysOK)'
  BY <1>7, <1>9 DEF KeysBecome, Keys, KeysOK
<1>11. Values'
  BY ContentConstants DEF RedisErrorEndsProcess, Typed, Values
<1> QED BY <1>1, <1>4, <1>5, <1>6, <1>10, <1>11 DEF Typed

\* Who has the turn has a reply.
LEMMA TurnTyped ==
  ASSUME Typed, NEW s \in Slots, NEW pc, NEW kind, Turn(s, pc, kind)
  PROVE  /\ s \in On(replies) /\ s \notin On(pipe)
         /\ task[s].pc = pc /\ task[s].kind = kind
         /\ Queue(Taken(s)) /\ On(Taken(s)) = On(replies) \ {s}
<1>1. s \in On(replies) /\ task[s].pc = pc /\ task[s].kind = kind
  BY DEF Turn, On
<1> QED BY <1>1, TakenOn DEF Typed, InFlight

\* The call in slot s becomes t, where it has neither a command nor a reply
\* left, or has sent a command.
LEMMA CallMoves ==
  ASSUME Typed, NEW s \in Slots, NEW t, CallOK(t, Len(batches)),
         task' = [task EXCEPT ![s] = t], UNCHANGED <<batches, data>>,
         s \notin On(pipe),
         \/ replies' = Taken(s) /\ s \in On(replies)
         \/ replies' = replies /\ s \notin On(replies),
         pipe' = pipe \/ (pipe' = Append(pipe, s) /\ Waiting(t))
  PROVE  /\ Tasks' /\ InFlight' /\ (Keys \in KeysOK)'
         /\ task'[s] = t
         /\ \A r \in Slots \ {s} : task'[r] = task[r]
         /\ On(replies') = On(replies) \ {s}
<1>1. batches \in Seq(Batches) /\ Len(batches) \in Nat /\ Queue(pipe) /\ Queue(replies)
  BY DEF Typed, Values, InFlight
<1>2. /\ Tasks' /\ task'[s] = t
      /\ \A r \in Slots \ {s} : task'[r] = task[r]
  <2>1. /\ batches' \in Seq(Batches) /\ Len(batches) <= Len(batches')
        /\ CallOK(t, Len(batches')) /\ Tasks
    BY <1>1 DEF Typed
  <2> QED BY <1>1, <2>1, OneCall
<1>3. (Keys \in KeysOK)'
  BY DEF Typed, Keys, data
<1>4. Queue(replies') /\ On(replies') = On(replies) \ {s}
  <2>1. CASE replies' = Taken(s) /\ s \in On(replies)
    BY <1>1, <2>1, TakenOn
  <2>2. CASE replies' = replies /\ s \notin On(replies)
    <3>1. Queue(replies') /\ On(replies') = On(replies)
      BY <1>1, <2>2
    <3> QED BY <2>2, <3>1
  <2> QED BY <2>1, <2>2
<1>5. On(pipe) \subseteq Slots /\ On(replies) \subseteq Slots
  BY Places DEF Typed
<1>6. /\ \A r \in On(pipe) \cup On(replies) : Waiting(task[r])
      /\ On(pipe) \cap On(replies) = {}
  BY DEF Typed, InFlight
<1>7. Queue(pipe') /\ On(pipe') \subseteq On(pipe) \cup {s} /\ (s \in On(pipe') => Waiting(t))
  <2>1. CASE pipe' = pipe
    BY <1>1, <2>1, Zenon
  <2>2. CASE pipe' = Append(pipe, s) /\ Waiting(t)
    <3>1. Queue(pipe') /\ On(pipe') = On(pipe) \cup {s}
      BY <1>1, <2>2, Enqueued
    <3> QED BY <2>2, <3>1
  <2> QED BY <2>1, <2>2
<1>8. \A r \in On(pipe') \cup On(replies') : Waiting(task'[r])
  BY <1>2, <1>4, <1>5, <1>6, <1>7
<1>9. On(pipe') \cap On(replies') = {}
  BY <1>4, <1>6, <1>7
<1>10. InFlight'
  BY <1>4, <1>7, <1>8, <1>9 DEF InFlight
<1> QED BY <1>2, <1>3, <1>4, <1>10

\* What a call that goes on, ends or fails does to the calls and queues.
Moved(s) ==
  /\ UNCHANGED <<data, batches>>
  /\ s \notin On(pipe)
  /\ \A r \in Slots \ {s} : task'[r] = task[r]
  /\ On(replies') = On(replies) \ {s}
  /\ \/ replies' = Taken(s) /\ s \in On(replies)
     \/ replies' = replies /\ s \notin On(replies)
  /\ task'[s] \in {NoCall, At(task[s], "save"), At(task[s], "setHistory"),
                   At(task[s], "setContent"), Got(At(task[s], "getContent"), <<>>)}

LEMMA ContinueTyped ==
  ASSUME Typed, NEW s \in Slots, Continue(s) \/ SaveFails(s)
  PROVE  Typed' /\ Moved(s)
<1>1. /\ batches \in Seq(Batches) /\ Len(batches) \in Nat
      /\ CallOK(task[s], Len(batches)) /\ DOMAIN task = Slots
  BY DEF Typed, Values, Tasks
<1>2. /\ task[s].pc = "getHistory" => CallOK(At(task[s], "setHistory"), Len(batches))
      /\ task[s].kind = "sync" => CallOK(Got(At(task[s], "getContent"), <<>>), Len(batches))
      /\ task[s].pc = "getContent" /\ task[s].kind = "sync" =>
           CallOK(At(task[s], "setContent"), Len(batches))
      /\ task[s].pc = "getContent" /\ task[s].kind # "sync" =>
           CallOK(At(task[s], "save"), Len(batches))
      /\ task[s].pc = "save" /\ task[s].kind = "restore" =>
           CallOK(At(task[s], "setContent"), Len(batches))
      /\ CallOK(NoCall, Len(batches))
  BY <1>1, NextCallOK
<1>3. UNCHANGED <<data, batches>>
  BY DEF Continue, SaveFails, HistoryRead, HistoryStored, ContentRead, ContentStored,
         SnapshotRead, SnapshotSaved, BackupSaved, RestoreStored
<1>4. task[s].pc = "save" => s \notin On(pipe) /\ s \notin On(replies)
  BY Places DEF Typed, Waiting
<1>5. /\ Waiting(At(task[s], "setHistory")) /\ Waiting(At(task[s], "setContent"))
      /\ Waiting(Got(At(task[s], "getContent"), <<>>))
  BY DEF Waiting, At, Got, CallAt
<1>6. ASSUME NEW t, CallOK(t, Len(batches)), task' = [task EXCEPT ![s] = t],
             t \in {NoCall, At(task[s], "save"), At(task[s], "setHistory"),
                    At(task[s], "setContent"), Got(At(task[s], "getContent"), <<>>)},
             s \notin On(pipe),
             \/ replies' = Taken(s) /\ s \in On(replies)
             \/ replies' = replies /\ s \notin On(replies),
             pipe' = pipe \/ (pipe' = Append(pipe, s) /\ Waiting(t))
      PROVE  Tasks' /\ InFlight' /\ (Keys \in KeysOK)' /\ Moved(s)
  BY <1>3, <1>6, CallMoves DEF Moved
<1>7. Tasks' /\ InFlight' /\ (Keys \in KeysOK)' /\ Moved(s)
  <2>1. CASE HistoryRead(s)
    <3>1. s \in On(replies) /\ s \notin On(pipe) /\ task[s].pc = "getHistory"
      BY <2>1, TurnTyped DEF HistoryRead
    <3>2. /\ task' = [task EXCEPT ![s] = At(task[s], "setHistory")]
          /\ pipe' = Append(pipe, s) /\ replies' = Taken(s)
      BY <1>1, <2>1 DEF HistoryRead, GoOn, Send
    <3> QED BY <1>2, <1>5, <1>6, <3>1, <3>2
  <2>2. CASE HistoryStored(s)
    <3>1. s \in On(replies) /\ s \notin On(pipe) /\ task[s].kind = "sync"
      BY <2>2, TurnTyped DEF HistoryStored
    <3>2. /\ task' = [task EXCEPT ![s] = Got(At(task[s], "getContent"), <<>>)]
          /\ pipe' = Append(pipe, s) /\ replies' = Taken(s)
      BY <1>1, <2>2 DEF HistoryStored, GoOn, Send
    <3> QED BY <1>2, <1>5, <1>6, <3>1, <3>2
  <2>3. CASE ContentRead(s)
    <3>1. /\ s \in On(replies) /\ s \notin On(pipe)
          /\ task[s].pc = "getContent" /\ task[s].kind = "sync"
      BY <2>3, TurnTyped DEF ContentRead
    <3>2. /\ task' = [task EXCEPT ![s] = At(task[s], "setContent")]
          /\ pipe' = Append(pipe, s) /\ replies' = Taken(s)
      BY <1>1, <2>3 DEF ContentRead, GoOn, Send
    <3> QED BY <1>2, <1>5, <1>6, <3>1, <3>2
  <2>4. CASE ContentStored(s) \/ RestoreStored(s)
    <3>1. s \in On(replies) /\ s \notin On(pipe)
      BY <2>4, TurnTyped DEF ContentStored, RestoreStored
    <3>2. task' = [task EXCEPT ![s] = NoCall] /\ pipe' = pipe /\ replies' = Taken(s)
      BY <2>4 DEF ContentStored, RestoreStored, End
    <3> QED BY <1>2, <1>6, <3>1, <3>2
  <2>5. CASE SnapshotRead(s)
    <3>1. PICK kind \in {"snapshot", "restore"} : Turn(s, "getContent", kind)
      BY <2>5 DEF SnapshotRead
    <3>2. /\ s \in On(replies) /\ s \notin On(pipe)
          /\ task[s].pc = "getContent" /\ task[s].kind # "sync"
      BY <3>1, TurnTyped
    <3>3. task' = [task EXCEPT ![s] = At(task[s], "save")] /\ pipe' = pipe /\ replies' = Taken(s)
      BY <1>1, <2>5 DEF SnapshotRead
    <3> QED BY <1>2, <1>6, <3>2, <3>3
  <2>6. CASE SnapshotSaved(s) \/ SaveFails(s)
    <3>1. /\ task[s].pc = "save" /\ task' = [task EXCEPT ![s] = NoCall]
          /\ pipe' = pipe /\ replies' = replies
      BY <2>6 DEF SnapshotSaved, SaveFails
    <3> QED BY <1>2, <1>4, <1>6, <3>1
  <2>7. CASE BackupSaved(s)
    <3>1. /\ task[s].pc = "save" /\ task[s].kind = "restore"
          /\ task' = [task EXCEPT ![s] = At(task[s], "setContent")]
          /\ pipe' = Append(pipe, s) /\ replies' = replies
      BY <1>1, <2>7 DEF BackupSaved, Send
    <3> QED BY <1>2, <1>4, <1>5, <1>6, <3>1
  <2> QED BY <2>1, <2>2, <2>3, <2>4, <2>5, <2>6, <2>7 DEF Continue
<1>8. Values'
  <2>1. CASE SnapshotSaved(s) \/ BackupSaved(s)
    <3>1. Row(s) \in Contents
      BY <1>1, <2>1 DEF SnapshotSaved, BackupSaved, Row, CallOK
    <3> QED BY <2>1, <3>1 DEF SnapshotSaved, BackupSaved, Typed, Values
  <2>2. CASE ContentStored(s)
    <3>1. task[s].kind = "sync"
      BY <2>2 DEF ContentStored, Turn
    <3>2. task[s].message \in 1..MaxMessages
      BY <1>1, <3>1, ContentConstants DEF CallOK, Typed, Values
    <3>3. \A c \in Clients : Append(seen[c], task[s].message) \in Seq(1..MaxMessages)
      BY <3>2 DEF Typed, Values
    <3>4. seen' \in [Clients -> Seq(1..MaxMessages)]
      BY <2>2, <3>3 DEF ContentStored, Typed, Values
    <3> QED BY <2>2, <3>4 DEF ContentStored, Typed, Values
  <2>3. CASE \/ HistoryRead(s) \/ HistoryStored(s) \/ ContentRead(s)
             \/ SnapshotRead(s) \/ RestoreStored(s)
    BY <2>3 DEF HistoryRead, HistoryStored, ContentRead, SnapshotRead, RestoreStored, Typed, Values
  <2>4. CASE SaveFails(s)
    BY <2>4, ContentConstants DEF SaveFails, Typed, Values
  <2> QED BY <2>1, <2>2, <2>3, <2>4 DEF Continue
<1> QED BY <1>7, <1>8 DEF Typed

LEMMA TypedInit == Init => Typed
<1> SUFFICES ASSUME Init PROVE Typed
  OBVIOUS
<1>1. <<>> \in Contents
  BY DEF Contents
<1>2. InFlight
  BY NoneQueued DEF Init, InFlight
<1>3. Tasks
  BY <1>1 DEF Init, Tasks, CallOK, Stage, NoCall, CallAt
<1>4. Keys \in KeysOK
  BY <1>1 DEF Init, Keys, KeysOK
<1>5. Values
  <2>1. seen \in [Clients -> Seq(1..MaxMessages)] /\ batches \in Seq(Batches)
    BY DEF Init
  <2>2. Len(batches) <= MaxMessages /\ failures \in 0..MaxFailures
    BY ContentConstants DEF Init
  <2>3. room \subseteq Clients /\ snapshots \subseteq Contents /\ overlapped \in BOOLEAN
    BY DEF Init
  <2> QED BY <2>1, <2>2, <2>3 DEF Values
<1> QED BY <1>2, <1>3, <1>4, <1>5 DEF Typed

\* The calls that start: processMessage, createSnapshot, restoreSnapshot.
LEMMA StartsTyped ==
  ASSUME Typed,
         \/ \E b \in Batches : ProcessMessage(b)
         \/ CreateSnapshot
         \/ \E d \in snapshots : RestoreSnapshot(d)
  PROVE  Typed'
<1>1. <<>> \in Contents /\ <<>> \in Seq(1..MaxMessages)
  BY DEF Contents
<1>2. batches \in Seq(Batches) /\ Len(batches) \in Nat /\ UNCHANGED <<data, replies>>
  BY DEF Typed, Values, ProcessMessage, CreateSnapshot, RestoreSnapshot
<1>3. ASSUME NEW b \in Batches, ProcessMessage(b)
      PROVE  Typed'
  <2> DEFINE t == CallAt("getHistory", "sync", Number, <<>>, <<>>)
  <2>1. /\ Start(t) /\ batches' = Append(batches, b) /\ Len(batches) < MaxMessages
        /\ UNCHANGED <<room, snapshots, seen, failures>>
    BY <1>3 DEF ProcessMessage
  <2>2. /\ batches' \in Seq(Batches) /\ Len(batches') = Len(batches) + 1
        /\ Len(batches') <= MaxMessages /\ Len(batches) <= Len(batches')
    BY <1>2, <2>1, ContentConstants
  <2>3. CallOK(t, Len(batches')) /\ Waiting(t)
    BY <1>1, <1>2, <2>2 DEF CallOK, Stage, CallAt, Number, Waiting
  <2> HIDE DEF t
  <2>4. Tasks' /\ InFlight' /\ (Keys \in KeysOK)' /\ overlapped' \in BOOLEAN
    BY <1>2, <2>1, <2>2, <2>3, StartTyped
  <2>5. Values'
    BY <2>1, <2>2, <2>4 DEF Typed, Values
  <2> QED BY <2>4, <2>5 DEF Typed
<1>4. ASSUME CreateSnapshot \/ \E d \in snapshots : RestoreSnapshot(d)
      PROVE  Typed'
  <2>1. PICK kind \in {"snapshot", "restore"}, d \in Contents :
          Start(CallAt("getContent", kind, 0, <<>>, d))
    BY <1>1, <1>4 DEF CreateSnapshot, RestoreSnapshot, Typed, Values
  <2>2. UNCHANGED <<room, batches, snapshots, seen, failures>>
    BY <1>4 DEF CreateSnapshot, RestoreSnapshot
  <2> DEFINE t == CallAt("getContent", kind, 0, <<>>, d)
  <2>3. CallOK(t, Len(batches')) /\ Waiting(t)
    BY <1>1 DEF CallOK, Stage, CallAt, Waiting
  <2> HIDE DEF t
  <2>4. Start(t) /\ Len(batches) <= Len(batches') /\ batches' \in Seq(Batches)
    BY <1>2, <2>1, <2>2 DEF t
  <2>5. Tasks' /\ InFlight' /\ (Keys \in KeysOK)' /\ overlapped' \in BOOLEAN
    BY <1>2, <2>3, <2>4, StartTyped
  <2>6. Values'
    BY <2>2, <2>5 DEF Typed, Values
  <2> QED BY <2>5, <2>6 DEF Typed
<1> QED BY <1>3, <1>4

\* A step that leaves the keys and the calls alone.
LEMMA StillTyped ==
  ASSUME Typed, UNCHANGED <<data, batches, task, pipe, replies>>, Values'
  PROVE  Typed'
<1>1. Tasks' /\ (Keys \in KeysOK)'
  BY DEF Typed, Tasks, Keys, data
<1>2. InFlight'
  BY DEF Typed, InFlight
<1> QED BY <1>1, <1>2 DEF Typed

LEMMA Typing == Spec => []Typed
<1>1. Typed /\ [Next]_vars => Typed'
  <2> SUFFICES ASSUME Typed, [Next]_vars PROVE Typed'
    OBVIOUS
  <2>1. ASSUME NEW c \in Clients, JoinProject(c) \/ LeaveProject(c)
        PROVE  Typed'
    <3>1. Values' /\ UNCHANGED <<data, batches, task, pipe, replies>>
      BY <2>1 DEF JoinProject, LeaveProject, Typed, Values
    <3> QED BY <3>1, StillTyped
  <2>2. CASE UNCHANGED vars
    <3>1. Values' /\ UNCHANGED <<data, batches, task, pipe, replies>>
      BY <2>2 DEF vars, Typed, Values
    <3> QED BY <3>1, StillTyped
  <2> QED BY <2>1, <2>2, StartsTyped, ExecuteTyped, ErrorTyped, RestartTyped, ContinueTyped DEF Next
<1> QED BY <1>1, TypedInit, PTL DEF Spec

\* The types of the state: what is stored, what every call has read and where
\* it waits, and what clients were sent, through failures and restarts.
THEOREM Types == Spec => []TypeOK
BY Typing, TypedTypeOK, PTL

---------------------------------------------------------------------------
(***************************************************************************)
(* Broadcasts in the order of the writes.                                  *)
(***************************************************************************)

\* m was stored, and all of M before.
Has(st, m, M) ==
  \E p \in DOMAIN st : st[p] = m /\ \A x \in M : \E q \in 1..(p - 1) : st[q] = x

\* st begins with what was stored so far.
Longer(st, so) ==
  /\ st \in Seq(1..MaxMessages) /\ so \in Seq(1..MaxMessages)
  /\ Len(so) <= Len(st)
  /\ \A i \in 1..Len(so) : st[i] = so[i]

LEMMA StillHas ==
  ASSUME NEW st, NEW so, Longer(st, so), NEW m, NEW M, Has(so, m, M), NEW L, L \subseteq M
  PROVE  Has(st, m, L)
<1>1. PICK p \in DOMAIN so : so[p] = m /\ \A x \in M : \E q \in 1..(p - 1) : so[q] = x
  BY DEF Has
<1>2. /\ DOMAIN so = 1..Len(so) /\ DOMAIN st = 1..Len(st) /\ Len(so) \in Nat /\ Len(st) \in Nat
      /\ Len(so) <= Len(st) /\ \A i \in 1..Len(so) : st[i] = so[i]
  BY DEF Longer
<1>3. p \in 1..Len(st) /\ st[p] = m
  BY <1>1, <1>2
<1>4. \A q \in 1..(p - 1) : q \in 1..Len(so)
  BY <1>1, <1>2
<1>5. \A x \in L : \E q \in 1..(p - 1) : st[q] = x
  BY <1>1, <1>2, <1>4
<1> QED BY <1>2, <1>3, <1>5 DEF Has

LEMMA HasNext ==
  ASSUME NEW so \in Seq(1..MaxMessages), NEW m \in 1..MaxMessages, NEW st, st = Append(so, m)
  PROVE  /\ Longer(st, so)
         /\ \A M : M \subseteq On(so) => Has(st, m, M)
<1>1. /\ Len(so) \in Nat /\ DOMAIN so = 1..Len(so) /\ DOMAIN st = 1..(Len(so) + 1)
      /\ Len(st) = Len(so) + 1 /\ st \in Seq(1..MaxMessages)
      /\ st[Len(so) + 1] = m /\ \A i \in 1..Len(so) : st[i] = so[i]
  OBVIOUS
<1>2. Longer(st, so)
  BY <1>1 DEF Longer
<1>3. ASSUME NEW M, M \subseteq On(so)
      PROVE  Has(st, m, M)
  <2>1. \A x \in M : \E q \in 1..Len(so) : st[q] = x
    BY <1>1, <1>3 DEF On
  <2>2. Len(so) + 1 \in DOMAIN st /\ (Len(so) + 1) - 1 = Len(so)
    BY <1>1
  <2> QED BY <1>1, <2>1, <2>2 DEF Has
<1> QED BY <1>2, <1>3

\* Reply j is that of a message that was stored; the messages whose broadcast
\* is due before it; the broadcasts a client was sent.
Stores(t)  == t.pc = "setContent" /\ t.kind = "sync"
Due(j)     == {task[replies[i]].message : i \in {h \in 1..(j - 1) : Stores(task[replies[h]])}}
Heard(c)   == On(seen[c])

\* A message whose broadcast is due was stored after those which are to be
\* broadcast before it.
DueInOrder ==
  \A j \in DOMAIN replies : Stores(task[replies[j]]) =>
    \A c \in Clients : Has(stored, task[replies[j]].message, Heard(c) \cup Due(j))

\* What was broadcast or is due was stored.
LEMMA AllStored ==
  ASSUME Typed, SeenAsStored, DueInOrder, NEW c \in Clients
  PROVE  /\ Heard(c) \subseteq On(stored)
         /\ \A j \in DOMAIN replies : Stores(task[replies[j]]) =>
              task[replies[j]].message \in On(stored)
<1>1. Heard(c) \subseteq On(stored)
  BY DEF Heard, On, SeenAsStored
<1>2. \A j \in DOMAIN replies : Stores(task[replies[j]]) => task[replies[j]].message \in On(stored)
  BY DEF DueInOrder, Has, On
<1> QED BY <1>1, <1>2

LEMMA SeenKept ==
  ASSUME SeenAsStored, UNCHANGED seen, Longer(stored', stored)
  PROVE  SeenAsStored'
<1> SUFFICES ASSUME NEW c \in Clients, NEW k \in DOMAIN seen[c]
             PROVE  \E p \in DOMAIN stored' :
                      /\ stored'[p] = seen[c][k]
                      /\ \A j \in 1..(k - 1) : \E q \in 1..(p - 1) : stored'[q] = seen[c][j]
  BY DEF SeenAsStored
<1>1. PICK p \in DOMAIN stored :
        /\ stored[p] = seen[c][k]
        /\ \A j \in 1..(k - 1) : \E q \in 1..(p - 1) : stored[q] = seen[c][j]
  BY DEF SeenAsStored
<1>2. /\ DOMAIN stored = 1..Len(stored) /\ DOMAIN stored' = 1..Len(stored')
      /\ Len(stored) \in Nat /\ Len(stored') \in Nat
      /\ Len(stored) <= Len(stored') /\ \A i \in 1..Len(stored) : stored'[i] = stored[i]
  BY DEF Longer
<1>3. p \in 1..Len(stored') /\ \A q \in 1..(p - 1) : q \in 1..Len(stored)
  BY <1>1, <1>2
<1>4. stored'[p] = seen[c][k]
  BY <1>1, <1>2
<1>5. \A j \in 1..(k - 1) : \E q \in 1..(p - 1) : stored'[q] = seen[c][j]
  BY <1>1, <1>2, <1>3
<1> QED BY <1>2, <1>3, <1>4, <1>5

LEMMA DueKept ==
  ASSUME Typed, DueInOrder, UNCHANGED <<seen, replies>>, Longer(stored', stored),
         \A s \in On(replies) : task'[s] = task[s]
  PROVE  DueInOrder'
<1>1. \A j \in DOMAIN replies : task'[replies[j]] = task[replies[j]]
  BY DEF On
<1>2. DOMAIN replies = 1..Len(replies) /\ Len(replies) \in Nat
  BY DEF Typed, InFlight, Queue
<1>3. ASSUME NEW j \in DOMAIN replies, Stores(task[replies[j]]), NEW c \in Clients
      PROVE  Has(stored', task[replies[j]].message, Heard(c)' \cup Due(j)')
  <2>1. \A h \in 1..(j - 1) : h \in DOMAIN replies
    BY <1>2
  <2>2. Due(j)' = Due(j) /\ Heard(c)' = Heard(c)
    BY <1>1, <2>1 DEF Due, Heard
  <2>3. Has(stored, task[replies[j]].message, Heard(c) \cup Due(j))
    BY <1>3 DEF DueInOrder
  <2> QED BY <2>2, <2>3, StillHas
<1> QED BY <1>1, <1>3 DEF DueInOrder

\* Reply j is taken; if it is that of a stored message it is the first, and
\* some clients are sent its broadcast.
LEMMA DueTaken ==
  ASSUME Typed, DueInOrder, UNCHANGED stored, NEW j \in DOMAIN replies,
         Removed(replies', replies, j),
         \A s \in On(replies) \ {replies[j]} : task'[s] = task[s],
         \A c \in Clients : Heard(c)' \subseteq Heard(c) \cup
           (IF Stores(task[replies[j]]) THEN {task[replies[j]].message} ELSE {}),
         Stores(task[replies[j]]) => \A i \in 1..(j - 1) : ~ Stores(task[replies[i]])
  PROVE  DueInOrder'
<1>1. /\ DOMAIN replies = 1..Len(replies) /\ Len(replies) \in Nat
      /\ \A h, i \in DOMAIN replies : replies[h] = replies[i] => h = i
  BY DEF Typed, InFlight, Queue, Distinct
<1>2. /\ DOMAIN replies' = 1..Len(replies') /\ Len(replies') = Len(replies) - 1
      /\ \A i \in 1..Len(replies') : /\ Past(i, j) \in 1..Len(replies)
                                     /\ replies'[i] = replies[Past(i, j)]
  BY <1>1 DEF Removed, Queue
<1>3. ASSUME NEW i \in 1..Len(replies')
      PROVE  Past(i, j) # j /\ task'[replies'[i]] = task[replies[Past(i, j)]]
  <2>1. Past(i, j) # j /\ Past(i, j) \in DOMAIN replies
    BY <1>1, <1>2 DEF Past
  <2>2. replies[Past(i, j)] \in On(replies) \ {replies[j]}
    BY <1>1, <2>1 DEF On
  <2> QED BY <1>2, <2>1, <2>2
<1>4. ASSUME NEW i \in 1..Len(replies'), Stores(task'[replies'[i]]), NEW c \in Clients
      PROVE  Has(stored', task'[replies'[i]].message, Heard(c)' \cup Due(i)')
  <2>1. PICK k : k = Past(i, j)
    OBVIOUS
  <2>2. /\ k \in DOMAIN replies /\ k # j
        /\ task'[replies'[i]] = task[replies[k]] /\ Stores(task[replies[k]])
    BY <1>1, <1>2, <1>3, <1>4, <2>1
  <2>3. Has(stored, task[replies[k]].message, Heard(c) \cup Due(k))
    BY <2>2 DEF DueInOrder
  <2>4. ASSUME NEW h \in 1..(i - 1), Stores(task'[replies'[h]])
        PROVE  task'[replies'[h]].message \in Due(k)
    <3>1. h \in 1..Len(replies') /\ Past(h, j) \in 1..(k - 1)
      BY <1>1, <1>2, <2>1 DEF Past
    <3>2. task'[replies'[h]] = task[replies[Past(h, j)]]
      BY <1>3, <3>1
    <3> QED BY <2>4, <3>1, <3>2 DEF Due
  <2>5. Due(i)' \subseteq Due(k)
    BY <2>4 DEF Due
  <2>6. Heard(c)' \subseteq Heard(c) \cup Due(k)
    <3>1. CASE Stores(task[replies[j]])
      <4>1. j \in 1..(k - 1)
        BY <1>1, <2>2, <3>1
      <4>2. task[replies[j]].message \in Due(k)
        BY <3>1, <4>1 DEF Due
      <4> QED BY <4>2
    <3>2. CASE ~ Stores(task[replies[j]])
      BY <3>2
    <3> QED BY <3>1, <3>2
  <2>7. Longer(stored', stored)
    BY DEF Typed, Keys, KeysOK, Longer
  <2>8. Heard(c)' \cup Due(i)' \subseteq Heard(c) \cup Due(k)
    BY <2>5, <2>6
  <2> QED BY <2>2, <2>3, <2>7, <2>8, StillHas
<1> QED BY <1>2, <1>4 DEF DueInOrder

\* The reply of slot s comes; if it stored its message, that is the last.
LEMMA DueNext ==
  ASSUME Typed, SeenAsStored, DueInOrder, UNCHANGED seen,
         NEW s \in Slots, replies' = Append(replies, s),
         s \notin On(replies), \A r \in Slots \ {s} : task'[r] = task[r],
         IF Stores(task'[s]) THEN /\ task'[s].message \in 1..MaxMessages
                                  /\ stored' = Append(stored, task'[s].message)
                             ELSE stored' = stored
  PROVE  DueInOrder' /\ Longer(stored', stored)
<1>1. /\ DOMAIN replies = 1..Len(replies) /\ Len(replies) \in Nat /\ stored \in Seq(1..MaxMessages)
      /\ On(replies) \subseteq Slots
  BY Places DEF Typed, InFlight, Queue, Keys, KeysOK
<1>2. /\ DOMAIN replies' = 1..(Len(replies) + 1) /\ replies'[Len(replies) + 1] = s
      /\ \A j \in DOMAIN replies : replies'[j] = replies[j]
  BY <1>1 DEF Typed, InFlight, Queue
<1>3. Longer(stored', stored)
  <2>1. CASE Stores(task'[s])
    <3>1. PICK m \in 1..MaxMessages : stored' = Append(stored, m)
      BY <2>1
    <3> QED BY <1>1, <3>1, HasNext
  <2>2. CASE ~ Stores(task'[s])
    BY <1>1, <2>2 DEF Longer
  <2> QED BY <2>1, <2>2
<1>4. \A j \in DOMAIN replies : task'[replies'[j]] = task[replies[j]]
  <2> SUFFICES ASSUME NEW j \in DOMAIN replies PROVE task'[replies'[j]] = task[replies[j]]
    OBVIOUS
  <2>1. replies[j] \in On(replies)
    BY DEF On
  <2> QED BY <1>1, <1>2, <2>1
<1>5. ASSUME NEW j \in 1..(Len(replies) + 1)
      PROVE  Due(j)' = Due(j)
  <2>1. \A h \in 1..(j - 1) : h \in DOMAIN replies
    BY <1>1
  <2>2. \A h \in 1..(j - 1) : task'[replies'[h]] = task[replies[h]]
    BY <1>4, <2>1
  <2>3. \A x : x \in Due(j) <=> \E h \in 1..(j - 1) : /\ Stores(task[replies[h]])
                                                   /\ x = task[replies[h]].message
    BY DEF Due
  <2>4. \A x : x \in Due(j)' <=> \E h \in 1..(j - 1) : /\ Stores(task'[replies'[h]])
                                                    /\ x = task'[replies'[h]].message
    BY DEF Due
  <2>5. \A x : x \in Due(j)' <=> x \in Due(j)
    BY <2>2, <2>3, <2>4
  <2> HIDE DEF Due
  <2> QED BY <2>5
<1>6. ASSUME NEW j \in DOMAIN replies', Stores(task'[replies'[j]]), NEW c \in Clients
      PROVE  Has(stored', task'[replies'[j]].message, Heard(c)' \cup Due(j)')
  <2>1. Heard(c)' = Heard(c) /\ Due(j)' = Due(j)
    BY <1>2, <1>5 DEF Heard
  <2>2. CASE j \in DOMAIN replies
    <3>1. Has(stored, task[replies[j]].message, Heard(c) \cup Due(j))
      BY <1>4, <1>6, <2>2 DEF DueInOrder
    <3> QED BY <1>3, <1>4, <2>1, <2>2, <3>1, StillHas
  <2>3. CASE j \notin DOMAIN replies
    <3>1. j = Len(replies) + 1 /\ replies'[j] = s
      BY <1>1, <1>2, <2>3
    <3>2. Due(j) \subseteq On(stored)
      <4>1. \A h \in 1..(j - 1) : h \in DOMAIN replies
        BY <1>1, <3>1
      <4> QED BY <4>1, AllStored DEF Due
    <3>3. Heard(c) \cup Due(j) \subseteq On(stored)
      BY <3>2, AllStored
    <3>4. stored' = Append(stored, task'[s].message) /\ task'[s].message \in 1..MaxMessages
      BY <1>6, <3>1
    <3> QED BY <1>1, <2>1, <3>1, <3>3, <3>4, HasNext
  <2> QED BY <2>2, <2>3
<1> QED BY <1>3, <1>6 DEF DueInOrder

\* Redis executes commands: the stored messages get longer.
LEMMA EffectStores ==
  ASSUME batches \in Seq(Batches), Len(batches) <= MaxMessages,
         NEW s, CallOK(task[s], Len(batches)), NEW r \in KeysOK
  PROVE  /\ Stores(task[s]) => task[s].message \in 1..MaxMessages
         /\ Effect(r, s).stored = IF Stores(task[s]) THEN Append(r.stored, task[s].message)
                                                     ELSE r.stored
<1>1. Stores(task[s]) => task[s].message \in 1..MaxMessages
  <2>1. Len(batches) \in Nat /\ MaxMessages \in Nat
    BY ContentConstants
  <2> QED BY <2>1 DEF Stores, CallOK
<1> QED BY <1>1 DEF Effect, Stores

LEMMA LongerAfter ==
  ASSUME Typed, pipe # <<>>, NEW n \in 0..(Len(pipe) - 1)
  PROVE  Longer(KeysAfter(n).stored, stored)
<1>1. PICK f \in [0..n -> KeysOK] : KeysAfter(n) = f[n] /\ Executions(f, n)
  BY ExecutesAfter
<1>2. Len(pipe) \in Nat /\ n \in Nat /\ pipe \in Seq(Slots)
  BY DEF Typed, InFlight, Queue
<1> DEFINE P == {i \in 0..n : Longer(f[i].stored, stored)}
<1>3. 0 \in P
  <2>1. stored \in Seq(1..MaxMessages)
    BY DEF Typed, Keys, KeysOK
  <2>2. Longer(stored, stored)
    BY <2>1 DEF Longer
  <2> QED BY <1>1, <1>2, <2>2 DEF Executions, Keys
<1>4. ASSUME NEW i \in 1..n, i - 1 \in P
      PROVE  i \in P
  <2>1. i - 1 \in 0..n /\ i \in 0..n /\ i + 1 \in 1..Len(pipe)
    BY <1>2
  <2>2. PICK r \in KeysOK, s \in Slots : r = f[i - 1] /\ s = pipe[i + 1]
    <3>1. f[i - 1] \in KeysOK
      BY <2>1
    <3>2. pipe[i + 1] \in Slots
      BY <1>2, <2>1, ElementOfSeq
    <3> QED BY <3>1, <3>2
  <2>3. f[i] = Effect(r, s) /\ Longer(r.stored, stored)
    BY <1>1, <1>4, <2>2 DEF Executions
  <2>4. /\ Stores(task[s]) => task[s].message \in 1..MaxMessages
        /\ f[i].stored = IF Stores(task[s]) THEN Append(r.stored, task[s].message) ELSE r.stored
    <3>1. CallOK(task[s], Len(batches)) /\ batches \in Seq(Batches) /\ Len(batches) <= MaxMessages
      BY DEF Typed, Tasks, Values
    <3> QED BY <2>3, <3>1, EffectStores
  <2>5. r.stored \in Seq(1..MaxMessages)
    BY DEF KeysOK
  <2>6. Longer(f[i].stored, r.stored)
    <3>1. CASE Stores(task[s])
      BY <2>4, <2>5, <3>1, HasNext
    <3>2. CASE ~ Stores(task[s])
      BY <2>4, <2>5, <3>2 DEF Longer
    <3> QED BY <3>1, <3>2
  <2>7. Longer(f[i].stored, stored)
    BY <2>3, <2>6 DEF Longer
  <2> QED BY <2>1, <2>7
<1> HIDE DEF P
<1>5. \A i \in 0..n : i \in P
  BY <1>2, <1>3, <1>4, UpTo
<1> QED BY <1>1, <1>2, <1>5 DEF P

\* The broadcast of the message of slot s, whose turn it is.
LEMMA ContentStoredSeen ==
  ASSUME Typed, SeenAsStored, DueInOrder, NEW s \in Slots, ContentStored(s)
  PROVE  SeenAsStored' /\ DueInOrder'
<1>1. PICK m : m = task[s].message
  OBVIOUS
<1>2. /\ Turn(s, "setContent", "sync") /\ UNCHANGED stored
      /\ seen' = [c \in Clients |-> IF c \in room THEN Append(seen[c], m) ELSE seen[c]]
      /\ replies' = Taken(s)
  BY <1>1 DEF ContentStored, End, data
<1>3. PICK j \in DOMAIN replies :
        /\ replies[j] = s
        /\ \A i \in 1..(j - 1) : ~ Stores(task[replies[i]])
  BY <1>2 DEF Turn, Stores
<1>4. Stores(task[s])
  BY <1>2 DEF Turn, Stores
<1>5. Removed(replies', replies, j)
  <2>1. s \in On(replies)
    BY <1>3 DEF On
  <2>2. PICK i \in DOMAIN replies : replies[i] = s /\ Removed(Taken(s), replies, i)
    BY <2>1, TakenAway DEF Typed, InFlight
  <2>3. i = j
    BY <1>3, <2>2 DEF Typed, InFlight, Queue, Distinct
  <2> QED BY <1>2, <2>2, <2>3
<1>6. \A r \in On(replies) \ {s} : task'[r] = task[r]
  <2>1. Moved(s)
    BY ContinueTyped DEF Continue
  <2> QED BY <2>1, Places DEF Typed, Moved
<1>7. ASSUME NEW c \in Clients
      PROVE  /\ seen'[c] = IF c \in room THEN Append(seen[c], m) ELSE seen[c]
             /\ Len(seen[c]) \in Nat /\ DOMAIN seen[c] = 1..Len(seen[c])
             /\ seen[c] \in Seq(1..MaxMessages)
  <2>1. seen[c] \in Seq(1..MaxMessages)
    BY DEF Typed, Values
  <2> QED BY <1>2, <2>1
<1>8. m \in 1..MaxMessages
  <2>1. CallOK(task[s], Len(batches)) /\ Len(batches) \in Nat /\ Len(batches) <= MaxMessages
    BY DEF Typed, Values, Tasks
  <2>2. m \in 1..Len(batches) /\ MaxMessages \in Nat
    BY <1>1, <1>4, <2>1, ContentConstants DEF CallOK, Stores
  <2> QED BY <2>1, <2>2
<1>9. ASSUME NEW c \in Clients, c \in room
      PROVE  /\ DOMAIN seen'[c] = 1..(Len(seen[c]) + 1)
             /\ seen'[c][Len(seen[c]) + 1] = m
             /\ \A k \in 1..Len(seen[c]) : seen'[c][k] = seen[c][k]
  <2>1. PICK x, y : x = seen[c] /\ y = seen'[c]
    OBVIOUS
  <2>2. x \in Seq(1..MaxMessages) /\ y = Append(x, m)
    BY <1>7, <1>9, <2>1
  <2>3. /\ DOMAIN y = 1..(Len(x) + 1) /\ y[Len(x) + 1] = m
        /\ \A k \in 1..Len(x) : y[k] = x[k]
    BY <1>8, <2>2
  <2> QED BY <2>1, <2>3
<1>10. \A c \in Clients : Heard(c)' \subseteq Heard(c) \cup {m}
  <2> SUFFICES ASSUME NEW c \in Clients, NEW k \in DOMAIN seen'[c]
               PROVE  seen'[c][k] \in Heard(c) \cup {m}
    BY DEF Heard, On
  <2>1. CASE c \in room
    BY <1>7, <1>9, <2>1 DEF Heard, On
  <2>2. CASE c \notin room
    BY <1>7, <2>2 DEF Heard, On
  <2> QED BY <2>1, <2>2
<1>11. DueInOrder'
  BY <1>1, <1>2, <1>3, <1>4, <1>5, <1>6, <1>10, DueTaken
<1>12. ASSUME NEW c \in Clients, NEW k \in DOMAIN seen'[c]
       PROVE  \E p \in DOMAIN stored :
                /\ stored[p] = seen'[c][k]
                /\ \A i \in 1..(k - 1) : \E q \in 1..(p - 1) : stored[q] = seen'[c][i]
  <2>1. CASE c \in room /\ k = Len(seen[c]) + 1
    <3>1. Has(stored, m, Heard(c))
      <4>1. Has(stored, m, Heard(c) \cup Due(j))
        BY <1>1, <1>3, <1>4 DEF DueInOrder
      <4>2. Longer(stored, stored)
        BY DEF Typed, Keys, KeysOK, Longer
      <4> QED BY <4>1, <4>2, StillHas
    <3>2. \A i \in 1..(k - 1) : seen'[c][i] \in Heard(c)
      BY <1>7, <1>9, <2>1 DEF Heard, On
    <3> QED BY <1>9, <2>1, <3>1, <3>2 DEF Has
  <2>2. CASE ~ (c \in room /\ k = Len(seen[c]) + 1)
    <3>1. k \in DOMAIN seen[c] /\ \A i \in 1..k : seen'[c][i] = seen[c][i]
      BY <1>7, <1>9, <2>2
    <3>2. k \in 1..k /\ \A i \in 1..(k - 1) : i \in 1..k
      BY <1>7, <3>1
    <3>3. PICK p \in DOMAIN stored :
            /\ stored[p] = seen[c][k]
            /\ \A i \in 1..(k - 1) : \E q \in 1..(p - 1) : stored[q] = seen[c][i]
      BY <3>1 DEF SeenAsStored
    <3> QED BY <3>1, <3>2, <3>3
  <2> QED BY <2>1, <2>2
<1>13. SeenAsStored'
  <2> SUFFICES ASSUME NEW c \in Clients, NEW k \in DOMAIN seen'[c]
               PROVE  \E p \in DOMAIN stored' :
                        /\ stored'[p] = seen'[c][k]
                        /\ \A i \in 1..(k - 1) : \E q \in 1..(p - 1) : stored'[q] = seen'[c][i]
    BY Zenon DEF SeenAsStored
  <2>1. stored' = stored
    BY <1>2
  <2> QED BY <1>12, <2>1
<1> QED BY <1>11, <1>13

\* Any other call that goes on, ends or fails.
LEMMA ContinueSeen ==
  ASSUME Typed, SeenAsStored, DueInOrder, NEW s \in Slots, Continue(s) \/ SaveFails(s)
  PROVE  SeenAsStored' /\ DueInOrder'
<1>1. CASE ContentStored(s)
  BY <1>1, ContentStoredSeen
<1>2. CASE ~ ContentStored(s)
  <2>1. Moved(s)
    BY ContinueTyped
  <2>2. UNCHANGED <<seen, stored>> /\ (s \in On(replies) => ~ Stores(task[s]))
    <3>1. UNCHANGED stored
      BY <2>1 DEF Moved, data
    <3>2. task[s].pc = "save" => s \notin On(replies)
      BY Places DEF Typed, Waiting
    <3> QED BY <1>2, <3>1, <3>2 DEF Continue, SaveFails, HistoryRead, HistoryStored, ContentRead,
              SnapshotRead, SnapshotSaved, BackupSaved, RestoreStored, Turn, Stores
  <2>3. Longer(stored', stored)
    BY <2>2 DEF Typed, Keys, KeysOK, Longer
  <2>4. \A r \in On(replies) \ {s} : task'[r] = task[r]
    BY <2>1, Places DEF Typed, Moved
  <2>5. CASE s \notin On(replies)
    <3>1. UNCHANGED replies /\ \A r \in On(replies) : task'[r] = task[r]
      BY <2>1, <2>4, <2>5 DEF Moved
    <3> QED BY <2>2, <2>3, <3>1, SeenKept, DueKept
  <2>6. CASE s \in On(replies)
    <3>1. replies' = Taken(s)
      BY <2>1, <2>6 DEF Moved
    <3>2. PICK j \in DOMAIN replies : replies[j] = s /\ Removed(replies', replies, j)
      BY <2>6, <3>1, TakenAway DEF Typed, InFlight
    <3>3. \A c \in Clients : Heard(c)' = Heard(c)
      BY <2>2 DEF Heard
    <3>4. DueInOrder'
      BY <2>2, <2>4, <2>6, <3>2, <3>3, DueTaken
    <3> QED BY <2>2, <2>3, <3>4, SeenKept
  <2> QED BY <2>5, <2>6
<1> QED BY <1>1, <1>2

LEMMA ExecuteSeen ==
  ASSUME Typed, SeenAsStored, DueInOrder, Execute
  PROVE  SeenAsStored' /\ DueInOrder'
<1>1. PICK s \in Slots : s = Head(pipe)
  BY ExecuteTyped
<1>2. /\ s \notin On(replies) /\ task'[s] = Answer(task[s])
      /\ \A r \in Slots \ {s} : task'[r] = task[r]
  BY <1>1, ExecuteTyped
<1>3. UNCHANGED seen /\ replies' = Append(replies, s) /\ stored' = Effect(Keys, s).stored
  BY <1>1 DEF Execute, KeysBecome
<1>4. /\ Stores(task[s]) => task[s].message \in 1..MaxMessages
      /\ stored' = IF Stores(task[s]) THEN Append(stored, task[s].message) ELSE stored
  <2>1. /\ batches \in Seq(Batches) /\ Len(batches) <= MaxMessages
        /\ CallOK(task[s], Len(batches)) /\ Keys \in KeysOK /\ Keys.stored = stored
    BY DEF Typed, Values, Tasks, Keys
  <2> QED BY <1>3, <2>1, EffectStores
<1>5. Answer(task[s]).message = task[s].message /\ (Stores(Answer(task[s])) <=> Stores(task[s]))
  BY DEF Answer, Got, CallAt, Stores
<1>6. DueInOrder' /\ Longer(stored', stored)
  BY <1>2, <1>3, <1>4, <1>5, DueNext
<1> QED BY <1>3, <1>6, SeenKept

LEMMA OtherSeen ==
  ASSUME Typed, SeenAsStored, DueInOrder, UNCHANGED <<stored, seen, replies>>,
         \A s \in On(replies) : task'[s] = task[s]
  PROVE  SeenAsStored' /\ DueInOrder'
<1>1. Longer(stored', stored)
  BY DEF Typed, Keys, KeysOK, Longer
<1> QED BY <1>1, SeenKept, DueKept

LEMMA SeenStep ==
  ASSUME Typed, SeenAsStored, DueInOrder, [Next]_vars
  PROVE  SeenAsStored' /\ DueInOrder'
<1>1. ASSUME UNCHANGED vars \/ \E c \in Clients : JoinProject(c) \/ LeaveProject(c)
      PROVE  SeenAsStored' /\ DueInOrder'
  <2>1. UNCHANGED <<stored, seen, replies, task>>
    BY <1>1 DEF vars, data, JoinProject, LeaveProject
  <2> QED BY <2>1, OtherSeen
<1>2. ASSUME \/ \E b \in Batches : ProcessMessage(b)
             \/ CreateSnapshot
             \/ \E d \in snapshots : RestoreSnapshot(d)
      PROVE  SeenAsStored' /\ DueInOrder'
  <2>1. UNCHANGED <<stored, seen, replies>> /\ \E t : Start(t)
    BY <1>2 DEF ProcessMessage, CreateSnapshot, RestoreSnapshot, data
  <2>2. PICK s \in Slots : task[s].pc = "idle" /\ \E t : task' = [task EXCEPT ![s] = t]
    BY <2>1 DEF Start, FreeSlots
  <2>3. s \notin On(replies)
    BY <2>2, Places DEF Typed, Waiting
  <2>4. \A r \in On(replies) : task'[r] = task[r]
    BY <2>2, <2>3, Places DEF Typed, Tasks
  <2> QED BY <2>1, <2>4, OtherSeen
<1>3. CASE RedisError
  <2>1. UNCHANGED <<stored, seen, replies>>
    BY <1>3 DEF RedisError, data
  <2>2. \A r \in On(replies) : task'[r] = task[r]
    BY <1>3, ErrorTyped, Places DEF Typed
  <2> QED BY <2>1, <2>2, OtherSeen
<1>4. CASE RedisErrorEndsProcess
  <2>1. PICK n \in 0..(Len(pipe) - 1) : stored' = KeysAfter(n).stored
    BY <1>4 DEF RedisErrorEndsProcess, KeysBecome
  <2>2. pipe # <<>> /\ UNCHANGED seen /\ replies' = <<>>
    BY <1>4 DEF RedisErrorEndsProcess
  <2>3. SeenAsStored'
    BY <2>1, <2>2, LongerAfter, SeenKept
  <2>4. DueInOrder'
    BY <2>2 DEF DueInOrder
  <2> QED BY <2>3, <2>4
<1> QED BY <1>1, <1>2, <1>3, <1>4, ExecuteSeen, ContinueSeen DEF Next

\* Clients see the broadcasts of processMessage in the order in which the
\* messages were written, and only of messages that were, whatever calls
\* overlap and through restarts: replies keep the order of the commands, and
\* calls at one await go on in the order of their replies.
THEOREM SeenInOrder == Spec => []SeenAsStored
<1>1. Init => SeenAsStored /\ DueInOrder
  BY DEF Init, SeenAsStored, DueInOrder
<1>2. Typed /\ (SeenAsStored /\ DueInOrder) /\ [Next]_vars => (SeenAsStored /\ DueInOrder)'
  BY SeenStep
<1> QED BY <1>1, <1>2, Typing, PTL DEF Spec

---------------------------------------------------------------------------
(***************************************************************************)
(* No note twice.                                                          *)
(***************************************************************************)

\* The notes that messages have added so far, and those of the message of slot s.
Known   == UNION {Added(batches[k]) : k \in DOMAIN batches}
Adds(s) == Added(batches[task[s].message])

\* The messages that have yet to write the content.
Syncs     == {s \in Slots : task[s].kind = "sync"}
Unwritten == {s \in Syncs : ~ (Stores(task[s]) /\ s \in On(replies))}

\* Notes x that have no note twice and none that the messages of T add.
FreeOf(x, T) ==
  /\ Unique(x)
  /\ Named(x) \subseteq Known
  /\ \A s \in T : Named(x) \cap Adds(s) = {}

\* The notes that may become the content, or are: the keys, the snapshots, and
\* what the calls have read or will restore.
Readers == {s \in Slots : task[s].pc \notin {"getHistory", "setHistory"}}
Copies  == {content, ideal} \cup snapshots
             \cup {task[s].goal : s \in Slots} \cup {task[s].read : s \in Readers}

NewInEach  == \A j, k \in DOMAIN batches : j # k => Added(batches[j]) \cap Added(batches[k]) = {}
OwnMessage == \A r, s \in Syncs : task[r].message = task[s].message => r = s
Free(x)    == FreeOf(x, Unwritten)
AllFree    == \A x \in Copies : Free(x)

Clean == NewInEach /\ OwnMessage /\ AllFree

LEMMA NoNotesFree == \A T : FreeOf(<<>>, T)
BY DEF FreeOf, Unique, Named

LEMMA FreeOfFewer ==
  ASSUME NEW x, NEW T, FreeOf(x, T), NEW T1, T1 \subseteq T
  PROVE  FreeOf(x, T1)
BY DEF FreeOf

\* A step that makes no new notes.
LEMMA CleanKept ==
  ASSUME Clean, UNCHANGED batches, Copies' \subseteq Copies \cup {<<>>},
         \A s \in Syncs' : s \in Syncs /\ task'[s].message = task[s].message,
         Unwritten' \subseteq Unwritten
  PROVE  Clean'
<1>1. NewInEach' /\ OwnMessage'
  BY DEF Clean, NewInEach, OwnMessage
<1>2. Known' = Known
  BY DEF Known
<1>3. ASSUME NEW x \in Copies'
      PROVE  Free(x)'
  <2>1. FreeOf(x, Unwritten)
    BY <1>3, NoNotesFree DEF Clean, AllFree, Free
  <2>2. \A s \in Unwritten' : s \in Unwritten /\ Adds(s)' = Adds(s)
    BY DEF Unwritten, Adds
  <2> QED BY <1>2, <2>1, <2>2 DEF Free, FreeOf
<1> QED BY <1>1, <1>3 DEF Clean, AllFree

\* The note of slot s writes the content it has read, or the ideal.
LEMMA EditFree ==
  ASSUME Typed, NewInEach, OwnMessage, NEW s \in Syncs, NEW T \in SUBSET Syncs, s \in T,
         NEW x \in Contents, FreeOf(x, T)
  PROVE  FreeOf(Edited(x, task[s].message), T \ {s})
<1>1. PICK k, b, y : k = task[s].message /\ b = batches[k] /\ y = Edited(x, k)
  OBVIOUS
<1>2. /\ k \in DOMAIN batches /\ k \in 1..MaxMessages /\ b \in Batches
      /\ \A r \in Syncs : task[r].message \in DOMAIN batches
  <2>1. /\ batches \in Seq(Batches) /\ Len(batches) \in Nat /\ Len(batches) <= MaxMessages
        /\ MaxMessages \in Nat /\ DOMAIN batches = 1..Len(batches)
    BY ContentConstants DEF Typed, Values
  <2>2. \A r \in Syncs : task[r].message \in DOMAIN batches
    BY <2>1 DEF Typed, Tasks, CallOK, Syncs
  <2>3. k \in 1..Len(batches)
    BY <1>1, <2>1, <2>2
  <2>4. batches[k] \in Batches
    BY <2>1, <2>3, ElementOfSeq
  <2> QED BY <1>1, <2>1, <2>2, <2>3, <2>4
<1>3. EditKeeps(y, x, b)
  BY <1>1, <1>2, EditedKeeps
<1>4. Adds(s) = Added(b)
  BY <1>1 DEF Adds
<1>5. Unique(y) /\ Named(y) \subseteq Named(x) \cup Added(b)
  BY <1>3, <1>4 DEF EditKeeps, FreeOf
<1>6. Added(b) \subseteq Known
  BY <1>1, <1>2 DEF Known
<1>7. ASSUME NEW r \in T \ {s}
      PROVE  Named(y) \cap Adds(r) = {}
  <2>1. task[r].message # k /\ task[r].message \in DOMAIN batches
    BY <1>1, <1>2 DEF OwnMessage
  <2>2. Added(b) \cap Adds(r) = {}
    BY <1>1, <1>2, <2>1 DEF NewInEach, Adds
  <2>3. Named(x) \cap Adds(r) = {}
    BY DEF FreeOf
  <2> QED BY <1>5, <2>2, <2>3
<1>8. FreeOf(y, T \ {s})
  BY <1>5, <1>6, <1>7 DEF FreeOf
<1> QED BY <1>1, <1>8

\* The command of slot s, on keys that have none of the notes of T.
LEMMA EffectFree ==
  ASSUME Typed, NewInEach, OwnMessage, NEW s \in Slots, NEW T \in SUBSET Syncs,
         NEW r \in KeysOK, FreeOf(r.content, T), FreeOf(r.ideal, T), FreeOf(task[s].goal, T),
         s \in Readers => FreeOf(task[s].read, T),
         Stores(task[s]) => s \in T,
         NEW e, e = Effect(r, s)
  PROVE  FreeOf(e.content, T \ {s}) /\ FreeOf(e.ideal, T \ {s})
<1>1. T \ {s} \subseteq T
  OBVIOUS
<1>2. FreeOf(r.content, T \ {s}) /\ FreeOf(r.ideal, T \ {s}) /\ FreeOf(task[s].goal, T \ {s})
  BY <1>1, FreeOfFewer
<1>3. CASE Stores(task[s])
  <2>1. /\ e.content = Edited(task[s].read, task[s].message)
        /\ e.ideal = Edited(r.ideal, task[s].message)
    BY <1>3 DEF Effect, Stores, Replaced
  <2>2. s \in Syncs /\ s \in Readers /\ r.ideal \in Contents
    BY <1>3 DEF Stores, Syncs, Readers, KeysOK
  <2>3. task[s].read \in Contents
    BY <1>3 DEF Typed, Tasks, CallOK, Stores
  <2> QED BY <1>3, <2>1, <2>2, <2>3, EditFree
<1>4. CASE ~ Stores(task[s])
  <2>1. e.content \in {r.content, task[s].goal} /\ e.ideal \in {r.ideal, task[s].goal}
    BY <1>4 DEF Effect, Stores, Replaced
  <2> QED BY <1>2, <2>1
<1> QED BY <1>3, <1>4

LEMMA ExecuteClean ==
  ASSUME Typed, Clean, Execute
  PROVE  Clean'
<1>1. PICK s \in Slots : s = Head(pipe) /\ s \in On(pipe)
  BY ExecuteTyped
<1>2. /\ s \notin On(replies) /\ task'[s] = Answer(task[s])
      /\ \A r \in Slots \ {s} : task'[r] = task[r]
      /\ On(replies') = On(replies) \cup {s}
  BY <1>1, ExecuteTyped
<1>3. /\ UNCHANGED <<batches, snapshots>>
      /\ content' = Effect(Keys, s).content /\ ideal' = Effect(Keys, s).ideal
  BY <1>1 DEF Execute, KeysBecome
<1>4. /\ Answer(task[s]).pc = task[s].pc /\ Answer(task[s]).kind = task[s].kind
      /\ Answer(task[s]).message = task[s].message /\ Answer(task[s]).goal = task[s].goal
      /\ task[s].pc \notin {"getHistory", "setHistory"} =>
           Answer(task[s]).read \in {task[s].read, content}
  BY DEF Answer, Got, CallAt
<1>5. Syncs' = Syncs /\ Readers' = Readers /\ \A r \in Slots : task'[r].message = task[r].message
  BY <1>2, <1>4 DEF Syncs, Readers
<1>6. Unwritten' = IF Stores(task[s]) THEN Unwritten \ {s} ELSE Unwritten
  <2>1. \A r \in Slots : Stores(task'[r]) <=> Stores(task[r])
    BY <1>2, <1>4 DEF Stores
  <2> QED BY <1>2, <1>5, <2>1 DEF Unwritten, Syncs, Stores
<1>7. Copies' \subseteq Copies \cup {content', ideal'}
  <2>1. ASSUME NEW r \in Slots
        PROVE  task'[r].goal \in Copies /\ (r \in Readers => task'[r].read \in Copies)
    <3>1. CASE r = s
      BY <1>2, <1>4, <3>1 DEF Copies, Readers
    <3>2. CASE r # s
      BY <1>2, <3>2 DEF Copies
    <3> QED BY <3>1, <3>2
  <2>2. snapshots' \subseteq Copies
    BY <1>3 DEF Copies
  <2>3. Readers' = Readers /\ Readers \subseteq Slots
    BY <1>5 DEF Readers
  <2> QED BY <2>1, <2>2, <2>3 DEF Copies
<1>8. CASE Stores(task[s])
  <2>1. s \in Unwritten /\ Unwritten \subseteq Syncs
    BY <1>2, <1>8 DEF Unwritten, Syncs, Stores
  <2>2. /\ FreeOf(content, Unwritten) /\ FreeOf(ideal, Unwritten) /\ FreeOf(task[s].goal, Unwritten)
        /\ s \in Readers => FreeOf(task[s].read, Unwritten)
    BY DEF Clean, AllFree, Free, Copies
  <2>3. Keys \in KeysOK /\ Keys.content = content /\ Keys.ideal = ideal
    BY DEF Typed, Keys
  <2>4. FreeOf(content', Unwritten \ {s}) /\ FreeOf(ideal', Unwritten \ {s})
    BY <1>3, <2>1, <2>2, <2>3, EffectFree DEF Clean
  <2>5. \A x \in Copies' : FreeOf(x, Unwritten \ {s})
    <3> SUFFICES ASSUME NEW x \in Copies' PROVE FreeOf(x, Unwritten \ {s})
      OBVIOUS
    <3>1. CASE x \in Copies
      BY <3>1, FreeOfFewer DEF Clean, AllFree, Free
    <3> QED BY <1>7, <2>4, <3>1
  <2>6. Known' = Known /\ \A r \in Slots : Adds(r)' = Adds(r)
    BY <1>3, <1>5 DEF Known, Adds
  <2>7. ASSUME NEW x \in Copies' PROVE Free(x)'
    <3>1. FreeOf(x, Unwritten \ {s})
      BY <2>5
    <3>2. Unwritten' = Unwritten \ {s} /\ Unwritten \subseteq Slots
      BY <1>6, <1>8 DEF Unwritten, Syncs
    <3> QED BY <2>6, <3>1, <3>2 DEF Free, FreeOf
  <2>8. NewInEach' /\ OwnMessage'
    BY <1>3, <1>5 DEF Clean, NewInEach, OwnMessage, Syncs
  <2> QED BY <2>7, <2>8 DEF Clean, AllFree
<1>9. CASE ~ Stores(task[s])
  <2>1. content' \in {content, task[s].goal} /\ ideal' \in {ideal, task[s].goal}
    BY <1>3, <1>9 DEF Effect, Stores, Replaced, Keys
  <2>2. Copies' \subseteq Copies \cup {<<>>}
    BY <1>7, <2>1 DEF Copies
  <2>3. \A r \in Syncs' : r \in Syncs /\ task'[r].message = task[r].message
    BY <1>5 DEF Syncs
  <2> QED BY <1>3, <1>6, <1>9, <2>2, <2>3, CleanKept
<1> QED BY <1>8, <1>9

\* Of the commands behind the head of pipe the first n are executed, and the
\* process ends.
LEMMA RestartClean ==
  ASSUME Typed, Clean, RedisErrorEndsProcess
  PROVE  Clean'
<1>1. PICK n \in 0..(Len(pipe) - 1) : content' = KeysAfter(n).content /\ ideal' = KeysAfter(n).ideal
  BY DEF RedisErrorEndsProcess, KeysBecome
<1>2. PICK f \in [0..n -> KeysOK] : KeysAfter(n) = f[n] /\ Executions(f, n)
  BY ExecutesAfter DEF RedisErrorEndsProcess
<1>3. /\ Len(pipe) \in Nat /\ n \in Nat /\ DOMAIN pipe = 1..Len(pipe) /\ pipe \in Seq(Slots)
      /\ \A i, j \in 1..Len(pipe) : pipe[i] = pipe[j] => i = j
  BY DEF Typed, InFlight, Queue, Distinct
<1> DEFINE Behind(i) == {s \in Syncs : \E j \in (i + 2)..Len(pipe) : pipe[j] = s}
           P == {i \in 0..n : FreeOf(f[i].content, Behind(i)) /\ FreeOf(f[i].ideal, Behind(i))}
<1>4. ASSUME NEW i \in 0..n
      PROVE  Behind(i) \subseteq Unwritten /\ Behind(i) \in SUBSET Syncs
  <2>1. \A s \in Behind(i) : s \in On(pipe)
    BY <1>3 DEF On
  <2>2. \A s \in Behind(i) : s \notin On(replies)
    BY <2>1 DEF Typed, InFlight
  <2> QED BY <2>2 DEF Unwritten
<1>5. 0 \in P
  <2>1. f[0].content = content /\ f[0].ideal = ideal /\ 0 \in 0..n
    BY <1>2, <1>3 DEF Executions, Keys
  <2>2. FreeOf(content, Unwritten) /\ FreeOf(ideal, Unwritten)
    BY DEF Clean, AllFree, Free, Copies
  <2> HIDE DEF Behind
  <2>3. FreeOf(content, Behind(0)) /\ FreeOf(ideal, Behind(0))
    BY <1>4, <2>1, <2>2, FreeOfFewer
  <2> QED BY <2>1, <2>3
<1>6. ASSUME NEW i \in 1..n, i - 1 \in P
      PROVE  i \in P
  <2>1. i - 1 \in 0..n /\ i \in 0..n /\ i + 1 \in 1..Len(pipe)
    BY <1>3
  <2>2. PICK r \in KeysOK, s \in Slots : r = f[i - 1] /\ s = pipe[i + 1]
    <3>1. f[i - 1] \in KeysOK
      BY <2>1
    <3>2. pipe[i + 1] \in Slots
      BY <1>3, <2>1, ElementOfSeq
    <3> QED BY <3>1, <3>2
  <2>3. PICK T : T = Behind(i - 1)
    OBVIOUS
  <2>4. f[i] = Effect(r, s) /\ FreeOf(r.content, T) /\ FreeOf(r.ideal, T)
    BY <1>2, <1>6, <2>2, <2>3 DEF Executions
  <2>5. T \in SUBSET Syncs /\ T \subseteq Unwritten
    BY <1>4, <2>1, <2>3
  <2>6. /\ FreeOf(task[s].goal, T)
        /\ s \in Readers => FreeOf(task[s].read, T)
    <3>1. /\ FreeOf(task[s].goal, Unwritten)
          /\ s \in Readers => FreeOf(task[s].read, Unwritten)
      BY DEF Clean, AllFree, Free, Copies
    <3> QED BY <2>5, <3>1, FreeOfFewer
  <2>7. Stores(task[s]) => s \in T
    <3>1. (i - 1) + 2 = i + 1 /\ i + 1 \in (i + 1)..Len(pipe)
      BY <1>3, <2>1
    <3> QED BY <2>2, <2>3, <3>1 DEF Stores, Syncs
  <2>8. FreeOf(f[i].content, T \ {s}) /\ FreeOf(f[i].ideal, T \ {s})
    BY <2>4, <2>5, <2>6, <2>7, EffectFree DEF Clean
  <2>9. Behind(i) \subseteq T \ {s}
    <3>1. \A j \in (i + 2)..Len(pipe) :
            j \in ((i - 1) + 2)..Len(pipe) /\ j # i + 1 /\ j \in 1..Len(pipe)
      BY <1>3, <2>1
    <3>2. \A j \in (i + 2)..Len(pipe) : pipe[j] # s
      BY <1>3, <2>1, <2>2, <3>1
    <3> QED BY <2>3, <3>1, <3>2
  <2> HIDE DEF Behind
  <2>10. FreeOf(f[i].content, Behind(i)) /\ FreeOf(f[i].ideal, Behind(i))
    BY <2>8, <2>9, FreeOfFewer
  <2> QED BY <2>1, <2>10
<1> HIDE DEF P
<1>7. n \in P
  <2>1. \A i \in 0..n : i \in P
    BY <1>3, <1>5, <1>6, UpTo
  <2> QED BY <1>3, <2>1
<1>8. FreeOf(content', {}) /\ FreeOf(ideal', {})
  BY <1>1, <1>2, <1>7, FreeOfFewer DEF P
<1>9. UNCHANGED <<batches, snapshots>> /\ \A s \in Slots : task'[s] = NoCall
  BY RestartTyped DEF RedisErrorEndsProcess
<1>10. Syncs' = {} /\ Unwritten' = {} /\ Known' = Known
  BY <1>9 DEF Syncs, Unwritten, NoCall, CallAt, Known
<1>11. Copies' \subseteq snapshots \cup {content', ideal', <<>>}
  BY <1>9 DEF Copies, Readers, NoCall, CallAt
<1>12. \A x \in Copies' : FreeOf(x, {})
  <2>1. \A x \in snapshots : FreeOf(x, Unwritten)
    BY DEF Clean, AllFree, Free, Copies
  <2>2. \A x \in snapshots : FreeOf(x, {})
    BY <2>1, FreeOfFewer
  <2> QED BY <1>8, <1>11, <2>2, NoNotesFree
<1>13. AllFree'
  BY <1>10, <1>12 DEF AllFree, Free, FreeOf
<1>14. NewInEach' /\ OwnMessage'
  BY <1>9, <1>10 DEF Clean, NewInEach, OwnMessage
<1> QED BY <1>13, <1>14 DEF Clean

\* A call that starts has read nothing; a message adds notes that none added
\* before.
LEMMA StartClean ==
  ASSUME Typed, Clean, UNCHANGED <<data, snapshots, replies>>, NEW t, Start(t), t.read = <<>>,
         t.goal \in snapshots \cup {<<>>},
         \/ t.kind # "sync" /\ UNCHANGED batches
         \/ /\ t.kind = "sync" /\ t.message = Len(batches) + 1
            /\ \E b \in Batches : /\ batches' = Append(batches, b)
                                  /\ \A k \in DOMAIN batches : Added(b) \cap Added(batches[k]) = {}
  PROVE  Clean'
<1>1. PICK s \in Slots : task[s].pc = "idle" /\ task' = [task EXCEPT ![s] = t]
  BY DEF Start, FreeSlots
<1>2. task'[s] = t /\ (\A r \in Slots \ {s} : task'[r] = task[r]) /\ s \notin Syncs
  BY <1>1 DEF Typed, Tasks, CallOK, Stage, Syncs
<1>3. Copies' \subseteq Copies \cup {<<>>}
  <2>1. ASSUME NEW r \in Slots
        PROVE  /\ task'[r].goal \in Copies \cup {<<>>}
               /\ r \in Readers' => task'[r].read \in Copies \cup {<<>>}
    <3>1. CASE r = s
      BY <1>2, <3>1 DEF Copies
    <3>2. CASE r # s
      BY <1>2, <3>2 DEF Copies, Readers
    <3> QED BY <3>1, <3>2
  <2>2. UNCHANGED <<content, ideal, snapshots>>
    BY DEF data
  <2>3. Readers' \subseteq Slots
    BY DEF Readers
  <2> QED BY <2>1, <2>2, <2>3 DEF Copies
<1>4. CASE t.kind # "sync" /\ UNCHANGED batches
  <2>1. Syncs' = Syncs /\ \A r \in Syncs : task'[r] = task[r]
    BY <1>2, <1>4 DEF Syncs
  <2>2. Unwritten' \subseteq Unwritten
    BY <2>1 DEF Unwritten
  <2> QED BY <1>3, <1>4, <2>1, <2>2, CleanKept
<1>5. ASSUME t.kind = "sync", t.message = Len(batches) + 1,
             NEW b \in Batches, batches' = Append(batches, b),
             \A k \in DOMAIN batches : Added(b) \cap Added(batches[k]) = {}
      PROVE  Clean'
  <2>1. /\ DOMAIN batches = 1..Len(batches) /\ Len(batches) \in Nat
        /\ DOMAIN batches' = 1..(Len(batches) + 1) /\ batches'[Len(batches) + 1] = b
        /\ \A k \in DOMAIN batches : batches'[k] = batches[k]
        /\ \A k \in DOMAIN batches' : k \in DOMAIN batches \/ k = Len(batches) + 1
    <3>1. batches \in Seq(Batches)
      BY DEF Typed, Values
    <3> QED BY <1>5, <3>1
  <2>2. Known' = Known \cup Added(b)
    BY <2>1 DEF Known
  <2>3. /\ Syncs' = Syncs \cup {s}
        /\ \A r \in Syncs : task'[r] = task[r] /\ task[r].message \in DOMAIN batches
    BY <1>2, <1>5, <2>1 DEF Syncs, Typed, Tasks, CallOK
  <2>4. Unwritten' \subseteq Unwritten \cup {s} /\ Unwritten \subseteq Syncs
    BY <2>3 DEF Unwritten
  <2>5. Adds(s)' = Added(b) /\ \A r \in Syncs : Adds(r)' = Adds(r)
    BY <1>2, <1>5, <2>1, <2>3 DEF Adds
  <2>6. ASSUME NEW x \in Copies'
        PROVE  Free(x)'
    <3>1. FreeOf(x, Unwritten)
      BY <1>3, NoNotesFree DEF Clean, AllFree, Free
    <3>2. Known \cap Added(b) = {}
      BY <1>5 DEF Known
    <3>3. Named(x) \cap Added(b) = {}
      BY <3>1, <3>2 DEF FreeOf
    <3>4. \A r \in Unwritten' : Named(x) \cap Adds(r)' = {}
      BY <2>4, <2>5, <3>1, <3>3 DEF FreeOf
    <3> QED BY <2>2, <3>1, <3>4 DEF Free, FreeOf
  <2>7. NewInEach'
    BY <1>5, <2>1 DEF Clean, NewInEach
  <2>8. OwnMessage'
    <3>1. \A r \in Syncs : task'[r].message # task'[s].message
      BY <1>2, <1>5, <2>1, <2>3
    <3> QED BY <2>3, <3>1 DEF Clean, OwnMessage
  <2> QED BY <2>6, <2>7, <2>8 DEF Clean, AllFree
<1> QED BY <1>4, <1>5

LEMMA ContinueClean ==
  ASSUME Typed, Clean, NEW s \in Slots, Continue(s) \/ SaveFails(s)
  PROVE  Clean'
<1>1. Moved(s)
  BY ContinueTyped
<1>2. UNCHANGED batches /\ UNCHANGED <<content, ideal>>
  BY <1>1 DEF Moved, data
<1>3. \A r \in Slots \ {s} : task'[r] = task[r]
  BY <1>1 DEF Moved
<1>4. snapshots' \subseteq snapshots \cup (IF s \in Readers THEN {task[s].read} ELSE {})
  BY DEF Continue, SaveFails, HistoryRead, HistoryStored, ContentRead, ContentStored,
         SnapshotRead, SnapshotSaved, BackupSaved, RestoreStored, Row, Readers
<1>5. DOMAIN task = Slots
  BY DEF Typed, Tasks
<1>6. /\ task[s].pc = "setContent" => task'[s] = NoCall
      /\ task'[s] \in {At(task[s], "save"), At(task[s], "setContent")} =>
           task[s].pc \in {"getContent", "save"}
  <2>1. CASE HistoryRead(s)
    BY <1>5, <2>1 DEF HistoryRead, Turn, GoOn, Send, At, Got, CallAt
  <2>2. CASE HistoryStored(s)
    BY <1>5, <2>2 DEF HistoryStored, Turn, GoOn, Send, At, Got, CallAt
  <2>3. CASE ContentRead(s) \/ SnapshotRead(s) \/ BackupSaved(s)
    BY <2>3 DEF ContentRead, SnapshotRead, BackupSaved, Turn
  <2>4. CASE SnapshotSaved(s) \/ SaveFails(s)
    BY <2>4 DEF SnapshotSaved, SaveFails
  <2>5. CASE ContentStored(s) \/ RestoreStored(s)
    <3>1. task'[s] = NoCall
      BY <1>5, <2>5 DEF ContentStored, RestoreStored, End
    <3> QED BY <3>1 DEF At, NoCall, CallAt
  <2> QED BY <2>1, <2>2, <2>3, <2>4, <2>5 DEF Continue
<1>7. /\ task'[s].goal \in {task[s].goal, <<>>}
      /\ s \in Readers' => task'[s].read = <<>> \/ (s \in Readers /\ task'[s].read = task[s].read)
      /\ s \in Syncs' => /\ s \in Syncs /\ task'[s].message = task[s].message
                         /\ task[s].pc # "setContent"
  <2>1. task'[s] \in {NoCall, At(task[s], "save"), At(task[s], "setHistory"),
                      At(task[s], "setContent"), Got(At(task[s], "getContent"), <<>>)}
    BY <1>1 DEF Moved
  <2>2. CASE task'[s] = NoCall
    BY <2>2 DEF NoCall, CallAt, Readers, Syncs
  <2>3. CASE task'[s] \in {At(task[s], "save"), At(task[s], "setContent")}
    <3>1. task[s].pc \in {"getContent", "save"}
      BY <1>6, <2>3
    <3> QED BY <2>3, <3>1 DEF At, CallAt, Readers, Syncs
  <2>4. CASE task'[s] \in {At(task[s], "setHistory"), Got(At(task[s], "getContent"), <<>>)}
    <3>1. task[s].pc # "setContent"
      BY <1>6, <2>4 DEF NoCall, At, Got, CallAt
    <3> QED BY <2>4, <3>1 DEF At, Got, CallAt, Readers, Syncs
  <2> QED BY <2>1, <2>2, <2>3, <2>4
<1>8. \A r \in Syncs' : r \in Syncs /\ task'[r].message = task[r].message
  BY <1>3, <1>7 DEF Syncs
<1>9. Unwritten' \subseteq Unwritten
  <2> SUFFICES ASSUME NEW r \in Unwritten' PROVE r \in Unwritten
    OBVIOUS
  <2>1. r \in Syncs' /\ r \in Syncs /\ r \in Slots
    BY <1>8 DEF Unwritten, Syncs
  <2>2. CASE r = s
    BY <1>7, <2>1, <2>2 DEF Unwritten, Stores
  <2>3. CASE r # s
    BY <1>1, <1>3, <2>1, <2>3 DEF Moved, Unwritten
  <2> QED BY <2>2, <2>3
<1>10. Copies' \subseteq Copies \cup {<<>>}
  <2>1. ASSUME NEW r \in Slots
        PROVE  /\ task'[r].goal \in Copies \cup {<<>>}
               /\ r \in Readers' => task'[r].read \in Copies \cup {<<>>}
    <3>1. CASE r = s
      BY <1>7, <3>1 DEF Copies
    <3>2. CASE r # s
      BY <1>3, <3>2 DEF Copies, Readers
    <3> QED BY <3>1, <3>2
  <2>2. snapshots' \subseteq Copies
    BY <1>4 DEF Copies
  <2>3. Readers' \subseteq Slots
    BY DEF Readers
  <2> QED BY <1>2, <2>1, <2>2, <2>3 DEF Copies
<1> QED BY <1>2, <1>8, <1>9, <1>10, CleanKept

LEMMA CleanStep ==
  ASSUME Typed, Clean, [Next]_vars
  PROVE  Clean'
<1>1. ASSUME UNCHANGED vars \/ \E c \in Clients : JoinProject(c) \/ LeaveProject(c)
      PROVE  Clean'
  <2>1. UNCHANGED <<batches, content, ideal, snapshots, task, replies>>
    BY <1>1 DEF vars, data, JoinProject, LeaveProject
  <2>2. Copies' = Copies /\ Syncs' = Syncs /\ Unwritten' = Unwritten
    BY <2>1 DEF Copies, Readers, Syncs, Unwritten
  <2> QED BY <2>1, <2>2, CleanKept
<1>2. ASSUME NEW b \in Batches, ProcessMessage(b)
      PROVE  Clean'
  <2> DEFINE t == CallAt("getHistory", "sync", Number, <<>>, <<>>)
  <2>1. t.read = <<>> /\ t.goal = <<>> /\ t.kind = "sync" /\ t.message = Len(batches) + 1
    BY DEF CallAt, Number
  <2>2. /\ Start(t) /\ batches' = Append(batches, b) /\ UNCHANGED <<data, snapshots, replies>>
        /\ \A k \in DOMAIN batches : Added(b) \cap Added(batches[k]) = {}
    BY <1>2 DEF ProcessMessage
  <2> HIDE DEF t
  <2> QED BY <2>1, <2>2, StartClean
<1>3. ASSUME CreateSnapshot \/ \E d \in snapshots : RestoreSnapshot(d)
      PROVE  Clean'
  <2>1. PICK kind \in {"snapshot", "restore"}, d \in snapshots \cup {<<>>} :
          Start(CallAt("getContent", kind, 0, <<>>, d))
    BY <1>3 DEF CreateSnapshot, RestoreSnapshot
  <2>2. UNCHANGED <<batches, data, snapshots, replies>>
    BY <1>3 DEF CreateSnapshot, RestoreSnapshot
  <2> DEFINE t == CallAt("getContent", kind, 0, <<>>, d)
  <2>3. t.read = <<>> /\ t.goal = d /\ t.kind # "sync" /\ Start(t)
    BY <2>1 DEF CallAt
  <2> HIDE DEF t
  <2> QED BY <2>2, <2>3, StartClean
<1>4. CASE RedisError
  <2>1. PICK s \in Slots : s = Head(pipe)
    BY <1>4, ErrorTyped
  <2>2. task'[s] = NoCall /\ \A r \in Slots \ {s} : task'[r] = task[r]
    BY <1>4, <2>1, ErrorTyped
  <2>3. UNCHANGED <<batches, content, ideal, snapshots, replies>>
    BY <1>4 DEF RedisError, data
  <2>4. Syncs' \subseteq Syncs \ {s} /\ \A r \in Syncs' : task'[r].message = task[r].message
    BY <2>2 DEF Syncs, NoCall, CallAt
  <2>5. Unwritten' \subseteq Unwritten
    BY <2>2, <2>3, <2>4 DEF Unwritten, Syncs
  <2>6. Copies' \subseteq Copies \cup {<<>>}
    <3>1. ASSUME NEW r \in Slots
          PROVE  /\ task'[r].goal \in Copies \cup {<<>>}
                 /\ r \in Readers' => task'[r].read \in Copies \cup {<<>>}
      <4>1. CASE r = s
        BY <2>2, <4>1 DEF NoCall, CallAt
      <4>2. CASE r # s
        BY <2>2, <4>2 DEF Copies, Readers
      <4> QED BY <4>1, <4>2
    <3>2. Readers' \subseteq Slots
      BY DEF Readers
    <3> QED BY <2>3, <3>1, <3>2 DEF Copies
  <2> QED BY <2>3, <2>4, <2>5, <2>6, CleanKept
<1> QED BY <1>1, <1>2, <1>3, <1>4, ExecuteClean, RestartClean, ContinueClean DEF Next

LEMMA CleanInit == Init => Clean
<1> SUFFICES ASSUME Init PROVE Clean
  OBVIOUS
<1>1. Copies \subseteq {<<>>}
  BY DEF Init, Copies, Readers, NoCall, CallAt
<1>2. Syncs = {} /\ NewInEach
  BY DEF Init, Syncs, NoCall, CallAt, NewInEach
<1> QED BY <1>1, <1>2, NoNotesFree DEF Clean, AllFree, Free, OwnMessage

\* No note is twice in the content that processMessage and restoreSnapshot
\* write, whatever calls overlap, however old what they read or restore is, and
\* wherever a restart cuts them off: a message adds notes that no copy has.
THEOREM NoNoteTwice == Spec => []NotesUnique
<1>1. Typed /\ Clean /\ [Next]_vars => Clean'
  BY CleanStep
<1>2. Clean => NotesUnique
  BY DEF Clean, AllFree, Free, Copies, FreeOf, Unique, NotesUnique
<1> QED BY <1>1, <1>2, CleanInit, Typing, PTL DEF Spec

=============================================================================

--------------------------- MODULE SessionProofs ---------------------------
(***************************************************************************)
(* Proofs about Session, for any servers, roots, files and bounds.         *)
(*                                                                         *)
(* The argument is about one queue: what is parked, followed by what is    *)
(* still in the fifo.  Read from the document kak-lsp has of a buffer,     *)
(* through the messages of that buffer in the queue, to the buffer in the  *)
(* editor, versions never go back until the buffer is closed (Grows); the  *)
(* last update on that way is the one the editor sent last (LastIs); and,  *)
(* if kak-lsp has not ended before, every message finds the document open  *)
(* (AllOpen).                                                              *)
(***************************************************************************)
EXTENDS Session, SequenceTheorems, TLAPS

Queue == pending \o pipe

\* Positions in a queue: 0 is the document, Len(q) + 1 the buffer in the editor.
About(q, b, i) == i = 0 \/ i = Len(q) + 1 \/ q[i].buf = b
Closing(q, b, i) == i \in DOMAIN q /\ q[i].buf = b /\ q[i].kind = "didClose"
Updating(q, b, i) == i = 0 \/ (q[i].buf = b /\ q[i].kind \in Updates)
VersionAt(q, d, v, i) == IF i = 0 THEN d ELSE IF i = Len(q) + 1 THEN v ELSE q[i].version

Grows(q, b, d, v) ==
  \A i \in 0..Len(q), j \in 1..Len(q) + 1 :
    i < j /\ About(q, b, i) /\ About(q, b, j) /\ (\A x \in i..j - 1 : ~Closing(q, b, x)) =>
      VersionAt(q, d, v, i) <= VersionAt(q, d, v, j)

LastIs(q, b, d, t) ==
  \A i \in 0..Len(q) :
    Updating(q, b, i) /\ (\A x \in i + 1..Len(q) : ~Updating(q, b, x)) =>
      /\ VersionAt(q, d, 0, i) = t
      /\ \A x \in i + 1..Len(q) : ~Closing(q, b, x)

OpenBefore(q, b, doc, j) ==
  \E i \in 0..j - 1 :
    /\ IF i = 0 THEN doc # NoDoc ELSE q[i].buf = b /\ q[i].kind = "didOpen"
    /\ \A x \in i + 1..j - 1 : ~Closing(q, b, x)

AllOpen(q, b, doc, v) ==
  \A j \in 1..Len(q) + 1 :
    (IF j = Len(q) + 1 THEN v > 0 ELSE q[j].buf = b /\ q[j].kind # "didOpen") =>
      OpenBefore(q, b, doc, j)

-----------------------------------------------------------------------------
(***************************************************************************)
(* What the four ways the queue changes in do to it.                       *)
(***************************************************************************)

Like(m, n) == m.kind = n.kind /\ m.buf = n.buf /\ m.version = n.version

\* The same messages, routed or not.
Alike(q, r) == Len(r) = Len(q) /\ \A i \in 1..Len(q) : Like(r[i], q[i])

\* Position i of a queue that lost its message k, in the queue that had it.
At(k, i) == IF i < k THEN i ELSE i + 1

Dropped(q, k, r) ==
  /\ k \in 1..Len(q) /\ Len(r) = Len(q) - 1
  /\ \A i \in 1..Len(r) : Like(r[i], q[At(k, i)])

\* No message before the k-th is about buffer b.
FirstOf(q, b, k) == \A i \in 1..k - 1 : q[i].buf # b

LEMMA MessageType ==
  ASSUME NEW m \in Message
  PROVE  m.version \in Nat /\ m.buf \in Buffer
BY DEF Message

\* Routing a message changes none of what the queue says.
LEMMA AlikeKeeps ==
  ASSUME NEW q \in Seq(Message), NEW r \in Seq(Message), Alike(q, r),
         NEW b \in Buffer, NEW doc, NEW d \in Int, NEW v \in Nat, NEW t \in Nat
  PROVE  /\ Grows(q, b, d, v) => Grows(r, b, d, v)
         /\ LastIs(q, b, d, t) => LastIs(r, b, d, t)
         /\ AllOpen(q, b, doc, v) => AllOpen(r, b, doc, v)
<1>1. Len(q) \in Nat /\ DOMAIN q = 1..Len(q) /\ DOMAIN r = 1..Len(q) /\ Len(r) = Len(q)
  BY DEF Alike
<1>2. \A i \in 0..Len(q) + 1 : /\ About(r, b, i) <=> About(q, b, i)
                               /\ VersionAt(r, d, v, i) = VersionAt(q, d, v, i)
  BY <1>1 DEF Alike, Like, About, VersionAt
<1>3. \A i \in 0..Len(q) : /\ Updating(r, b, i) <=> Updating(q, b, i)
                           /\ VersionAt(r, d, 0, i) = VersionAt(q, d, 0, i)
  BY <1>1 DEF Alike, Like, Updating, VersionAt
<1>4. \A i \in Int : Closing(r, b, i) <=> Closing(q, b, i)
  BY <1>1 DEF Alike, Like, Closing
<1>5. Grows(q, b, d, v) => Grows(r, b, d, v)
  <2>1. SUFFICES ASSUME Grows(q, b, d, v), NEW i \in 0..Len(r), NEW j \in 1..Len(r) + 1,
                        i < j, About(r, b, i), About(r, b, j),
                        \A x \in i..j - 1 : ~Closing(r, b, x)
                 PROVE  VersionAt(r, d, v, i) <= VersionAt(r, d, v, j)
    BY DEF Grows
  <2>2. \A x \in i..j - 1 : ~Closing(q, b, x)
    BY <2>1, <1>4
  <2>3. About(q, b, i) /\ About(q, b, j)
    BY <2>1, <1>1, <1>2
  <2>4. VersionAt(q, d, v, i) <= VersionAt(q, d, v, j)
    BY <2>1, <2>2, <2>3, <1>1 DEF Grows
  <2>5. QED BY <2>4, <1>1, <1>2
<1>6. LastIs(q, b, d, t) => LastIs(r, b, d, t)
  <2>1. SUFFICES ASSUME LastIs(q, b, d, t), NEW i \in 0..Len(r), Updating(r, b, i),
                        \A x \in i + 1..Len(r) : ~Updating(r, b, x)
                 PROVE  /\ VersionAt(r, d, 0, i) = t
                        /\ \A x \in i + 1..Len(r) : ~Closing(r, b, x)
    BY DEF LastIs
  <2>2. Updating(q, b, i) /\ \A x \in i + 1..Len(q) : ~Updating(q, b, x)
    BY <2>1, <1>1, <1>3
  <2>3. VersionAt(q, d, 0, i) = t /\ \A x \in i + 1..Len(q) : ~Closing(q, b, x)
    BY <2>1, <2>2, <1>1 DEF LastIs
  <2>4. QED BY <2>3, <1>1, <1>3, <1>4
<1>7. AllOpen(q, b, doc, v) => AllOpen(r, b, doc, v)
  <2>1. SUFFICES ASSUME AllOpen(q, b, doc, v), NEW j \in 1..Len(r) + 1,
                        IF j = Len(r) + 1 THEN v > 0 ELSE r[j].buf = b /\ r[j].kind # "didOpen"
                 PROVE  OpenBefore(r, b, doc, j)
    BY DEF AllOpen
  <2>2. OpenBefore(q, b, doc, j)
    BY <2>1, <1>1 DEF AllOpen, Alike, Like
  <2>3. PICK i \in 0..j - 1 :
           /\ IF i = 0 THEN doc # NoDoc ELSE q[i].buf = b /\ q[i].kind = "didOpen"
           /\ \A x \in i + 1..j - 1 : ~Closing(q, b, x)
    BY <2>2 DEF OpenBefore
  <2>4. IF i = 0 THEN doc # NoDoc ELSE r[i].buf = b /\ r[i].kind = "didOpen"
    BY <2>3, <1>1 DEF Alike, Like
  <2>5. \A x \in i + 1..j - 1 : ~Closing(r, b, x)
    BY <2>3, <1>4
  <2>6. QED BY <2>4, <2>5 DEF OpenBefore
<1>8. QED BY <1>5, <1>6, <1>7

\* What the editor appends: a message about another buffer, or one about the
\* version w that the buffer had (v unless the message opens it), which then has
\* version u.
LEMMA AppendKeepsGrows ==
  ASSUME NEW q \in Seq(Message), NEW m \in Message, NEW b \in Buffer,
         NEW d \in Int, NEW v \in Nat, NEW u \in Nat, Grows(q, b, d, v),
         \/ m.buf # b /\ u = v
         \/ m.buf = b /\ v <= m.version /\ (m.kind = "didClose" \/ m.version <= u)
  PROVE  Grows(Append(q, m), b, d, u)
<1> DEFINE r == Append(q, m)
           n == Len(q)
<1>1. /\ n \in Nat /\ DOMAIN q = 1..n /\ Len(r) = n + 1 /\ DOMAIN r = 1..n + 1
      /\ \A i \in 1..n : r[i] = q[i]
      /\ r[n + 1] = m
  OBVIOUS
<1>2. m.version \in Nat /\ \A i \in 1..n : q[i] \in Message /\ q[i].version \in Nat
  BY <1>1, MessageType
<1> HIDE DEF r
<1>3. \A i \in 0..n : /\ About(r, b, i) <=> About(q, b, i)
                      /\ VersionAt(r, d, u, i) = VersionAt(q, d, v, i)
                      /\ VersionAt(q, d, v, i) \in Int
  BY <1>1, <1>2 DEF About, VersionAt
<1>4. \A i \in 0..n : Closing(r, b, i) <=> Closing(q, b, i)
  BY <1>1 DEF Closing
<1>5. /\ About(q, b, n + 1) /\ About(r, b, n + 2)
      /\ VersionAt(q, d, v, n + 1) = v
      /\ VersionAt(r, d, u, n + 1) = m.version /\ VersionAt(r, d, u, n + 2) = u
      /\ About(r, b, n + 1) <=> m.buf = b
      /\ Closing(r, b, n + 1) <=> m.buf = b /\ m.kind = "didClose"
  BY <1>1 DEF About, VersionAt, Closing
<1>6. SUFFICES ASSUME NEW i \in 0..Len(r), NEW j \in 1..Len(r) + 1,
                      i < j, About(r, b, i), About(r, b, j),
                      \A x \in i..j - 1 : ~Closing(r, b, x)
               PROVE  VersionAt(r, d, u, i) <= VersionAt(r, d, u, j)
  BY DEF Grows, r
<1>7. CASE j <= n
  <2>1. i \in 0..n /\ j \in 1..n + 1 /\ About(q, b, i) /\ About(q, b, j)
    BY <1>1, <1>3, <1>6, <1>7
  <2>2. \A x \in i..j - 1 : ~Closing(q, b, x)
    BY <1>4, <1>6, <1>7, <1>1
  <2>3. VersionAt(q, d, v, i) <= VersionAt(q, d, v, j)
    BY <2>1, <2>2, <1>6 DEF Grows
  <2>4. QED BY <2>1, <2>3, <1>3, <1>7
<1>8. ASSUME i \in 0..n, \A x \in i..n : ~Closing(r, b, x)
      PROVE  VersionAt(r, d, u, i) <= v
  <2>1. \A x \in i..(n + 1) - 1 : ~Closing(q, b, x)
    BY <1>8, <1>4, <1>1
  <2>2. /\ i \in 0..Len(q) /\ n + 1 \in 1..Len(q) + 1 /\ i < n + 1
        /\ About(q, b, i) /\ About(q, b, n + 1)
    BY <1>8, <1>1, <1>3, <1>5, <1>6
  <2>3. VersionAt(q, d, v, i) <= VersionAt(q, d, v, n + 1)
    BY <2>1, <2>2 DEF Grows
  <2>4. QED BY <2>3, <1>3, <1>5, <1>8
<1>9. CASE j > n
  <2>1. j = n + 1 \/ j = n + 2
    BY <1>9, <1>1
  <2>2. CASE i \in 0..n
    <3>1. VersionAt(r, d, u, i) <= v
      BY <1>8, <2>2, <1>6, <1>9, <1>1
    <3>2. VersionAt(r, d, u, i) \in Int
      BY <1>3, <2>2
    <3>3. CASE j = n + 1
      BY <3>1, <3>2, <3>3, <1>5, <1>6, <1>2
    <3>4. CASE j = n + 2
      <4>1. ~Closing(r, b, n + 1)
        BY <3>4, <2>2, <1>6, <1>1
      <4>2. v <= u
        BY <4>1, <1>5, <1>2
      <4>3. QED BY <4>2, <3>1, <3>2, <3>4, <1>5
    <3>5. QED BY <2>1, <3>3, <3>4
  <2>3. CASE i \notin 0..n
    <3>1. i = n + 1 /\ j = n + 2
      BY <2>1, <2>3, <1>1, <1>6
    <3>2. QED BY <3>1, <1>5, <1>6, <1>1
  <2>4. QED BY <2>2, <2>3
<1>10. QED BY <1>7, <1>9, <1>6, <1>1

\* An update is the last one; anything else but didClose leaves the last one be.
LEMMA AppendKeepsLast ==
  ASSUME NEW q \in Seq(Message), NEW m \in Message, NEW b \in Buffer,
         NEW d \in Int, NEW t \in Nat, NEW w \in Nat,
         \/ m.buf = b /\ m.kind \in Updates /\ m.version = w
         \/ /\ LastIs(q, b, d, t) /\ w = t
            /\ m.buf # b \/ m.kind \notin Updates \cup {"didClose"}
  PROVE  LastIs(Append(q, m), b, d, w)
<1> DEFINE r == Append(q, m)
           n == Len(q)
<1>1. /\ n \in Nat /\ DOMAIN q = 1..n /\ Len(r) = n + 1 /\ DOMAIN r = 1..n + 1
      /\ \A i \in 1..n : r[i] = q[i]
      /\ r[n + 1] = m
  OBVIOUS
<1> HIDE DEF r
<1>2. \A i \in 0..n : /\ Updating(r, b, i) <=> Updating(q, b, i)
                      /\ VersionAt(r, d, 0, i) = VersionAt(q, d, 0, i)
                      /\ Closing(r, b, i) <=> Closing(q, b, i)
  BY <1>1 DEF Updating, VersionAt, Closing
<1>3. /\ Updating(r, b, n + 1) <=> m.buf = b /\ m.kind \in Updates
      /\ VersionAt(r, d, 0, n + 1) = m.version
      /\ Closing(r, b, n + 1) <=> m.buf = b /\ m.kind = "didClose"
  BY <1>1 DEF Updating, VersionAt, Closing
<1>4. SUFFICES ASSUME NEW i \in 0..Len(r), Updating(r, b, i),
                      \A x \in i + 1..Len(r) : ~Updating(r, b, x)
               PROVE  /\ VersionAt(r, d, 0, i) = w
                      /\ \A x \in i + 1..Len(r) : ~Closing(r, b, x)
  BY DEF LastIs, r
<1>5. CASE m.buf = b /\ m.kind \in Updates /\ m.version = w
  <2>1. i = n + 1
    BY <1>1, <1>3, <1>4, <1>5
  <2>2. QED BY <2>1, <1>1, <1>3, <1>5
<1>6. CASE /\ LastIs(q, b, d, t) /\ w = t
           /\ m.buf # b \/ m.kind \notin Updates \cup {"didClose"}
  <2>1. ~Updating(r, b, n + 1) /\ ~Closing(r, b, n + 1)
    BY <1>3, <1>6
  <2>2. i \in 0..n
    BY <2>1, <1>1, <1>4
  <2>3. Updating(q, b, i) /\ \A x \in i + 1..n : ~Updating(q, b, x)
    BY <2>2, <1>1, <1>2, <1>4
  <2>4. VersionAt(q, d, 0, i) = w /\ \A x \in i + 1..n : ~Closing(q, b, x)
    BY <2>2, <2>3, <1>6 DEF LastIs
  <2>5. \A x \in i + 1..Len(r) : ~Closing(r, b, x)
    BY <2>1, <2>2, <2>4, <1>1, <1>2
  <2>6. QED BY <2>2, <2>4, <2>5, <1>2
<1>7. QED BY <1>5, <1>6

\* A message about an open buffer, or the didOpen that opens it.
LEMMA AppendKeepsOpen ==
  ASSUME NEW q \in Seq(Message), NEW m \in Message, NEW b \in Buffer,
         NEW doc, NEW v \in Nat, NEW u \in Nat, AllOpen(q, b, doc, v),
         \/ m.buf # b /\ u = v
         \/ m.buf = b /\ m.kind = "didOpen"
         \/ m.buf = b /\ v > 0 /\ (m.kind = "didClose" => u = 0)
  PROVE  AllOpen(Append(q, m), b, doc, u)
<1> DEFINE r == Append(q, m)
           n == Len(q)
<1>1. /\ n \in Nat /\ DOMAIN q = 1..n /\ Len(r) = n + 1 /\ DOMAIN r = 1..n + 1
      /\ \A i \in 1..n : r[i] = q[i]
      /\ r[n + 1] = m
  OBVIOUS
<1> HIDE DEF r
<1>2. /\ \A i \in 0..n : Closing(r, b, i) <=> Closing(q, b, i)
      /\ Closing(r, b, n + 1) <=> m.buf = b /\ m.kind = "didClose"
  BY <1>1 DEF Closing
<1>3. ASSUME NEW j \in 1..n + 1, OpenBefore(q, b, doc, j)
      PROVE  OpenBefore(r, b, doc, j)
  <2>1. PICK i \in 0..j - 1 :
           /\ IF i = 0 THEN doc # NoDoc ELSE q[i].buf = b /\ q[i].kind = "didOpen"
           /\ \A x \in i + 1..j - 1 : ~Closing(q, b, x)
    BY <1>3 DEF OpenBefore
  <2>2. IF i = 0 THEN doc # NoDoc ELSE r[i].buf = b /\ r[i].kind = "didOpen"
    BY <2>1, <1>1
  <2>3. \A x \in i + 1..j - 1 : ~Closing(r, b, x)
    BY <2>1, <1>2, <1>1
  <2>4. QED BY <2>2, <2>3 DEF OpenBefore
<1>4. ASSUME OpenBefore(r, b, doc, n + 1), ~Closing(r, b, n + 1)
      PROVE  OpenBefore(r, b, doc, n + 2)
  <2>1. PICK i \in 0..(n + 1) - 1 :
           /\ IF i = 0 THEN doc # NoDoc ELSE r[i].buf = b /\ r[i].kind = "didOpen"
           /\ \A x \in i + 1..(n + 1) - 1 : ~Closing(r, b, x)
    BY <1>4 DEF OpenBefore
  <2>2. i \in 0..(n + 2) - 1 /\ \A x \in i + 1..(n + 2) - 1 : ~Closing(r, b, x)
    BY <2>1, <1>4, <1>1
  <2>3. QED BY <2>1, <2>2 DEF OpenBefore
<1>5. SUFFICES ASSUME NEW j \in 1..Len(r) + 1,
                      IF j = Len(r) + 1 THEN u > 0 ELSE r[j].buf = b /\ r[j].kind # "didOpen"
               PROVE  OpenBefore(r, b, doc, j)
  BY DEF AllOpen, r
<1>6. v > 0 => OpenBefore(r, b, doc, n + 1)
  BY <1>1, <1>3 DEF AllOpen
<1>7. CASE j <= n
  <2>1. OpenBefore(q, b, doc, j)
    BY <1>1, <1>5, <1>7 DEF AllOpen
  <2>2. QED BY <2>1, <1>1, <1>3, <1>7
<1>8. CASE j = n + 1
  BY <1>1, <1>5, <1>6, <1>8
<1>9. CASE j = n + 2
  <2>1. u > 0
    BY <1>1, <1>5, <1>9
  <2>2. CASE m.buf = b /\ m.kind = "didOpen"
    <3>1. n + 1 \in 0..j - 1 /\ n + 1 # 0 /\ r[n + 1].buf = b /\ r[n + 1].kind = "didOpen"
      BY <2>2, <1>1, <1>9
    <3>2. \A x \in (n + 1) + 1..j - 1 : ~Closing(r, b, x)
      BY <1>1, <1>9
    <3>3. QED BY <3>1, <3>2 DEF OpenBefore
  <2>3. CASE ~(m.buf = b /\ m.kind = "didOpen")
    <3>1. v > 0 /\ ~Closing(r, b, n + 1)
      BY <2>1, <2>3, <1>2
    <3>2. QED BY <3>1, <1>4, <1>6, <1>9
  <2>4. QED BY <2>2, <2>3
<1>10. QED BY <1>1, <1>5, <1>7, <1>8, <1>9

LEMMA AtFacts ==
  ASSUME NEW q \in Seq(Message), NEW r \in Seq(Message), NEW k \in Nat, Dropped(q, k, r),
         NEW b \in Buffer
  PROVE  /\ Len(q) \in Nat /\ Len(r) \in Nat /\ Len(r) = Len(q) - 1 /\ k \in 1..Len(q)
         /\ \A i \in 0..Len(r) + 1 :
              /\ At(k, i) \in 0..Len(q) + 1 /\ At(k, i) # k
              /\ At(k, i) = 0 <=> i = 0
              /\ At(k, i) = Len(q) + 1 <=> i = Len(r) + 1
              /\ About(r, b, i) <=> About(q, b, At(k, i))
              /\ Closing(r, b, i) <=> Closing(q, b, At(k, i))
              /\ \A d, v : VersionAt(r, d, v, i) = VersionAt(q, d, v, At(k, i))
         /\ \A i \in 0..Len(r) : Updating(r, b, i) <=> Updating(q, b, At(k, i))
<1>1. /\ Len(q) \in Nat /\ Len(r) = Len(q) - 1 /\ k \in 1..Len(q)
      /\ DOMAIN q = 1..Len(q) /\ DOMAIN r = 1..Len(r) /\ Len(r) \in Nat
  BY DEF Dropped
<1>2. \A i \in 0..Len(r) + 1 :
        /\ At(k, i) \in 0..Len(q) + 1 /\ At(k, i) # k
        /\ At(k, i) = 0 <=> i = 0
        /\ At(k, i) = Len(q) + 1 <=> i = Len(r) + 1
        /\ At(k, i) \in 1..Len(q) <=> i \in 1..Len(r)
  BY <1>1 DEF At
<1>3. \A i \in 1..Len(r) : Like(r[i], q[At(k, i)])
  BY DEF Dropped
<1>4. \A i \in 0..Len(r) + 1 :
        /\ About(r, b, i) <=> About(q, b, At(k, i))
        /\ Closing(r, b, i) <=> Closing(q, b, At(k, i))
        /\ \A d, v : VersionAt(r, d, v, i) = VersionAt(q, d, v, At(k, i))
  <2> SUFFICES ASSUME NEW i \in 0..Len(r) + 1, NEW d, NEW v
               PROVE  /\ About(r, b, i) <=> About(q, b, At(k, i))
                      /\ Closing(r, b, i) <=> Closing(q, b, At(k, i))
                      /\ VersionAt(r, d, v, i) = VersionAt(q, d, v, At(k, i))
    OBVIOUS
  <2>1. i = 0 \/ i = Len(r) + 1 \/ i \in 1..Len(r)
    BY <1>1
  <2> QED BY <2>1, <1>1, <1>2, <1>3 DEF About, Closing, VersionAt, Like
<1>5. \A i \in 0..Len(r) : Updating(r, b, i) <=> Updating(q, b, At(k, i))
  <2> SUFFICES ASSUME NEW i \in 0..Len(r)
               PROVE  Updating(r, b, i) <=> Updating(q, b, At(k, i))
    OBVIOUS
  <2>1. i = 0 \/ i \in 1..Len(r)
    BY <1>1
  <2>2. CASE i = 0
    <3>1. At(k, i) = 0
      BY <2>2, <1>1, <1>2
    <3>2. QED BY <2>2, <3>1 DEF Updating
  <2>3. CASE i \in 1..Len(r)
    <3>1. i # 0 /\ i \in 0..Len(r) + 1
      BY <2>3, <1>1
    <3>2. At(k, i) # 0
      BY <3>1, <1>2
    <3>3. Like(r[i], q[At(k, i)])
      BY <2>3, <1>3
    <3>4. QED BY <3>1, <3>2, <3>3 DEF Updating, Like
  <2> QED BY <2>1, <2>2, <2>3
<1>6. QED BY <1>1, <1>2, <1>4, <1>5

\* A position of the longer queue, but for the k-th, is one of the shorter.
LEMMA AtOnto ==
  ASSUME NEW k \in Nat, NEW n \in Nat, k \in 1..n, NEW y \in 0..n + 1, y # k
  PROVE  \E x \in 0..n : x = (IF y < k THEN y ELSE y - 1) /\ At(k, x) = y
BY DEF At

\* What holds of no message of r in between holds of none of q, but the k-th.
LEMMA NoneBetween ==
  ASSUME NEW q \in Seq(Message), NEW r \in Seq(Message), NEW k \in Nat, Dropped(q, k, r),
         NEW b \in Buffer, NEW i \in 0..Len(r) + 1, NEW j \in 0..Len(r) + 1,
         \A x \in i..j - 1 : ~Closing(r, b, x)
  PROVE  \A y \in At(k, i)..At(k, j) - 1 : y # k => ~Closing(q, b, y)
<1>1. /\ Len(q) \in Nat /\ Len(r) \in Nat /\ Len(r) = Len(q) - 1 /\ k \in 1..Len(q)
      /\ \A x \in 0..Len(r) + 1 : /\ At(k, x) \in 0..Len(q) + 1
                                  /\ Closing(r, b, x) <=> Closing(q, b, At(k, x))
  BY AtFacts
<1> SUFFICES ASSUME NEW y \in At(k, i)..At(k, j) - 1, y # k
             PROVE  ~Closing(q, b, y)
  OBVIOUS
<1>2. y \in 0..Len(q) + 1
  BY <1>1
<1>3. PICK x \in 0..Len(q) : x = (IF y < k THEN y ELSE y - 1) /\ At(k, x) = y
  BY <1>1, <1>2, AtOnto
<1>4. x \in i..j - 1
  BY <1>1, <1>2, <1>3 DEF At
<1>5. ~Closing(r, b, x) /\ x \in 0..Len(r) + 1
  BY <1>1, <1>3, <1>4
<1>6. QED BY <1>1, <1>3, <1>5

\* The document's version after the first message about it was dispatched: none,
\* the message's or, if there was a document, the one before.
VersionAfter(m, d, e) ==
  IF m.kind = "didClose" THEN e = -1
  ELSE IF m.kind \in Updates THEN e = m.version
  ELSE IF d = -1 THEN e = m.version
  ELSE e = d

\* The document takes the message in, or the message leaves it alone.
Taken(q, b, k, d, e) ==
  \/ (q[k].buf # b \/ q[k].kind \notin Updates \cup {"didClose"}) /\ e = d
  \/ q[k].buf = b /\ FirstOf(q, b, k) /\ VersionAfter(q[k], d, e)

LEMMA DropKeepsGrows ==
  ASSUME NEW q \in Seq(Message), NEW r \in Seq(Message), NEW k \in Nat, Dropped(q, k, r),
         NEW b \in Buffer, NEW d \in Int, NEW e \in Int, NEW v \in Nat,
         Grows(q, b, d, v), Taken(q, b, k, d, e)
  PROVE  Grows(r, b, e, v)
<1> DEFINE n == Len(q)
<1>1. /\ n \in Nat /\ Len(r) \in Nat /\ Len(r) = n - 1 /\ k \in 1..n
      /\ \A x \in 0..Len(r) + 1 :
              /\ At(k, x) \in 0..n + 1 /\ At(k, x) # k
              /\ At(k, x) = 0 <=> x = 0
              /\ At(k, x) = n + 1 <=> x = Len(r) + 1
              /\ About(r, b, x) <=> About(q, b, At(k, x))
              /\ \A f, w : VersionAt(r, f, w, x) = VersionAt(q, f, w, At(k, x))
  BY AtFacts
<1>2. \A i \in 1..n : q[i] \in Message /\ q[i].version \in Nat
  BY MessageType
<1> HIDE DEF n
<1>3. SUFFICES ASSUME NEW i \in 0..Len(r), NEW j \in 1..Len(r) + 1,
                      i < j, About(r, b, i), About(r, b, j),
                      \A x \in i..j - 1 : ~Closing(r, b, x)
               PROVE  VersionAt(r, e, v, i) <= VersionAt(r, e, v, j)
  BY DEF Grows
<1> DEFINE x == At(k, i)
           y == At(k, j)
<1>4. /\ x \in 0..n /\ y \in 1..n + 1 /\ x # k /\ y # k /\ x < y
      /\ About(q, b, x) /\ About(q, b, y)
      /\ VersionAt(r, e, v, i) = VersionAt(q, e, v, x)
      /\ VersionAt(r, e, v, j) = VersionAt(q, e, v, y)
      /\ VersionAt(q, e, v, y) = VersionAt(q, d, v, y)
      /\ VersionAt(q, d, v, y) \in Nat
      /\ x # 0 => VersionAt(q, e, v, x) = VersionAt(q, d, v, x)
  <2>1. /\ x \in 0..n /\ y \in 1..n + 1 /\ x # k /\ y # k /\ x < y
        /\ About(q, b, x) /\ About(q, b, y)
    <3>1. i \in 0..Len(r) + 1 /\ j \in 0..Len(r) + 1
      BY <1>1
    <3>2. x \in 0..n + 1 /\ x # n + 1 /\ y \in 0..n + 1 /\ y # 0 /\ x # k /\ y # k
      BY <1>1, <3>1, <1>3
    <3>3. x < y
      BY <1>1, <1>3 DEF At
    <3>4. About(q, b, x) /\ About(q, b, y)
      BY <1>1, <1>3, <3>1
    <3> HIDE DEF x, y
    <3>5. QED BY <3>2, <3>3, <3>4, <1>1
  <2>2. /\ VersionAt(r, e, v, i) = VersionAt(q, e, v, x)
        /\ VersionAt(r, e, v, j) = VersionAt(q, e, v, y)
    BY <1>1
  <2>3. y \in 1..n + 1 => /\ VersionAt(q, e, v, y) = VersionAt(q, d, v, y)
                          /\ VersionAt(q, d, v, y) \in Nat
    <3>1. CASE y = n + 1
      BY <3>1, <1>1 DEF VersionAt, n
    <3>2. ASSUME NEW z \in 1..n
          PROVE  VersionAt(q, e, v, z) = VersionAt(q, d, v, z) /\ VersionAt(q, d, v, z) \in Nat
      <4>1. z # 0 /\ z # n + 1 /\ q[z].version \in Nat
        BY <1>1, <1>2
      <4>2. QED BY <4>1 DEF VersionAt, n
    <3>3. \A z \in 1..n + 1 : z = n + 1 \/ z \in 1..n
      BY <1>1
    <3> HIDE DEF y
    <3>4. QED BY <3>1, <3>2, <3>3
  <2>4. x # 0 => VersionAt(q, e, v, x) = VersionAt(q, d, v, x)
    BY DEF VersionAt
  <2>5. QED BY <2>1, <2>2, <2>3, <2>4
<1>5. \A z \in x..y - 1 : z # k => ~Closing(q, b, z)
  <2>1. i \in 0..Len(r) + 1 /\ j \in 0..Len(r) + 1
    BY <1>1
  <2>2. QED BY <2>1, <1>3, NoneBetween
<1>6. q[k].buf = b /\ FirstOf(q, b, k) => (x # 0 => x > k) /\ y > k
  <2>1. ASSUME FirstOf(q, b, k), NEW z \in 1..n, z # k, q[z].buf = b
        PROVE  z > k
    <3>1. ~(z \in 1..k - 1)
      BY <2>1 DEF FirstOf
    <3>2. QED BY <3>1, <2>1, <1>1
  <2>2. x # 0 => x \in 1..n /\ q[x].buf = b
    BY <1>4 DEF About, n
  <2> HIDE DEF x, y
  <2>3. y > k \/ (y \in 1..n /\ q[y].buf = b)
    <3>1. CASE y = n + 1
      BY <3>1, <1>1
    <3>2. CASE y # n + 1
      <4>1. y \in 1..n /\ y # 0 /\ About(q, b, y)
        BY <3>2, <1>1, <1>4
      <4>2. QED BY <3>2, <4>1 DEF About, n
    <3>3. QED BY <3>1, <3>2
  <2>4. QED BY <2>1, <2>2, <2>3, <1>4
<1> HIDE DEF x, y
<1>7. ASSUME ~Closing(q, b, k) \/ x > k
      PROVE  VersionAt(q, d, v, x) <= VersionAt(q, d, v, y)
  <2>1. \A z \in x..y - 1 : ~Closing(q, b, z)
    BY <1>1, <1>4, <1>5, <1>7
  <2>2. QED BY <2>1, <1>4 DEF Grows, n
<1>8. CASE (q[k].buf # b \/ q[k].kind \notin Updates \cup {"didClose"}) /\ e = d
  <2>1. ~Closing(q, b, k)
    BY <1>8 DEF Closing
  <2>2. QED BY <2>1, <1>4, <1>7, <1>8
<1>9. CASE q[k].buf = b /\ FirstOf(q, b, k) /\ VersionAfter(q[k], d, e)
  <2>1. CASE x # 0
    BY <2>1, <1>4, <1>6, <1>7, <1>9
  <2>2. CASE x = 0
    <3>1. VersionAt(q, e, v, x) = e /\ VersionAt(q, d, v, x) = d
      BY <2>2 DEF VersionAt
    <3>2. CASE e = -1
      BY <3>1, <3>2, <1>4
    <3>3. CASE q[k].kind # "didClose" /\ e = d
      <4>1. ~Closing(q, b, k)
        BY <3>3 DEF Closing
      <4>2. QED BY <4>1, <3>1, <3>3, <1>4, <1>7
    <3>4. CASE q[k].kind # "didClose" /\ e = q[k].version
      <4>1. \A z \in k..y - 1 : ~Closing(q, b, z)
        <5>1. ~Closing(q, b, k)
          BY <3>4 DEF Closing
        <5>2. \A z \in k..y - 1 : z \in x..y - 1
          BY <1>1, <1>4, <2>2
        <5>3. QED BY <5>1, <5>2, <1>5
      <4>2. About(q, b, k) /\ k < y
        BY <1>6, <1>9 DEF About
      <4>3. VersionAt(q, d, v, k) <= VersionAt(q, d, v, y)
        <5>1. k \in 0..Len(q) /\ y \in 1..Len(q) + 1
          BY <1>1, <1>4 DEF n
        <5>2. QED BY <5>1, <4>1, <4>2, <1>4 DEF Grows
      <4>4. VersionAt(q, d, v, k) = e
        BY <3>4, <1>1 DEF VersionAt, n
      <4>5. QED BY <4>3, <4>4, <3>1, <1>4
    <3>5. QED BY <1>9, <3>2, <3>3, <3>4 DEF VersionAfter
  <2>3. QED BY <2>1, <2>2
<1>10. QED BY <1>8, <1>9 DEF Taken

LEMMA DropKeepsLast ==
  ASSUME NEW q \in Seq(Message), NEW r \in Seq(Message), NEW k \in Nat, Dropped(q, k, r),
         NEW b \in Buffer, NEW d \in Int, NEW e \in Int, NEW t \in Nat,
         LastIs(q, b, d, t), t > 0, Taken(q, b, k, d, e)
  PROVE  LastIs(r, b, e, t)
<1> DEFINE n == Len(q)
<1>1. /\ n \in Nat /\ Len(r) \in Nat /\ Len(r) = n - 1 /\ k \in 1..n
      /\ \A x \in 0..Len(r) + 1 :
              /\ At(k, x) \in 0..n + 1 /\ At(k, x) # k
              /\ At(k, x) = 0 <=> x = 0
              /\ At(k, x) = n + 1 <=> x = Len(r) + 1
              /\ Closing(r, b, x) <=> Closing(q, b, At(k, x))
              /\ \A f, w : VersionAt(r, f, w, x) = VersionAt(q, f, w, At(k, x))
      /\ \A x \in 0..Len(r) : Updating(r, b, x) <=> Updating(q, b, At(k, x))
  BY AtFacts
<1>2. SUFFICES ASSUME NEW i \in 0..Len(r), Updating(r, b, i),
                      \A z \in i + 1..Len(r) : ~Updating(r, b, z)
               PROVE  /\ VersionAt(r, e, 0, i) = t
                      /\ \A z \in i + 1..Len(r) : ~Closing(r, b, z)
  BY DEF LastIs
<1> HIDE DEF n
<1> DEFINE x == At(k, i)
<1>3. /\ x \in 0..n /\ x # k /\ Updating(q, b, x)
      /\ x = 0 <=> i = 0
      /\ VersionAt(r, e, 0, i) = VersionAt(q, e, 0, x)
  <2>1. i \in 0..Len(r) + 1 /\ i # Len(r) + 1
    BY <1>1
  <2>2. x \in 0..n + 1 /\ x # n + 1
    BY <2>1, <1>1
  <2>3. QED BY <2>1, <2>2, <1>1, <1>2
<1>4. \A y \in x + 1..n : y # k => ~Updating(q, b, y)
  <2> SUFFICES ASSUME NEW y \in x + 1..n, y # k
               PROVE  ~Updating(q, b, y)
    OBVIOUS
  <2> HIDE DEF x
  <2>1. y \in 0..n + 1 /\ n \in Nat /\ k \in 1..n
    BY <1>1, <1>3
  <2>2. PICK z \in 0..n : z = (IF y < k THEN y ELSE y - 1) /\ At(k, z) = y
    BY <2>1, AtOnto
  <2>3. z \in i + 1..Len(r) /\ z \in 0..Len(r)
    BY <2>1, <2>2, <1>1 DEF At, x
  <2>4. QED BY <2>2, <2>3, <1>1, <1>2
<1>5. \A z \in i + 1..Len(r) : At(k, z) \in x + 1..n /\ z \in 0..Len(r) + 1
  BY <1>1 DEF At
<1>6. ASSUME Updating(q, b, k) => x > k
      PROVE  /\ VersionAt(q, d, 0, x) = t
             /\ \A y \in x + 1..n : ~Closing(q, b, y)
  <2>1. ASSUME NEW y \in x + 1..n PROVE ~Updating(q, b, y)
    <3>1. CASE y # k
      BY <3>1, <1>4
    <3>2. CASE y = k
      <4>1. ~(x > k)
        BY <3>2, <1>1, <1>3
      <4>2. QED BY <3>2, <4>1, <1>6
    <3>3. QED BY <3>1, <3>2
  <2>2. QED BY <2>1, <1>3 DEF LastIs, n
<1>7. ASSUME x # 0 PROVE VersionAt(q, e, 0, x) = VersionAt(q, d, 0, x)
  BY <1>7 DEF VersionAt
<1> HIDE DEF x
<1>8. ASSUME VersionAt(q, e, 0, x) = t, \A y \in x + 1..n : ~Closing(q, b, y)
      PROVE  /\ VersionAt(r, e, 0, i) = t
             /\ \A z \in i + 1..Len(r) : ~Closing(r, b, z)
  BY <1>1, <1>3, <1>5, <1>8
<1>9. CASE (q[k].buf # b \/ q[k].kind \notin Updates \cup {"didClose"}) /\ e = d
  <2>1. ~Updating(q, b, k)
    BY <1>1, <1>9 DEF Updating
  <2>2. QED BY <2>1, <1>6, <1>8, <1>9
<1>10. CASE q[k].buf = b /\ FirstOf(q, b, k) /\ VersionAfter(q[k], d, e)
  <2>1. ASSUME NEW y \in 1..n, y < k
        PROVE  ~Updating(q, b, y) /\ ~Closing(q, b, y)
    <3>1. q[y].buf # b /\ y # 0
      BY <2>1, <1>1, <1>10 DEF FirstOf
    <3>2. QED BY <3>1 DEF Updating, Closing
  <2>2. CASE x # 0
    <3>1. x > k
      BY <2>1, <2>2, <1>1, <1>3
    <3>2. QED BY <3>1, <1>6, <1>7, <1>8, <2>2
  <2>3. CASE x = 0 /\ q[k].kind \in Updates
    <3>1. Updating(q, b, k) /\ k \in 0..n
      BY <2>3, <1>1, <1>10 DEF Updating
    <3>2. \A y \in k + 1..n : ~Updating(q, b, y)
      BY <2>3, <1>1, <1>4
    <3>3. VersionAt(q, d, 0, k) = t /\ \A y \in k + 1..n : ~Closing(q, b, y)
      BY <3>1, <3>2 DEF LastIs, n
    <3>4. VersionAt(q, d, 0, k) = q[k].version
      BY <1>1 DEF VersionAt, n
    <3>5. e = q[k].version
      BY <1>10, <2>3 DEF VersionAfter, Updates
    <3>6. ~Closing(q, b, k)
      BY <2>3 DEF Closing, Updates
    <3>7. ASSUME NEW y \in x + 1..n PROVE ~Closing(q, b, y)
      <4>1. y \in 1..n /\ (y < k \/ y = k \/ y \in k + 1..n)
        BY <2>3, <1>1
      <4>2. QED BY <4>1, <3>3, <3>6, <2>1
    <3>8. VersionAt(q, e, 0, x) = t
      BY <3>3, <3>4, <3>5, <2>3 DEF VersionAt
    <3>9. QED BY <3>7, <3>8, <1>8
  <2>4. CASE x = 0 /\ q[k].kind \notin Updates
    <3>1. ~Updating(q, b, k)
      BY <2>4, <1>1 DEF Updating
    <3>2. VersionAt(q, d, 0, x) = t /\ \A y \in x + 1..n : ~Closing(q, b, y)
      BY <3>1, <1>6
    <3>3. d = t
      BY <3>2, <2>4 DEF VersionAt
    <3>4. q[k].kind # "didClose"
      <4>1. ~Closing(q, b, k)
        BY <3>2, <2>4, <1>1
      <4>2. QED BY <4>1, <1>1, <1>10 DEF Closing, n
    <3>5. e = d
      BY <3>3, <3>4, <2>4, <1>10 DEF VersionAfter
    <3>6. QED BY <3>2, <3>5, <1>8
  <2>5. QED BY <2>2, <2>3, <2>4
<1>11. QED BY <1>9, <1>10 DEF Taken

\* The document is open after the message, unless that closes it.
OpenAfter(q, b, k, doc, new) ==
  \/ (q[k].buf # b \/ q[k].kind \notin {"didOpen", "didClose"}) /\ new = doc
  \/ q[k].buf = b /\ FirstOf(q, b, k) /\ (new = NoDoc => q[k].kind = "didClose")

LEMMA DropKeepsOpen ==
  ASSUME NEW q \in Seq(Message), NEW r \in Seq(Message), NEW k \in Nat, Dropped(q, k, r),
         NEW b \in Buffer, NEW doc, NEW new, NEW v \in Nat,
         AllOpen(q, b, doc, v), OpenAfter(q, b, k, doc, new)
  PROVE  AllOpen(r, b, new, v)
<1> DEFINE n == Len(q)
<1>1. /\ n \in Nat /\ Len(r) \in Nat /\ Len(r) = n - 1 /\ k \in 1..n
      /\ \A x \in 0..Len(r) + 1 :
              /\ At(k, x) \in 0..n + 1 /\ At(k, x) # k
              /\ At(k, x) = 0 <=> x = 0
              /\ At(k, x) = n + 1 <=> x = Len(r) + 1
              /\ Closing(r, b, x) <=> Closing(q, b, At(k, x))
  BY AtFacts
<1>2. \A x \in 1..Len(r) : Like(r[x], q[At(k, x)])
  BY DEF Dropped
<1>3. DOMAIN q = 1..n
  OBVIOUS
<1>4. SUFFICES ASSUME NEW j \in 1..Len(r) + 1,
                      IF j = Len(r) + 1 THEN v > 0 ELSE r[j].buf = b /\ r[j].kind # "didOpen"
               PROVE  OpenBefore(r, b, new, j)
  BY DEF AllOpen
<1> HIDE DEF n
<1> DEFINE y == At(k, j)
<1>5. /\ y \in 1..n + 1 /\ y # k
      /\ IF y = n + 1 THEN v > 0 ELSE q[y].buf = b /\ q[y].kind # "didOpen"
  <2>1. j \in 0..Len(r) + 1 /\ j # 0
    BY <1>1
  <2>2. y \in 0..n + 1 /\ y # 0 /\ y # k /\ (y = n + 1 <=> j = Len(r) + 1)
    BY <2>1, <1>1
  <2>3. j # Len(r) + 1 => Like(r[j], q[y])
    BY <1>1, <1>2
  <2>4. QED BY <2>2, <2>3, <1>4 DEF Like
<1>6. OpenBefore(q, b, doc, y)
  BY <1>5 DEF AllOpen, n
<1>7. PICK i \in 0..y - 1 :
         /\ IF i = 0 THEN doc # NoDoc ELSE q[i].buf = b /\ q[i].kind = "didOpen"
         /\ \A x \in i + 1..y - 1 : ~Closing(q, b, x)
  BY <1>6 DEF OpenBefore
<1>8. \A x \in 1..j - 1 : At(k, x) \in 1..y - 1 /\ x \in 0..Len(r) + 1
  BY <1>1 DEF At
<1>9. ASSUME i # k, i # 0
      PROVE  OpenBefore(r, b, new, j)
  <2>1. i \in 0..n + 1
    BY <1>5, <1>1
  <2>2. PICK z \in 0..n : z = (IF i < k THEN i ELSE i - 1) /\ At(k, z) = i
    BY <1>1, <1>9, <2>1, AtOnto
  <2>3. z \in 0..j - 1 /\ z # 0 /\ z \in 1..Len(r)
    BY <2>1, <2>2, <1>1, <1>9 DEF At
  <2>4. r[z].buf = b /\ r[z].kind = "didOpen"
    BY <2>2, <2>3, <1>2, <1>7, <1>9 DEF Like
  <2>5. \A x \in z + 1..j - 1 : At(k, x) \in i + 1..y - 1 /\ x \in 0..Len(r) + 1
    BY <2>2, <2>3, <1>1 DEF At
  <2>6. \A x \in z + 1..j - 1 : ~Closing(r, b, x)
    BY <2>5, <1>1, <1>7
  <2>7. QED BY <2>3, <2>4, <2>6 DEF OpenBefore
<1>10. ASSUME new # NoDoc, \A x \in 1..y - 1 : x # k => ~Closing(q, b, x)
       PROVE  OpenBefore(r, b, new, j)
  <2>1. \A x \in 1..j - 1 : ~Closing(r, b, x)
    BY <1>1, <1>8, <1>10
  <2>2. 0 \in 0..j - 1
    BY <1>1
  <2>3. QED BY <2>1, <2>2, <1>10 DEF OpenBefore
<1> HIDE DEF y
<1>11. CASE (q[k].buf # b \/ q[k].kind \notin {"didOpen", "didClose"}) /\ new = doc
  <2>1. CASE i = 0
    BY <2>1, <1>7, <1>10, <1>11
  <2>2. CASE i # 0
    BY <2>2, <1>7, <1>9, <1>11
  <2>3. QED BY <2>1, <2>2
<1>12. CASE q[k].buf = b /\ FirstOf(q, b, k) /\ (new = NoDoc => q[k].kind = "didClose")
  <2>1. ASSUME NEW x \in 1..n + 1, x < k
        PROVE  q[x].buf # b /\ ~Closing(q, b, x)
    <3>1. x \in 1..k - 1
      BY <2>1, <1>1
    <3>2. q[x].buf # b
      BY <3>1, <1>12 DEF FirstOf
    <3>3. QED BY <3>2 DEF Closing
  <2>2. y > k
    <3>1. CASE y = n + 1
      BY <3>1, <1>1
    <3>2. CASE y # n + 1
      <4>1. q[y].buf = b
        BY <3>2, <1>5
      <4>2. ~ y < k
        BY <4>1, <2>1, <1>5
      <4>3. QED BY <4>2, <1>1, <1>5
    <3>3. QED BY <3>1, <3>2
  <2>3. CASE i > k
    BY <2>3, <1>1, <1>9
  <2>4. CASE i <= k
    <3>1. i = 0 \/ i = k
      <4>1. i \in 0..n
        BY <1>1, <1>5
      <4>2. ASSUME i # 0, i < k PROVE FALSE
        <5>1. i \in 1..n + 1 /\ q[i].buf = b
          BY <4>1, <4>2, <1>1, <1>7
        <5>2. QED BY <5>1, <4>2, <2>1
      <4>3. QED BY <4>1, <4>2, <2>4, <1>1
    <3>2. q[k].kind # "didClose"
      <4>1. CASE i = 0
        <5>1. ~Closing(q, b, k)
          BY <4>1, <2>2, <1>1, <1>5, <1>7
        <5>2. QED BY <5>1, <1>1, <1>3, <1>12 DEF Closing
      <4>2. CASE i = k
        BY <4>2, <1>1, <1>7
      <4>3. QED BY <3>1, <4>1, <4>2
    <3>3. \A x \in 1..y - 1 : x # k => ~Closing(q, b, x)
      BY <2>1, <3>1, <1>1, <1>5, <1>7
    <3>4. QED BY <3>2, <3>3, <1>10, <1>12
  <2>5. QED BY <2>3, <2>4, <1>1, <1>5
<1>13. QED BY <1>11, <1>12 DEF OpenAfter

-----------------------------------------------------------------------------
(***************************************************************************)
(* The inductive invariant.                                                *)
(***************************************************************************)

\* A server has a route once it was started, and waits in one batch at most.
RoutesInv ==
  /\ \A a \in Server : status[a] # "absent" => routes[a] # NoServer
  /\ \A c \in batches : \A s \in c : status[s] = "initializing"
  /\ \A c, d \in batches : c # d => c \cap d = {}

AllRouted(b) == \A n \in NamesOf[b] : routes[<<n, RootOf[b]>>] # NoServer

\* The servers of a buffer have its document, and no other server has.
Mirrored ==
  \A b \in Buffer :
    /\ docs[b] # NoDoc => AllRouted(b)
    /\ \A s \in Server : view[s][b] = IF s \in ServersOf(b) THEN docs[b] ELSE NoDoc

Queued(m) == m.servers = ServersOf(m.buf) /\ AllRouted(m.buf)

Unready(b) == \E s \in ServersOf(b) : status[s] # "ready"

\* A message is parked because a server is not ready, and is one about the
\* future only if all are: the two queues are about different buffers.
QueuesInv ==
  /\ \A i \in DOMAIN pending : Queued(pending[i])
  /\ \A i \in DOMAIN future :
       Queued(future[i]) /\ future[i].kind = "request" /\ future[i].version >= 1
  /\ \A i \in DOMAIN pipe : pipe[i].version >= 1
  /\ turn # "pending" => \A i \in DOMAIN pending : Unready(pending[i].buf)
  /\ \A i \in DOMAIN future :
       ~Unready(future[i].buf) /\ \A j \in DOMAIN pending : pending[j].buf # future[i].buf

\* Nothing was ever dispatched or queued for a buffer whose messages are dropped.
BlockedInv ==
  \A b \in blocked :
    /\ docs[b] = NoDoc
    /\ \A i \in DOMAIN pending : pending[i].buf # b
    /\ \A i \in DOMAIN future : future[i].buf # b

\* The queue is right for the versions ver and updates upd of the buffers.
InOrder(q, ver, upd) ==
  \A b \in Buffer \ blocked :
    /\ Grows(q, b, docs[b].version, ver[b])
    /\ upd[b] > 0 => LastIs(q, b, docs[b].version, upd[b])
    /\ restarts = 0 => AllOpen(q, b, docs[b], ver[b])

TextsInv == \A b \in Buffer \ blocked : restarts = 0 => docs[b].text = docs[b].version

\* No request that is due is left behind, but when the editor has told of a newer
\* text than that meanwhile.
DueInv ==
  turn # "future" =>
    \A i \in DOMAIN future :
      LET m == future[i] IN Due(m, docs) => told[m.buf] < m.version \/ OnItsWay(m.buf)

Inv ==
  /\ TypeOK /\ DidOpenFirst
  /\ RoutesInv /\ Mirrored
  /\ QueuesInv /\ BlockedInv
  /\ InOrder(Queue, version, told) /\ TextsInv
  /\ DueInv

-----------------------------------------------------------------------------
(***************************************************************************)
(* The editor's steps.                                                     *)
(***************************************************************************)

LEMMA DocVersion ==
  ASSUME TypeOK, NEW b \in Buffer
  PROVE  /\ docs[b].version \in Int /\ docs[b] \in Doc \cup {NoDoc}
         /\ docs[b] = NoDoc <=> docs[b].version = -1
         /\ docs[b] # NoDoc => docs[b].version \in Nat
BY DEF TypeOK, Doc, NoDoc

LEMMA QueueType ==
  ASSUME TypeOK
  PROVE  /\ Queue \in Seq(Message)
         /\ Len(Queue) = Len(pending) + Len(pipe)
         /\ \A i \in 1..Len(pending) : Queue[i] = pending[i]
         /\ \A i \in 1..Len(pipe) : Queue[Len(pending) + i] = pipe[i]
BY DEF TypeOK, Queue

\* A message that the editor appends, its versions and updates before and after.
Sent(m, ver, upd, verNew, updNew) ==
  /\ \A b \in Buffer : b # m.buf => verNew[b] = ver[b] /\ updNew[b] = upd[b]
  /\ ver[m.buf] <= m.version
  /\ m.kind = "didClose" \/ m.version <= verNew[m.buf]
  /\ \/ updNew[m.buf] = 0
     \/ m.kind \in Updates /\ m.version = updNew[m.buf]
     \/ m.kind \notin Updates \cup {"didClose"} /\ updNew[m.buf] = upd[m.buf]
  /\ \/ m.kind = "didOpen"
     \/ ver[m.buf] > 0 /\ (m.kind = "didClose" => verNew[m.buf] = 0)

LEMMA InOrderAppend ==
  ASSUME TypeOK, NEW q \in Seq(Message), NEW m \in Message,
         NEW ver \in [Buffer -> Nat], NEW upd \in [Buffer -> Nat],
         NEW verNew \in [Buffer -> Nat], NEW updNew \in [Buffer -> Nat],
         InOrder(q, ver, upd), Sent(m, ver, upd, verNew, updNew)
  PROVE  InOrder(Append(q, m), verNew, updNew)
<1>1. m.version \in Nat /\ m.buf \in Buffer
  BY MessageType
<1> SUFFICES ASSUME NEW b \in Buffer \ blocked
             PROVE  /\ Grows(Append(q, m), b, docs[b].version, verNew[b])
                    /\ updNew[b] > 0 => LastIs(Append(q, m), b, docs[b].version, updNew[b])
                    /\ restarts = 0 => AllOpen(Append(q, m), b, docs[b], verNew[b])
  BY DEF InOrder
<1>2. /\ b \in Buffer /\ docs[b].version \in Int
      /\ ver[b] \in Nat /\ upd[b] \in Nat /\ verNew[b] \in Nat /\ updNew[b] \in Nat
  BY DocVersion
<1>3. /\ Grows(q, b, docs[b].version, ver[b])
      /\ upd[b] > 0 => LastIs(q, b, docs[b].version, upd[b])
      /\ restarts = 0 => AllOpen(q, b, docs[b], ver[b])
  BY DEF InOrder
<1>4. \/ m.buf # b /\ verNew[b] = ver[b] /\ updNew[b] = upd[b]
      \/ m.buf = b
  BY <1>2 DEF Sent
<1>5. Grows(Append(q, m), b, docs[b].version, verNew[b])
  BY <1>2, <1>3, <1>4, AppendKeepsGrows DEF Sent
<1>6. ASSUME updNew[b] > 0 PROVE LastIs(Append(q, m), b, docs[b].version, updNew[b])
  <2>1. CASE m.buf = b /\ m.kind \in Updates /\ m.version = updNew[b]
    BY <2>1, <1>2, AppendKeepsLast
  <2>2. CASE ~(m.buf = b /\ m.kind \in Updates /\ m.version = updNew[b])
    <3>1. upd[b] = updNew[b] /\ (m.buf # b \/ m.kind \notin Updates \cup {"didClose"})
      BY <2>2, <1>2, <1>4, <1>6 DEF Sent
    <3>2. LastIs(q, b, docs[b].version, updNew[b])
      BY <3>1, <1>3, <1>6
    <3>3. QED BY <3>1, <3>2, <1>2, AppendKeepsLast
  <2>3. QED BY <2>1, <2>2
<1>7. ASSUME restarts = 0 PROVE AllOpen(Append(q, m), b, docs[b], verNew[b])
  BY <1>2, <1>3, <1>4, <1>7, AppendKeepsOpen DEF Sent
<1>8. QED BY <1>5, <1>6, <1>7

\* What the editor does, as far as kak-lsp is concerned.
LEMMA EditorKeepsInv ==
  ASSUME Inv, KakLspUnchanged, NEW ms \in Seq(Message), pipe' = pipe \o ms,
         version' \in [Buffer -> Nat], saved' \in [Buffer -> Nat], told' \in [Buffer -> Nat],
         synced' \in [Buffer -> Nat \cup {-1}], sends' \in Nat,
         \A i \in DOMAIN ms : ms[i].version >= 1,
         InOrder(Queue \o ms, version', told'),
         \A b \in Buffer : told'[b] = told[b] \/ told'[b] = 0 \/ UpdateIn(b, ms)
  PROVE  Inv'
<1> USE DEF KakLspUnchanged, routing, queues, texts
<1>1. /\ pipe' \in Seq(Message)
      /\ \A i \in DOMAIN pipe' : \/ i \in DOMAIN pipe /\ pipe'[i] = pipe[i]
                                 \/ i - Len(pipe) \in DOMAIN ms /\ pipe'[i] = ms[i - Len(pipe)]
      /\ \A i \in DOMAIN pipe : i \in DOMAIN pipe' /\ pipe'[i] = pipe[i]
      /\ \A i \in DOMAIN ms : i + Len(pipe) \in DOMAIN pipe' /\ pipe'[i + Len(pipe)] = ms[i]
  <2>1. PICK p \in Seq(Message) : p = pipe
    BY DEF Inv, TypeOK
  <2>2. PICK r \in Seq(Message) : r = p \o ms
    BY ConcatProperties
  <2>3. /\ Len(r) = Len(p) + Len(ms)
        /\ \A i \in 1..Len(p) + Len(ms) : r[i] = IF i <= Len(p) THEN p[i] ELSE ms[i - Len(p)]
    BY <2>2, ConcatProperties
  <2>4. /\ Len(p) \in Nat /\ Len(ms) \in Nat
        /\ DOMAIN p = 1..Len(p) /\ DOMAIN ms = 1..Len(ms) /\ DOMAIN r = 1..Len(r)
    OBVIOUS
  <2>5. ASSUME NEW i \in DOMAIN r
        PROVE  \/ i \in DOMAIN p /\ r[i] = p[i]
               \/ i - Len(p) \in DOMAIN ms /\ r[i] = ms[i - Len(p)]
    <3>1. i \in 1..Len(p) + Len(ms)
      BY <2>3, <2>4
    <3>2. r[i] = IF i <= Len(p) THEN p[i] ELSE ms[i - Len(p)]
      BY <3>1, <2>3
    <3>3. CASE i <= Len(p)
      BY <3>1, <3>2, <3>3, <2>4
    <3>4. CASE ~(i <= Len(p))
      <4>1. i - Len(p) \in DOMAIN ms
        BY <3>1, <3>4, <2>4
      <4>2. QED BY <4>1, <3>2, <3>4
    <3>5. QED BY <3>3, <3>4
  <2>6. \A i \in DOMAIN p : i \in DOMAIN r /\ r[i] = p[i]
    BY <2>3, <2>4
  <2>7. ASSUME NEW i \in DOMAIN ms
        PROVE  i + Len(p) \in DOMAIN r /\ r[i + Len(p)] = ms[i]
    <3>1. i + Len(p) \in 1..Len(p) + Len(ms) /\ ~ i + Len(p) <= Len(p) /\ i + Len(p) - Len(p) = i
      BY <2>4
    <3>2. QED BY <3>1, <2>3, <2>4
  <2>8. r = pipe'
    BY <2>1, <2>2
  <2>9. QED BY <2>1, <2>5, <2>6, <2>7, <2>8
<1>2. TypeOK'
  BY <1>1 DEF Inv, TypeOK, Due
<1>3. DidOpenFirst' /\ RoutesInv' /\ Mirrored' /\ BlockedInv' /\ TextsInv'
  <2>1. DidOpenFirst' /\ RoutesInv'
    BY DEF Inv, DidOpenFirst, RoutesInv
  <2>2. Mirrored'
    <3>1. \A b : AllRouted(b)' <=> AllRouted(b)
      BY DEF AllRouted
    <3>2. \A b : ServersOf(b)' = ServersOf(b)
      BY DEF ServersOf
    <3>3. QED BY <3>1, <3>2 DEF Inv, Mirrored
  <2>3. BlockedInv' /\ TextsInv'
    BY DEF Inv, BlockedInv, TextsInv
  <2>4. QED BY <2>1, <2>2, <2>3
<1>4. QueuesInv'
  <2>1. \A i \in DOMAIN pipe' : pipe'[i].version >= 1
    BY <1>1 DEF Inv, QueuesInv
  <2>2. \A m : Queued(m)' <=> Queued(m)
    BY DEF Queued, AllRouted, ServersOf
  <2>3. \A b : Unready(b)' <=> Unready(b)
    BY DEF Unready, ServersOf
  <2>4. QED BY <2>1, <2>2, <2>3 DEF Inv, QueuesInv
<1>5. InOrder(Queue, version, told)'
  <2>1. Queue' = Queue \o ms
    <3>1. pending \in Seq(Message) /\ pipe \in Seq(Message)
      BY DEF Inv, TypeOK
    <3>2. QED BY <3>1 DEF Queue
  <2>2. QED BY <2>1 DEF InOrder
<1>6. DueInv'
  <2> SUFFICES ASSUME turn # "future", NEW i \in DOMAIN future, Due(future[i], docs)
               PROVE  told'[future[i].buf] < future[i].version \/ OnItsWay(future[i].buf)'
    BY DEF DueInv, Due
  <2> DEFINE b == future[i].buf
  <2>1. b \in Buffer /\ future[i].version \in Nat /\ future[i].version >= 1
    BY MessageType DEF Inv, TypeOK, QueuesInv
  <2>2. UpdateIn(b, pipe) \/ UpdateIn(b, ms) => UpdateIn(b, pipe')
    <3>1. ASSUME UpdateIn(b, pipe) PROVE UpdateIn(b, pipe')
      BY <3>1, <1>1 DEF UpdateIn
    <3>2. ASSUME UpdateIn(b, ms) PROVE UpdateIn(b, pipe')
      <4>1. PICK j \in DOMAIN ms : ms[j].buf = b /\ ms[j].kind \in Updates
        BY <3>2 DEF UpdateIn
      <4>2. j + Len(pipe) \in DOMAIN pipe' /\ pipe'[j + Len(pipe)] = ms[j]
        BY <1>1
      <4> HIDE DEF b
      <4>3. QED BY <4>1, <4>2 DEF UpdateIn
    <3>3. QED BY <3>1, <3>2
  <2>3. told[b] < future[i].version \/ OnItsWay(b)
    BY DEF Inv, DueInv
  <2>4. OnItsWay(b)' <=> UpdateIn(b, pipe') \/ UpdateIn(b, pending)
    BY DEF OnItsWay, UpdateIn
  <2>5. told'[b] = told[b] \/ told'[b] = 0 \/ UpdateIn(b, ms)
    BY <2>1
  <2>6. OnItsWay(b) => OnItsWay(b)'
    BY <2>2, <2>4 DEF OnItsWay
  <2> HIDE DEF b
  <2>7. CASE told'[b] = 0
    <3>1. told'[b] < future[i].version
      BY <2>1, <2>7
    <3>2. QED BY <3>1 DEF b
  <2>8. QED BY <2>2, <2>3, <2>4, <2>5, <2>6, <2>7 DEF b
<1>7. QED BY <1>2, <1>3, <1>4, <1>5, <1>6 DEF Inv

LEMMA MsgType ==
  ASSUME NEW b \in Buffer, NEW v \in Nat, NEW kind \in Notifications \cup Requests
  PROVE  /\ Msg(kind, b, v) \in Message
         /\ Msg(kind, b, v).kind = kind /\ Msg(kind, b, v).buf = b /\ Msg(kind, b, v).version = v
BY DEF Msg, Message

LEMMA SendOne ==
  ASSUME Inv, NEW m \in Message, Send(<<m>>), KakLspUnchanged, m.version >= 1,
         version' \in [Buffer -> Nat], saved' \in [Buffer -> Nat], told' \in [Buffer -> Nat],
         synced' \in [Buffer -> Nat \cup {-1}],
         Sent(m, version, told, version', told')
  PROVE  Inv'
<1>1. /\ pipe' = pipe \o <<m>> /\ <<m>> \in Seq(Message)
      /\ DOMAIN <<m>> = {1} /\ <<m>>[1] = m
  BY DEF Send
<1>2. sends' \in Nat
  BY <1>1 DEF Send, Inv, TypeOK
<1>3. TypeOK /\ InOrder(Queue, version, told) /\ Queue \in Seq(Message)
      /\ version \in [Buffer -> Nat] /\ told \in [Buffer -> Nat]
  BY QueueType DEF Inv, TypeOK
<1>4. m.buf \in Buffer
  BY MessageType
<1>5. InOrder(Append(Queue, m), version', told')
  BY <1>3, <1>4, InOrderAppend
<1>6. Append(Queue, m) = Queue \o <<m>>
  BY <1>3
<1>7. \A b \in Buffer : told'[b] = told[b] \/ told'[b] = 0 \/ UpdateIn(b, <<m>>)
  BY <1>1 DEF Sent, UpdateIn
<1>8. QED BY <1>1, <1>2, <1>5, <1>6, <1>7, EditorKeepsInv

LEMMA OpenKeepsInv ==
  ASSUME Inv, NEW b \in Buffer, Open(b)
  PROVE  Inv'
<1> DEFINE m == Msg("didOpen", b, 1)
<1>1. m \in Message /\ m.kind = "didOpen" /\ m.buf = b /\ m.version = 1
  BY MsgType DEF Notifications, Updates
<1> HIDE DEF m
<1>2. /\ version \in [Buffer -> Nat] /\ saved \in [Buffer -> Nat] /\ told \in [Buffer -> Nat]
      /\ synced \in [Buffer -> Nat \cup {-1}]
  BY DEF Inv, TypeOK
<1>3. /\ version[b] = 0 /\ version' = [version EXCEPT ![b] = 1]
      /\ saved' = [saved EXCEPT ![b] = 1] /\ told' = [told EXCEPT ![b] = 1]
      /\ Send(<<m>>) /\ synced' = synced /\ KakLspUnchanged
  BY DEF Open, m
<1>4. QED BY <1>1, <1>2, <1>3, SendOne DEF Sent, Updates

LEMMA UpdateKeepsInv ==
  ASSUME Inv, NEW b \in Buffer, Update(b)
  PROVE  Inv'
<1> DEFINE m == Msg("didChange", b, version[b])
<1>1. /\ version \in [Buffer -> Nat] /\ saved \in [Buffer -> Nat] /\ told \in [Buffer -> Nat]
      /\ synced \in [Buffer -> Nat \cup {-1}]
  BY DEF Inv, TypeOK
<1>2. m \in Message /\ m.kind = "didChange" /\ m.buf = b /\ m.version = version[b]
  BY <1>1, MsgType DEF Notifications, Updates
<1> HIDE DEF m
<1>3. /\ version[b] > 0 /\ version' = version /\ saved' = saved
      /\ told' = [told EXCEPT ![b] = version[b]] /\ synced' = [synced EXCEPT ![b] = version[b]]
      /\ Send(<<m>>) /\ KakLspUnchanged
  BY DEF Update, m
<1>4. QED BY <1>1, <1>2, <1>3, SendOne DEF Sent, Updates

LEMMA AskKeepsInv ==
  ASSUME Inv, NEW b \in Buffer, NEW kind \in Asked, Ask(b, kind)
  PROVE  Inv'
<1> DEFINE m == Msg(kind, b, version[b])
<1>1. /\ version \in [Buffer -> Nat] /\ saved \in [Buffer -> Nat] /\ told \in [Buffer -> Nat]
      /\ synced \in [Buffer -> Nat \cup {-1}]
  BY DEF Inv, TypeOK
<1>2. kind \in {"request", "resolve"}
  BY SessionAssumption
<1>3. m \in Message /\ m.kind = kind /\ m.buf = b /\ m.version = version[b]
  BY <1>1, <1>2, MsgType DEF Requests
<1> HIDE DEF m
<1>4. /\ version[b] > 0 /\ UNCHANGED <<version, synced, saved, told>>
      /\ Send(<<m>>) /\ KakLspUnchanged
  BY DEF Ask, m
<1>5. QED BY <1>1, <1>2, <1>3, <1>4, SendOne DEF Sent, Updates

LEMMA SaveKeepsInv ==
  ASSUME Inv, NEW b \in Buffer, Save(b)
  PROVE  Inv'
<1> DEFINE m == Msg("didSave", b, version[b])
<1>1. /\ version \in [Buffer -> Nat] /\ saved \in [Buffer -> Nat] /\ told \in [Buffer -> Nat]
      /\ synced \in [Buffer -> Nat \cup {-1}]
  BY DEF Inv, TypeOK
<1>2. m \in Message /\ m.kind = "didSave" /\ m.buf = b /\ m.version = version[b]
  BY <1>1, MsgType DEF Notifications
<1> HIDE DEF m
<1>3. /\ version[b] > 0 /\ UNCHANGED <<version, synced, told>>
      /\ saved' = [saved EXCEPT ![b] = version[b]]
      /\ Send(<<m>>) /\ KakLspUnchanged
  BY DEF Save, m
<1>4. QED BY <1>1, <1>2, <1>3, SendOne DEF Sent, Updates

LEMMA CloseKeepsInv ==
  ASSUME Inv, NEW b \in Buffer, Close(b)
  PROVE  Inv'
<1> DEFINE m == Msg("didClose", b, version[b])
<1>1. /\ version \in [Buffer -> Nat] /\ saved \in [Buffer -> Nat] /\ told \in [Buffer -> Nat]
      /\ synced \in [Buffer -> Nat \cup {-1}]
  BY DEF Inv, TypeOK
<1>2. m \in Message /\ m.kind = "didClose" /\ m.buf = b /\ m.version = version[b]
  BY <1>1, MsgType DEF Notifications
<1> HIDE DEF m
<1>3. /\ version[b] > 0 /\ version' = [version EXCEPT ![b] = 0]
      /\ synced' = [synced EXCEPT ![b] = -1] /\ told' = [told EXCEPT ![b] = 0]
      /\ saved' = saved
      /\ Send(<<m>>) /\ KakLspUnchanged
  BY DEF Close, m
<1>4. /\ version' \in [Buffer -> Nat] /\ told' \in [Buffer -> Nat] /\ saved' \in [Buffer -> Nat]
      /\ synced' \in [Buffer -> Nat \cup {-1}]
      /\ version'[b] = 0 /\ told'[b] = 0
      /\ \A a \in Buffer : a # b => version'[a] = version[a] /\ told'[a] = told[a]
      /\ version[b] \in Nat /\ version[b] >= 1
  BY <1>1, <1>3
<1>5. QED BY <1>2, <1>3, <1>4, SendOne DEF Sent

LEMMA EditKeepsInv ==
  ASSUME Inv, NEW b \in Buffer, Edit(b)
  PROVE  Inv'
<1>1. /\ version \in [Buffer -> Nat] /\ saved \in [Buffer -> Nat] /\ told \in [Buffer -> Nat]
      /\ synced \in [Buffer -> Nat \cup {-1}] /\ sends \in Nat
      /\ pipe \in Seq(Message)
  BY DEF Inv, TypeOK
<1>2. /\ version[b] > 0 /\ version' = [version EXCEPT ![b] = @ + 1]
      /\ UNCHANGED <<synced, saved, told, sends, pipe>> /\ KakLspUnchanged
  BY SessionAssumption, <1>1 DEF Edit
<1>3. <<>> \in Seq(Message) /\ DOMAIN <<>> = {} /\ pipe' = pipe \o <<>>
      /\ Queue \o <<>> = Queue /\ Queue \in Seq(Message) /\ Len(Queue) \in Nat
  BY <1>1, <1>2, QueueType DEF Inv
<1>4. \A a \in Buffer : /\ version[a] \in Nat /\ version'[a] \in Nat /\ version[a] <= version'[a]
                        /\ version'[a] > 0 => version[a] > 0
  BY <1>1, <1>2
<1>5. InOrder(Queue, version', told')
  <2> SUFFICES ASSUME NEW a \in Buffer \ blocked
               PROVE  /\ Grows(Queue, a, docs[a].version, version'[a])
                      /\ told[a] > 0 => LastIs(Queue, a, docs[a].version, told[a])
                      /\ restarts = 0 => AllOpen(Queue, a, docs[a], version'[a])
    BY <1>2 DEF InOrder
  <2>1. /\ Grows(Queue, a, docs[a].version, version[a])
        /\ told[a] > 0 => LastIs(Queue, a, docs[a].version, told[a])
        /\ restarts = 0 => AllOpen(Queue, a, docs[a], version[a])
    BY DEF Inv, InOrder
  <2>2. Grows(Queue, a, docs[a].version, version'[a])
    <3>1. /\ docs[a].version \in Int
          /\ \A i \in 1..Len(Queue) : Queue[i].version \in Int
      BY <1>3, DocVersion, MessageType DEF Inv
    <3>2. \A i \in 0..Len(Queue) : VersionAt(Queue, docs[a].version, version'[a], i)
                                     = VersionAt(Queue, docs[a].version, version[a], i)
      BY <1>3 DEF VersionAt
    <3>3. \A i \in 0..Len(Queue) : VersionAt(Queue, docs[a].version, version[a], i) \in Int
      BY <3>1, <1>3 DEF VersionAt
    <3>4. /\ VersionAt(Queue, docs[a].version, version[a], Len(Queue) + 1) = version[a]
          /\ VersionAt(Queue, docs[a].version, version'[a], Len(Queue) + 1) = version'[a]
      BY <1>3 DEF VersionAt
    <3>5. version[a] \in Nat /\ version'[a] \in Nat /\ version[a] <= version'[a]
      BY <1>4
    <3> SUFFICES ASSUME NEW i \in 0..Len(Queue), NEW j \in 1..Len(Queue) + 1, i < j,
                        About(Queue, a, i), About(Queue, a, j),
                        \A x \in i..j - 1 : ~Closing(Queue, a, x)
                 PROVE  VersionAt(Queue, docs[a].version, version'[a], i)
                          <= VersionAt(Queue, docs[a].version, version'[a], j)
      BY DEF Grows
    <3>6. VersionAt(Queue, docs[a].version, version[a], i)
            <= VersionAt(Queue, docs[a].version, version[a], j)
      BY <2>1 DEF Grows
    <3>7. j \in 0..Len(Queue) \/ j = Len(Queue) + 1
      BY <1>3
    <3>8. QED BY <3>2, <3>3, <3>4, <3>5, <3>6, <3>7
  <2>3. restarts = 0 => AllOpen(Queue, a, docs[a], version'[a])
    BY <2>1, <1>4 DEF AllOpen
  <2>4. QED BY <2>1, <2>2, <2>3
<1>6. InOrder(Queue \o <<>>, version', told')
  BY <1>3, <1>5
<1>7. /\ version' \in [Buffer -> Nat] /\ saved' \in [Buffer -> Nat] /\ told' \in [Buffer -> Nat]
      /\ synced' \in [Buffer -> Nat \cup {-1}] /\ sends' \in Nat
  BY <1>1, <1>2
<1>8. \A i \in DOMAIN <<>> : <<>>[i].version >= 1
  BY <1>3
<1>9. \A a \in Buffer : told'[a] = told[a] \/ told'[a] = 0 \/ UpdateIn(a, <<>>)
  BY <1>2
<1>10. QED BY <1>2, <1>3, <1>6, <1>7, <1>8, <1>9, EditorKeepsInv

LEMMA AskSyncKeepsInv ==
  ASSUME Inv, NEW b \in Buffer, AskSync(b)
  PROVE  Inv'
<1> DEFINE m == Msg("didChange", b, version[b])
           n == Msg("sync", b, version[b])
<1>1. /\ version \in [Buffer -> Nat] /\ saved \in [Buffer -> Nat] /\ told \in [Buffer -> Nat]
      /\ synced \in [Buffer -> Nat \cup {-1}] /\ sends \in Nat
  BY DEF Inv, TypeOK
<1>2. /\ m \in Message /\ m.kind = "didChange" /\ m.buf = b /\ m.version = version[b]
      /\ n \in Message /\ n.kind = "sync" /\ n.buf = b /\ n.version = version[b]
  BY <1>1, MsgType DEF Notifications, Requests, Updates
<1>3. version[b] > 0 /\ version' = version /\ saved' = saved /\ KakLspUnchanged
  BY DEF AskSync
<1>4. CASE synced[b] # version[b]
  <2>1. /\ Send(<<m, n>>) /\ synced' = [synced EXCEPT ![b] = version[b]]
        /\ told' = [told EXCEPT ![b] = version[b]]
    BY <1>4 DEF AskSync
  <2> HIDE DEF m, n
  <2>2. /\ pipe' = pipe \o <<m, n>> /\ <<m, n>> \in Seq(Message) /\ sends' \in Nat
        /\ DOMAIN <<m, n>> = {1, 2} /\ <<m, n>>[1] = m /\ <<m, n>>[2] = n
    BY <1>1, <1>2, <2>1 DEF Send
  <2>3. TypeOK /\ InOrder(Queue, version, told) /\ Queue \in Seq(Message)
    BY QueueType DEF Inv
  <2>4. told' \in [Buffer -> Nat] /\ synced' \in [Buffer -> Nat \cup {-1}]
    BY <1>1, <2>1
  <2>4a. Append(Queue, m) \in Seq(Message)
    BY <1>2, <2>3
  <2>4b. Sent(m, version, told, version, told') /\ Sent(n, version, told', version, told')
    BY <1>1, <1>2, <1>3, <2>1 DEF Sent, Updates
  <2>5. InOrder(Append(Queue, m), version, told')
    BY <1>1, <1>2, <2>4b, <2>3, <2>4, InOrderAppend
  <2>6. InOrder(Append(Append(Queue, m), n), version, told')
    BY <1>1, <1>2, <2>4a, <2>4b, <2>3, <2>4, <2>5, InOrderAppend
  <2>7. Append(Append(Queue, m), n) = Queue \o <<m, n>>
    BY <1>2, <2>3
  <2>8. \A a \in Buffer : told'[a] = told[a] \/ told'[a] = 0 \/ UpdateIn(a, <<m, n>>)
    BY <1>1, <1>2, <2>1, <2>2 DEF UpdateIn, Updates
  <2>9. \A i \in DOMAIN <<m, n>> : <<m, n>>[i].version >= 1
    BY <1>1, <1>2, <1>3, <2>2
  <2>10. QED BY <1>1, <1>3, <2>2, <2>4, <2>6, <2>7, <2>8, <2>9, EditorKeepsInv
<1>5. CASE synced[b] = version[b]
  <2>1. Send(<<n>>) /\ UNCHANGED <<synced, told>>
    BY <1>5 DEF AskSync
  <2> HIDE DEF m, n
  <2>2. QED BY <1>1, <1>2, <1>3, <2>1, SendOne DEF Sent, Updates
<1>6. QED BY <1>4, <1>5

-----------------------------------------------------------------------------
(***************************************************************************)
(* The ends of kak-lsp.                                                    *)
(***************************************************************************)

\* A new kak-lsp knows nothing, and what it is sent is in order from there.
LEMMA FreshKeepsInv ==
  ASSUME Inv, Fresh, restarts' = restarts + 1, sends' \in Nat,
         told' \in [Buffer -> Nat], pipe' \in Seq(Message),
         \A i \in DOMAIN pipe' : pipe'[i].version >= 1,
         \A b \in Buffer : /\ Grows(pipe', b, -1, version[b])
                           /\ told'[b] > 0 => LastIs(pipe', b, -1, told'[b])
  PROVE  Inv'
<1>1. /\ routes' = [a \in Server |-> NoServer] /\ status' = [s \in Server |-> "absent"]
      /\ batches' = {} /\ blocked' = {} /\ dead' = {}
      /\ pending' = <<>> /\ future' = <<>> /\ turn' = "idle"
      /\ docs' = [b \in Buffer |-> NoDoc]
      /\ view' = [s \in Server |-> [b \in Buffer |-> NoDoc]]
      /\ UNCHANGED <<version, synced, saved, early, unopened>>
  BY DEF Fresh
<1>2. /\ DOMAIN pending' = {} /\ DOMAIN future' = {} /\ restarts' \in Nat /\ restarts' # 0
  BY <1>1 DEF Inv, TypeOK
<1>3. TypeOK'
  <2>1. /\ version' \in [Buffer -> Nat] /\ saved' \in [Buffer -> Nat]
        /\ synced' \in [Buffer -> Nat \cup {-1}]
        /\ early' \subseteq Server /\ unopened' \subseteq Server \X Buffer
    BY <1>1 DEF Inv, TypeOK
  <2>2. pending' \in Seq(Message) /\ future' \in Seq(Message)
    BY <1>1
  <2>3. /\ routes' \in [Server -> Server \cup {NoServer}]
        /\ status' \in [Server -> Statuses]
        /\ batches' \subseteq Batch /\ blocked' \subseteq Buffer /\ dead' \subseteq Name
        /\ docs' \in [Buffer -> Doc \cup {NoDoc}]
        /\ view' \in [Server -> [Buffer -> Doc \cup {NoDoc}]]
        /\ turn' = "idle"
    BY <1>1 DEF Statuses
  <2>4. QED BY <1>2, <2>1, <2>2, <2>3 DEF TypeOK
<1>4. DidOpenFirst' /\ RoutesInv' /\ Mirrored'
  BY <1>1 DEF Inv, DidOpenFirst, RoutesInv, Mirrored
<1>5. QueuesInv' /\ BlockedInv' /\ DueInv'
  BY <1>1, <1>2 DEF QueuesInv, BlockedInv, DueInv
<1>6. TextsInv'
  BY <1>2 DEF TextsInv
<1>7. InOrder(Queue, version, told)'
  <2>1. Queue' = pipe'
    BY <1>1 DEF Queue
  <2>2. \A b \in Buffer : docs'[b].version = -1
    BY <1>1 DEF NoDoc
  <2>3. QED BY <1>1, <1>2, <2>1, <2>2 DEF InOrder
<1>8. QED BY <1>3, <1>4, <1>5, <1>6, <1>7 DEF Inv

LEMMA EmptyGrows ==
  ASSUME NEW b \in Buffer, NEW v \in Nat
  PROVE  Grows(<<>>, b, -1, v)
BY DEF Grows, VersionAt

LEMMA GoneKeepsInv ==
  ASSUME Inv, Fresh, restarts' = restarts + 1, UNCHANGED sends, pipe' = <<>>,
         told' = [b \in Buffer |-> 0]
  PROVE  Inv'
<1>1. \A b \in Buffer : Grows(<<>>, b, -1, version[b])
  BY EmptyGrows DEF Inv, TypeOK
<1>2. /\ sends' \in Nat /\ told' \in [Buffer -> Nat] /\ \A b \in Buffer : told'[b] = 0
      /\ pipe' \in Seq(Message) /\ DOMAIN pipe' = {}
  BY DEF Inv, TypeOK
<1>3. QED BY <1>1, <1>2, FreshKeepsInv

LEMMA PanicKeepsInv ==
  ASSUME Inv, Panic
  PROVE  Inv'
BY GoneKeepsInv DEF Panic

LEMMA DieKeepsInv ==
  ASSUME Inv, Die
  PROVE  Inv'
BY GoneKeepsInv DEF Die

LEMMA RestartKeepsInv ==
  ASSUME Inv, NEW b \in Buffer, Restart(b)
  PROVE  Inv'
<1> DEFINE m == Msg("didChangeConfiguration", b, version[b])
           n == Msg("didOpen", b, version[b])
<1>1. /\ version \in [Buffer -> Nat] /\ sends \in Nat
      /\ version[b] > 0 /\ version[b] \in Nat
  BY DEF Restart, Inv, TypeOK
<1>2. /\ m \in Message /\ m.kind = "didChangeConfiguration" /\ m.buf = b /\ m.version = version[b]
      /\ n \in Message /\ n.kind = "didOpen" /\ n.buf = b /\ n.version = version[b]
  BY <1>1, MsgType DEF Notifications, Updates
<1>3. /\ Fresh /\ restarts' = restarts + 1 /\ sends' = sends + 2 /\ pipe' = <<m, n>>
      /\ told' = [a \in Buffer |-> IF a = b THEN version[b] ELSE 0]
  BY DEF Restart
<1> HIDE DEF m, n
<1>4. /\ <<m>> \in Seq(Message) /\ <<m, n>> \in Seq(Message) /\ <<>> \in Seq(Message)
      /\ <<m>> = Append(<<>>, m) /\ <<m, n>> = Append(<<m>>, n)
      /\ DOMAIN <<m, n>> = {1, 2} /\ <<m, n>>[1] = m /\ <<m, n>>[2] = n
  BY <1>2
<1>5. ASSUME NEW a \in Buffer
      PROVE  /\ Grows(pipe', a, -1, version[a])
             /\ told'[a] > 0 => LastIs(pipe', a, -1, told'[a])
  <2>1. version[a] \in Nat /\ Grows(<<>>, a, -1, version[a])
    BY <1>1, EmptyGrows
  <2>2. /\ m.buf # a \/ (m.buf = a /\ version[a] <= m.version /\ m.version <= version[a])
        /\ n.buf # a \/ (n.buf = a /\ version[a] <= n.version /\ n.version <= version[a])
        /\ -1 \in Int
    BY <1>1, <1>2
  <2>3. Grows(Append(<<>>, m), a, -1, version[a])
    BY <1>2, <1>4, <2>1, <2>2, AppendKeepsGrows
  <2>4. Grows(Append(Append(<<>>, m), n), a, -1, version[a])
    <3>1. Append(<<>>, m) \in Seq(Message)
      BY <1>4
    <3>2. QED BY <1>2, <2>1, <2>2, <2>3, <3>1, AppendKeepsGrows
  <2>5. ASSUME a = b PROVE LastIs(Append(<<m>>, n), a, -1, version[b])
    <3>1. n.kind \in Updates /\ n.buf = a /\ n.version = version[b] /\ version[b] \in Nat
      BY <1>1, <1>2, <2>5 DEF Updates
    <3>2. QED BY <1>2, <1>4, <2>2, <3>1, AppendKeepsLast
  <2>6. Append(Append(<<>>, m), n) = pipe' /\ Append(<<m>>, n) = pipe'
    BY <1>3, <1>4
  <2>7. told'[a] > 0 => a = b /\ told'[a] = version[b]
    BY <1>3
  <2>8. QED BY <2>4, <2>5, <2>6, <2>7
<1>6. told' \in [Buffer -> Nat]
  BY <1>1, <1>3
<1>7. \A i \in DOMAIN pipe' : pipe'[i].version >= 1
  BY <1>1, <1>2, <1>3, <1>4
<1>8. QED BY <1>1, <1>3, <1>4, <1>5, <1>6, <1>7, FreshKeepsInv

-----------------------------------------------------------------------------
(***************************************************************************)
(* Routing.                                                                *)
(***************************************************************************)

\* Routes stay, and ready servers stay ready.
Steady ==
  /\ \A a \in Server : routes[a] # NoServer => routes'[a] = routes[a]
  /\ \A s \in Server : status[s] = "ready" <=> status'[s] = "ready"

LEMMA RouteType ==
  ASSUME NEW b \in Buffer
  PROVE  /\ RootOf[b] \in Root /\ NamesOf[b] \subseteq Name
         /\ \A n \in NamesOf[b] : <<n, RootOf[b]>> \in Server
         /\ Missing(b) \subseteq NamesOf[b] /\ Started(b) \subseteq Missing(b)
         /\ \A n \in Missing(b) : Address(b, n) \in Server
         /\ NoServer \notin Server
<1>1. /\ RootOf[b] \in Root /\ NamesOf[b] \subseteq Name
      /\ \A n \in NamesOf[b] : <<n, RootOf[b]>> \in Server
      /\ NoServer \notin Server
  BY SessionAssumption DEF Server
<1>2. Missing(b) \subseteq NamesOf[b] /\ Started(b) \subseteq Missing(b)
  BY DEF Missing, Started
<1>3. ASSUME NEW n \in Missing(b)
      PROVE  Address(b, n) \in Server
  <2>1. CASE n \in Shared(b)
    <3>1. \E s \in Server : CanServe(s, n)
      BY <2>1 DEF Shared
    <3>2. QED BY <2>1, <3>1 DEF Address
  <2>2. CASE n \notin Shared(b)
    BY <2>2, <1>1, <1>2 DEF Address
  <2>3. QED BY <2>1, <2>2
<1>4. QED BY <1>1, <1>2, <1>3

\* What is routed stays routed to the same servers.
LEMMA SteadyServers ==
  ASSUME NEW b \in Buffer, Steady
  PROVE  AllRouted(b) => /\ AllRouted(b)' /\ ServersOf(b)' = ServersOf(b)
                         /\ \A n \in NamesOf[b] : routes'[<<n, RootOf[b]>>] = routes[<<n, RootOf[b]>>]
<1>1. \A n \in NamesOf[b] : <<n, RootOf[b]>> \in Server
  BY RouteType
<1>2. AllRouted(b) => \A n \in NamesOf[b] : routes'[<<n, RootOf[b]>>] = routes[<<n, RootOf[b]>>]
  BY <1>1 DEF AllRouted, Steady
<1>3. QED BY <1>2 DEF AllRouted, ServersOf

LEMMA RoutedServers ==
  ASSUME TypeOK, NEW b \in Buffer, AllRouted(b)
  PROVE  ServersOf(b) \subseteq Server
<1>1. \A n \in NamesOf[b] : <<n, RootOf[b]>> \in Server
  BY RouteType
<1>2. \A a \in Server : routes[a] \in Server \cup {NoServer}
  BY DEF TypeOK
<1>3. \A n \in NamesOf[b] : routes[<<n, RootOf[b]>>] \in Server
  BY <1>1, <1>2 DEF AllRouted
<1>4. QED BY <1>3 DEF ServersOf

\* What RouteNames does to the routes.
LEMMA RouteNamesRoutes ==
  ASSUME TypeOK, NEW b \in Buffer, NEW done, RouteNames(b, done)
  PROVE  /\ routes' \in [Server -> Server \cup {NoServer}]
         /\ \A a \in Server : routes[a] # NoServer => routes'[a] = routes[a]
         /\ \A n \in NamesOf[b] \cap done :
              routes'[<<n, RootOf[b]>>] =
                IF n \in Missing(b) THEN Address(b, n) ELSE routes[<<n, RootOf[b]>>]
<1>1. routes \in [Server -> Server \cup {NoServer}]
  BY DEF TypeOK
<1>2. \A n \in Missing(b) : Address(b, n) \in Server
  BY RouteType
<1>3. \A a \in Server :
        routes'[a] = IF a[1] \in done \cap Missing(b) /\ a[2] = RootOf[b] THEN Address(b, a[1])
                     ELSE routes[a]
  BY DEF RouteNames
<1>4. routes' = [a \in Server |-> routes'[a]]
  BY DEF RouteNames
<1>5. \A a \in Server : routes'[a] \in Server \cup {NoServer}
  BY <1>1, <1>2, <1>3
<1>6. ASSUME NEW a \in Server, routes[a] # NoServer
      PROVE  routes'[a] = routes[a]
  <2>1. a = <<a[1], a[2]>>
    BY DEF Server
  <2>2. a[2] = RootOf[b] => a[1] \notin Missing(b)
    BY <2>1, <1>6 DEF Missing
  <2>3. QED BY <2>2, <1>3
<1>7. ASSUME NEW n \in NamesOf[b] \cap done
      PROVE  routes'[<<n, RootOf[b]>>] =
               IF n \in Missing(b) THEN Address(b, n) ELSE routes[<<n, RootOf[b]>>]
  <2>1. <<n, RootOf[b]>> \in Server /\ <<n, RootOf[b]>>[1] = n /\ <<n, RootOf[b]>>[2] = RootOf[b]
    BY RouteType
  <2>2. QED BY <2>1, <1>3
<1>8. QED BY <1>4, <1>5, <1>6, <1>7

\* A server that is launched was not there before.
LEMMA LaunchedAbsent ==
  ASSUME TypeOK, RoutesInv, NEW b \in Buffer, NEW done
  PROVE  /\ Launched(b, done) \subseteq Server
         /\ Launched(b, done) \subseteq {<<n, RootOf[b]>> : n \in NamesOf[b]}
         /\ \A s \in Launched(b, done) : status[s] = "absent" /\ routes[s] = NoServer
         /\ \A n : n \in done \cap Started(b) <=> <<n, RootOf[b]>> \in Launched(b, done)
<1>1. /\ \A n \in NamesOf[b] : <<n, RootOf[b]>> \in Server
      /\ Missing(b) \subseteq NamesOf[b] /\ Started(b) \subseteq Missing(b)
  BY RouteType
<1>2. \A s \in Launched(b, done) :
         \E n \in NamesOf[b] : n \in done \cap Started(b) /\ s = <<n, RootOf[b]>>
  BY <1>1 DEF Launched
<1>3. \A s \in Launched(b, done) : s \in Server /\ routes[s] = NoServer
  BY <1>1, <1>2 DEF Missing
<1>4. \A s \in Launched(b, done) : status[s] = "absent"
  BY <1>3 DEF RoutesInv
<1>5. \A n : n \in done \cap Started(b) <=> <<n, RootOf[b]>> \in Launched(b, done)
  BY DEF Launched
<1>6. QED BY <1>2, <1>3, <1>4, <1>5

\* A buffer that was routed, and the message about it.
LEMMA RouteFacts ==
  ASSUME TypeOK, RoutesInv, NEW b \in Buffer, Route(b), NEW m \in Message, m.buf = b
  PROVE  /\ routes' \in [Server -> Server \cup {NoServer}]
         /\ status' \in [Server -> Statuses] /\ batches' \subseteq Batch
         /\ Steady /\ RoutesInv'
         /\ AllRouted(b)' /\ Routed(m) \in Message
         /\ Routed(m).servers = ServersOf(b)'
         /\ Like(Routed(m), m)
         /\ AllReady(Routed(m)) => status' = status
<1> DEFINE new == Launched(b, NamesOf[b])
<1>1. /\ RouteNames(b, NamesOf[b])
      /\ status' = [s \in Server |-> IF s \in new THEN "initializing" ELSE status[s]]
      /\ batches' = IF new = {} THEN batches ELSE batches \cup {new}
  BY DEF Route
<1>2. /\ new \subseteq Server /\ new \subseteq {<<n, RootOf[b]>> : n \in NamesOf[b]}
      /\ \A s \in new : status[s] = "absent" /\ routes[s] = NoServer
      /\ \A n : n \in NamesOf[b] \cap Started(b) <=> <<n, RootOf[b]>> \in new
  BY LaunchedAbsent
<1> HIDE DEF new
<1>3. /\ routes' \in [Server -> Server \cup {NoServer}]
      /\ \A a \in Server : routes[a] # NoServer => routes'[a] = routes[a]
      /\ \A n \in NamesOf[b] :
           routes'[<<n, RootOf[b]>>] =
             IF n \in Missing(b) THEN Address(b, n) ELSE routes[<<n, RootOf[b]>>]
  BY <1>1, RouteNamesRoutes
<1>4. /\ \A n \in NamesOf[b] : <<n, RootOf[b]>> \in Server
      /\ Missing(b) \subseteq NamesOf[b] /\ Started(b) \subseteq Missing(b)
      /\ \A n \in Missing(b) : Address(b, n) \in Server
      /\ NoServer \notin Server
  BY RouteType
<1>5. status \in [Server -> Statuses] /\ routes \in [Server -> Server \cup {NoServer}]
      /\ batches \subseteq Batch
  BY DEF TypeOK
<1>6. status' \in [Server -> Statuses]
  BY <1>1, <1>5 DEF Statuses
<1>7. batches' \subseteq Batch
  <2>1. new # {} => new \in Batch
    BY <1>2 DEF Batch
  <2>2. QED BY <2>1, <1>1, <1>5
<1>8. Steady
  BY <1>1, <1>2, <1>3 DEF Steady
<1>9. \A n \in NamesOf[b] : routes'[<<n, RootOf[b]>>] # NoServer /\ routes'[<<n, RootOf[b]>>] \in Server
  <2>1. \A n \in NamesOf[b] : n \notin Missing(b) => routes[<<n, RootOf[b]>>] # NoServer
    BY DEF Missing
  <2>2. QED BY <2>1, <1>3, <1>4
<1>10. AllRouted(b)'
  BY <1>9 DEF AllRouted
<1>11. RoutesInv'
  <2>1. \A a \in Server : status'[a] # "absent" => routes'[a] # NoServer
    <3> SUFFICES ASSUME NEW a \in Server, status'[a] # "absent"
                 PROVE  routes'[a] # NoServer
      OBVIOUS
    <3>1. CASE a \in new
      BY <3>1, <1>2, <1>9
    <3>2. CASE a \notin new
      <4>1. status[a] # "absent"
        BY <3>2, <1>1
      <4>2. QED BY <4>1, <1>3 DEF RoutesInv
    <3>3. QED BY <3>1, <3>2
  <2>2. \A c \in batches : \A s \in c : s \in Server /\ status[s] = "initializing" /\ s \notin new
    BY <1>2, <1>5, RouteType DEF RoutesInv, Batch
  <2>3. \A c \in batches' : \A s \in c : status'[s] = "initializing"
    BY <2>2, <1>1, <1>2
  <2>4. \A c, d \in batches' : c # d => c \cap d = {}
    BY <2>2, <1>1 DEF RoutesInv
  <2>5. QED BY <2>1, <2>3, <2>4 DEF RoutesInv
<1>12. Routed(m).servers = ServersOf(b)'
  <2>1. ServersOf(b)' = {routes'[<<n, RootOf[b]>>] : n \in NamesOf[b]}
    BY DEF ServersOf
  <2>2. Routed(m).servers =
          {IF n \in Missing(b) THEN Address(b, n) ELSE routes[<<n, RootOf[b]>>] : n \in NamesOf[b]}
    BY DEF Routed, Message
  <2>3. \A s : s \in ServersOf(b)' <=> s \in Routed(m).servers
    <3>1. ASSUME NEW s, s \in ServersOf(b)' PROVE s \in Routed(m).servers
      <4>1. PICK n \in NamesOf[b] : s = routes'[<<n, RootOf[b]>>]
        BY <3>1, <2>1
      <4>2. s = IF n \in Missing(b) THEN Address(b, n) ELSE routes[<<n, RootOf[b]>>]
        BY <4>1, <1>3
      <4>3. QED BY <4>2, <2>2
    <3>2. ASSUME NEW s, s \in Routed(m).servers PROVE s \in ServersOf(b)'
      <4>1. PICK n \in NamesOf[b] :
              s = IF n \in Missing(b) THEN Address(b, n) ELSE routes[<<n, RootOf[b]>>]
        BY <3>2, <2>2
      <4>2. s = routes'[<<n, RootOf[b]>>]
        BY <4>1, <1>3
      <4>3. QED BY <4>2, <2>1
    <3>3. QED BY <3>1, <3>2
  <2>4. QED BY <2>3
<1>13. Routed(m).servers \subseteq Server
  BY <1>9, <1>12 DEF ServersOf
<1>14. Routed(m) \in Message /\ Like(Routed(m), m)
  <2>1. Routed(m) = [m EXCEPT !.servers = Routed(m).servers]
    BY DEF Routed, Message
  <2>2. QED BY <2>1, <1>13 DEF Message, Like
<1>15. ASSUME AllReady(Routed(m)) PROVE status' = status
  <2>1. new = {}
    <3>1. SUFFICES ASSUME NEW s \in new PROVE FALSE
      OBVIOUS
    <3>2. PICK n \in NamesOf[b] : s = <<n, RootOf[b]>>
      BY <3>1, <1>2
    <3>3. n \in Started(b)
      BY <3>2, <1>2
    <3>4. Address(b, n) = s /\ n \in Missing(b)
      BY <3>2, <3>3, <1>4 DEF Started, Address
    <3>5. s \in Routed(m).servers
      BY <3>2, <3>4, <1>3, <1>12 DEF ServersOf
    <3>6. status[s] = "ready"
      BY <3>5, <1>15 DEF AllReady
    <3>7. QED BY <3>6, <1>2
  <2>2. QED BY <2>1, <1>1, <1>5
<1>16. QED BY <1>3, <1>6, <1>7, <1>8, <1>10, <1>11, <1>12, <1>14, <1>15

LEMMA SteadyQueued ==
  ASSUME Steady, NEW m, m.buf \in Buffer, TypeOK, Queued(m)
  PROVE  Queued(m)' /\ (Unready(m.buf)' <=> Unready(m.buf))
<1>1. AllRouted(m.buf)' /\ ServersOf(m.buf)' = ServersOf(m.buf)
  BY SteadyServers DEF Queued
<1>2. ServersOf(m.buf) \subseteq Server
  BY RoutedServers DEF Queued
<1>3. \A s \in ServersOf(m.buf) : status'[s] = "ready" <=> status[s] = "ready"
  BY <1>2 DEF Steady
<1>4. Queued(m)'
  BY <1>1 DEF Queued
<1>5. QED BY <1>1, <1>3, <1>4 DEF Unready

LEMMA SteadyMirrored ==
  ASSUME TypeOK, Mirrored, Steady, UNCHANGED <<docs, view>>
  PROVE  Mirrored'
<1> SUFFICES ASSUME NEW b \in Buffer
             PROVE  /\ docs[b] # NoDoc => AllRouted(b)'
                    /\ \A s \in Server : view[s][b] = IF s \in ServersOf(b)' THEN docs[b] ELSE NoDoc
  BY DEF Mirrored
<1>1. CASE AllRouted(b)
  BY <1>1, SteadyServers DEF Mirrored
<1>2. CASE ~AllRouted(b)
  <2>1. docs[b] = NoDoc
    BY <1>2 DEF Mirrored
  <2>2. QED BY <2>1 DEF Mirrored
<1>3. QED BY <1>1, <1>2

-----------------------------------------------------------------------------
(***************************************************************************)
(* Dispatching.                                                            *)
(***************************************************************************)

\* What a message makes of its document.
LEMMA DocAfterFacts ==
  ASSUME TypeOK, NEW m \in Message, NEW b \in Buffer, m.buf = b
  PROVE  LET d == docs[b]
             e == DocAfter(m, d)
         IN  /\ e \in Doc \cup {NoDoc}
             /\ e = NoDoc => m.kind = "didClose"
             /\ (m.kind = "didChange" => d.version <= m.version)
                  => VersionAfter(m, d.version, e.version)
             /\ d.text = d.version /\ (d # NoDoc \/ m.kind \in Updates \cup {"didClose"})
                  => e.text = e.version
             /\ m.kind \notin Updates \cup {"didClose"} /\ d # NoDoc => e = d
<1> DEFINE d == docs[b]
           e == DocAfter(m, d)
<1>1. /\ d.version \in Int /\ d \in Doc \cup {NoDoc} /\ (d = NoDoc <=> d.version = -1)
      /\ d # NoDoc => d.version \in Nat
      /\ m.version \in Nat
  BY DocVersion, MessageType
<1>2. /\ OpeningDoc(m) \in Doc /\ OpeningDoc(m).version = m.version
      /\ m.kind \in Updates => OpeningDoc(m).text = m.version
  <2>1. saved[b] \in Nat
    BY DEF TypeOK
  <2>2. QED BY <2>1, <1>1 DEF OpeningDoc, Doc
<1>3. /\ NoDoc.version = -1 /\ NoDoc.text = -1 /\ NoDoc \notin Doc
      /\ [version |-> m.version, text |-> m.version] \in Doc
  BY <1>1 DEF NoDoc, Doc
<1> HIDE DEF d
<1>4. Opens(m) <=> m.kind = "didOpen" \/ d = NoDoc
  BY DEF Opens, d
<1>5. CASE m.kind = "didClose"
  <2>1. e = NoDoc
    BY <1>5 DEF DocAfter
  <2> HIDE DEF e
  <2>2. QED BY <2>1, <1>3, <1>5 DEF VersionAfter, d, e, Updates
<1>6. CASE m.kind # "didClose" /\ IsNew(m)
  <2>1. e = [version |-> m.version, text |-> m.version] /\ m.kind = "didChange"
    BY <1>6 DEF DocAfter, IsNew
  <2> HIDE DEF e
  <2>2. QED BY <2>1, <1>3 DEF VersionAfter, Updates, d, e
<1>7. CASE m.kind # "didClose" /\ ~IsNew(m) /\ Opens(m)
  <2>1. e = OpeningDoc(m)
    BY <1>7 DEF DocAfter
  <2>2. m.kind \in Updates \/ d = NoDoc
    BY <1>4, <1>7 DEF Updates
  <2> HIDE DEF e
  <2>3. VersionAfter(m, d.version, e.version)
    BY <2>1, <2>2, <1>1, <1>2, <1>7 DEF VersionAfter
  <2>4. e \in Doc /\ e # NoDoc
    BY <2>1, <1>2, <1>3
  <2>5. d # NoDoc \/ m.kind \in Updates \cup {"didClose"} => e.text = e.version
    BY <2>1, <2>2, <1>2, <1>7
  <2>6. ~(m.kind \notin Updates \cup {"didClose"} /\ d # NoDoc)
    BY <2>2
  <2>7. QED BY <2>3, <2>4, <2>5, <2>6 DEF d, e
<1>8. CASE m.kind # "didClose" /\ ~IsNew(m) /\ ~Opens(m)
  <2>1. e = d /\ d # NoDoc
    BY <1>4, <1>8 DEF DocAfter
  <2>2. m.kind = "didChange" => ~(d.version < m.version)
    BY <1>8 DEF IsNew, DocAfterOpen, d
  <2> HIDE DEF e
  <2>3. (m.kind = "didChange" => d.version <= m.version) => VersionAfter(m, d.version, e.version)
    BY <2>1, <2>2, <1>1, <1>4, <1>8 DEF VersionAfter, Updates
  <2>4. QED BY <2>1, <2>3, <1>1 DEF d, e
<1>9. QED BY <1>5, <1>6, <1>7, <1>8

\* Dispatch keeps the servers' documents and those of kak-lsp alike, and tells no
\* server of a document that is not open there.
LEMMA DispatchFacts ==
  ASSUME TypeOK, DidOpenFirst, Mirrored, Steady, routes' \in [Server -> Server \cup {NoServer}],
         NEW m \in Message, NEW b \in Buffer, m.buf = b,
         m.servers = ServersOf(b)', AllRouted(b)', Dispatch(m)
  PROVE  /\ docs' = [docs EXCEPT ![b] = DocAfter(m, docs[b])]
         /\ docs' \in [Buffer -> Doc \cup {NoDoc}]
         /\ view' \in [Server -> [Buffer -> Doc \cup {NoDoc}]]
         /\ early' \subseteq Server
         /\ DidOpenFirst' /\ Mirrored'
<1>1. /\ docs' = [docs EXCEPT ![b] = DocAfter(m, docs[b])]
      /\ view' = [s \in Server |->
                    IF s \in m.servers THEN [view[s] EXCEPT ![b] = DocAfter(m, @)] ELSE view[s]]
  BY DEF Dispatch
<1>2. DocAfter(m, docs[b]) \in Doc \cup {NoDoc}
  BY DocAfterFacts
<1>3. docs \in [Buffer -> Doc \cup {NoDoc}] /\ view \in [Server -> [Buffer -> Doc \cup {NoDoc}]]
  BY DEF TypeOK
<1>4. docs' \in [Buffer -> Doc \cup {NoDoc}]
  BY <1>1, <1>2, <1>3
<1>5. m.servers \subseteq Server
  BY DEF Message
<1>6. \A s \in Server : s \in m.servers => view[s][b] = docs[b]
  <2>1. CASE AllRouted(b)
    BY <2>1, SteadyServers DEF Mirrored
  <2>2. CASE ~AllRouted(b)
    <3>1. docs[b] = NoDoc
      BY <2>2 DEF Mirrored
    <3>2. QED BY <3>1 DEF Mirrored
  <2>3. QED BY <2>1, <2>2
<1>7. \A s \in Server : s \notin m.servers => view[s][b] = NoDoc
  <2>1. CASE AllRouted(b)
    BY <2>1, SteadyServers DEF Mirrored
  <2>2. CASE ~AllRouted(b)
    <3>1. docs[b] = NoDoc
      BY <2>2 DEF Mirrored
    <3>2. QED BY <3>1 DEF Mirrored
  <2>3. QED BY <2>1, <2>2
<1>8. \A s \in Server :
        /\ view'[s] = IF s \in m.servers THEN [view[s] EXCEPT ![b] = DocAfter(m, docs[b])]
                      ELSE view[s]
        /\ view[s] \in [Buffer -> Doc \cup {NoDoc}]
  BY <1>1, <1>3, <1>6
<1>9. view' \in [Server -> [Buffer -> Doc \cup {NoDoc}]]
  <2>1. ASSUME NEW s \in Server PROVE view'[s] \in [Buffer -> Doc \cup {NoDoc}]
    <3>1. [view[s] EXCEPT ![b] = DocAfter(m, docs[b])] \in [Buffer -> Doc \cup {NoDoc}]
      BY <1>2, <1>8
    <3>2. QED BY <3>1, <1>8
  <2>2. view' = [s \in Server |-> view'[s]]
    BY <1>1
  <2>3. QED BY <2>1, <2>2
<1>10. early' \subseteq Server
  BY <1>5 DEF Dispatch, TypeOK
<1>11. DidOpenFirst'
  <2>1. \A s \in m.servers : view[s][b] = NoDoc => Opens(m)
    BY <1>5, <1>6 DEF Opens
  <2>2. {s \in m.servers : Reaches(m, s) /\ ~Opens(m) /\ view[s][m.buf] = NoDoc} = {}
    BY <2>1
  <2>3. unopened' = unopened \cup
          {<<s, m.buf>> : s \in {s \in m.servers :
             Reaches(m, s) /\ ~Opens(m) /\ view[s][m.buf] = NoDoc}}
    BY DEF Dispatch
  <2>4. unopened = {}
    BY DEF DidOpenFirst
  <2>5. QED BY <2>2, <2>3, <2>4 DEF DidOpenFirst
<1>12. Mirrored'
  <2> SUFFICES ASSUME NEW c \in Buffer
               PROVE  /\ docs'[c] # NoDoc => AllRouted(c)'
                      /\ \A s \in Server :
                           view'[s][c] = IF s \in ServersOf(c)' THEN docs'[c] ELSE NoDoc
    BY DEF Mirrored
  <2>1. CASE c = b
    <3>1. docs'[b] = DocAfter(m, docs[b])
      BY <1>1, <1>3
    <3>2. \A s \in Server : view'[s][b] = IF s \in m.servers THEN DocAfter(m, docs[b]) ELSE NoDoc
      BY <1>7, <1>8
    <3>3. QED BY <2>1, <3>1, <3>2
  <2>2. CASE c # b
    <3>1. docs'[c] = docs[c] /\ \A s \in Server : view'[s][c] = view[s][c]
      BY <2>2, <1>1, <1>3, <1>8
    <3>2. CASE AllRouted(c)
      BY <3>1, <3>2, SteadyServers DEF Mirrored
    <3>3. CASE ~AllRouted(c)
      <4>1. docs[c] = NoDoc
        BY <3>3 DEF Mirrored
      <4>2. QED BY <3>1, <4>1 DEF Mirrored
    <3>4. QED BY <3>2, <3>3
  <2>3. QED BY <2>1, <2>2
<1>13. QED BY <1>1, <1>4, <1>9, <1>10, <1>11, <1>12

LEMMA OrderFacts ==
  ASSUME TypeOK, InOrder(Queue, version, told), NEW b \in Buffer \ blocked,
         NEW k \in 1..Len(Queue), Queue[k].buf = b, FirstOf(Queue, b, k)
  PROVE  /\ docs[b].version <= Queue[k].version
         /\ restarts = 0 /\ docs[b] = NoDoc => Queue[k].kind = "didOpen"
<1>1. Queue \in Seq(Message) /\ Len(Queue) \in Nat /\ DOMAIN Queue = 1..Len(Queue)
  BY QueueType
<1>2. \A x \in 0..k - 1 : ~Closing(Queue, b, x)
  BY <1>1 DEF FirstOf, Closing
<1>3. docs[b].version <= Queue[k].version
  <2>1. VersionAt(Queue, docs[b].version, version[b], 0)
          <= VersionAt(Queue, docs[b].version, version[b], k)
    <3>1. Grows(Queue, b, docs[b].version, version[b])
      BY DEF InOrder
    <3>2. About(Queue, b, 0) /\ About(Queue, b, k)
      BY DEF About
    <3>3. 0 \in 0..Len(Queue) /\ k \in 1..Len(Queue) + 1 /\ 0 < k
      BY <1>1
    <3>4. QED BY <3>1, <3>2, <3>3, <1>2 DEF Grows
  <2>2. QED BY <2>1, <1>1 DEF VersionAt
<1>4. ASSUME restarts = 0, docs[b] = NoDoc, Queue[k].kind # "didOpen"
      PROVE  FALSE
  <2>1. AllOpen(Queue, b, docs[b], version[b])
    BY <1>4 DEF InOrder
  <2>2. OpenBefore(Queue, b, docs[b], k)
    BY <2>1, <1>1, <1>4 DEF AllOpen
  <2>3. PICK i \in 0..k - 1 : i # 0 /\ Queue[i].buf = b
    BY <2>2, <1>4 DEF OpenBefore
  <2>4. QED BY <2>3 DEF FirstOf
<1>5. QED BY <1>3, <1>4

LEMMA DocAfterLike ==
  ASSUME NEW m, NEW n, Like(m, n), NEW d
  PROVE  DocAfter(m, d) = DocAfter(n, d)
BY DEF Like, DocAfter, IsNew, DocAfterOpen, Opens, OpeningDoc

\* What becomes of the document of buffer b as message k leaves the queue.
Leaves(k, b) ==
  \/ /\ Queue[k].buf # b \/ Queue[k].kind \notin Updates \cup {"didClose"}
     /\ docs'[b] = docs[b]
  \/ Queue[k].buf = b /\ FirstOf(Queue, b, k) /\ docs'[b] = DocAfter(Queue[k], docs[b])

LEMMA DropKeepsOrder ==
  ASSUME TypeOK, TypeOK', InOrder(Queue, version, told), TextsInv,
         NEW k \in Nat, Dropped(Queue, k, Queue'),
         UNCHANGED <<version, told, restarts>>, blocked \subseteq blocked',
         \A b \in Buffer \ blocked' : Leaves(k, b)
  PROVE  InOrder(Queue, version, told)' /\ TextsInv'
<1>1. /\ Queue \in Seq(Message) /\ Queue' \in Seq(Message) /\ k \in 1..Len(Queue)
      /\ Queue[k] \in Message
  <2>1. Queue \in Seq(Message)
    BY QueueType
  <2>2. Queue' \in Seq(Message)
    BY DEF TypeOK, Queue
  <2>3. QED BY <2>1, <2>2 DEF Dropped
<1> SUFFICES ASSUME NEW b \in Buffer \ blocked'
             PROVE  /\ Grows(Queue', b, docs'[b].version, version[b])
                    /\ told[b] > 0 => LastIs(Queue', b, docs'[b].version, told[b])
                    /\ restarts = 0 => AllOpen(Queue', b, docs'[b], version[b])
                    /\ restarts = 0 => docs'[b].text = docs'[b].version
  BY DEF InOrder, TextsInv
<1>2. /\ b \in Buffer \ blocked /\ b \in Buffer
      /\ docs[b].version \in Int /\ docs'[b].version \in Int
      /\ version[b] \in Nat /\ told[b] \in Nat
  <2>1. b \in Buffer \ blocked /\ b \in Buffer
    OBVIOUS
  <2>2. docs[b].version \in Int
    BY <2>1, DocVersion
  <2>3. docs'[b] \in Doc \cup {NoDoc}
    BY <2>1 DEF TypeOK
  <2>4. docs'[b].version \in Int
    BY <2>3 DEF Doc, NoDoc
  <2>5. version[b] \in Nat /\ told[b] \in Nat
    BY <2>1 DEF TypeOK
  <2>6. QED BY <2>1, <2>2, <2>4, <2>5
<1>3. /\ Grows(Queue, b, docs[b].version, version[b])
      /\ told[b] > 0 => LastIs(Queue, b, docs[b].version, told[b])
      /\ restarts = 0 => AllOpen(Queue, b, docs[b], version[b])
      /\ restarts = 0 => docs[b].text = docs[b].version
  BY <1>2 DEF InOrder, TextsInv
<1>4. Leaves(k, b)
  OBVIOUS
<1>5. /\ Taken(Queue, b, k, docs[b].version, docs'[b].version)
      /\ restarts = 0 => OpenAfter(Queue, b, k, docs[b], docs'[b])
      /\ restarts = 0 => docs'[b].text = docs'[b].version
  <2>1. CASE /\ Queue[k].buf # b \/ Queue[k].kind \notin Updates \cup {"didClose"}
             /\ docs'[b] = docs[b]
    BY <2>1, <1>3 DEF Taken, OpenAfter, Updates
  <2>2. CASE Queue[k].buf = b /\ FirstOf(Queue, b, k) /\ docs'[b] = DocAfter(Queue[k], docs[b])
    <3>1. /\ docs[b].version <= Queue[k].version
          /\ restarts = 0 /\ docs[b] = NoDoc => Queue[k].kind = "didOpen"
      BY <2>2, <1>1, <1>2, OrderFacts
    <3>2. /\ docs'[b] = NoDoc => Queue[k].kind = "didClose"
          /\ VersionAfter(Queue[k], docs[b].version, docs'[b].version)
          /\ (docs[b].text = docs[b].version
                /\ (docs[b] # NoDoc \/ Queue[k].kind \in Updates \cup {"didClose"}))
               => docs'[b].text = docs'[b].version
      <4>1. \A m \in Message : m.buf = b =>
              LET d == docs[b]
                  e == DocAfter(m, d)
              IN  /\ e = NoDoc => m.kind = "didClose"
                  /\ (m.kind = "didChange" => d.version <= m.version)
                       => VersionAfter(m, d.version, e.version)
                  /\ d.text = d.version /\ (d # NoDoc \/ m.kind \in Updates \cup {"didClose"})
                       => e.text = e.version
        BY <1>2, DocAfterFacts
      <4>2. QED BY <4>1, <2>2, <3>1, <1>1
    <3>3. restarts = 0 => docs'[b].text = docs'[b].version
      BY <3>1, <3>2, <1>3 DEF Updates
    <3>4. QED BY <2>2, <3>2, <3>3 DEF Taken, OpenAfter
  <2>3. QED BY <2>1, <2>2, <1>4 DEF Leaves
<1>6. Grows(Queue', b, docs'[b].version, version[b])
  BY <1>1, <1>2, <1>3, <1>5, DropKeepsGrows
<1>7. ASSUME told[b] > 0 PROVE LastIs(Queue', b, docs'[b].version, told[b])
  BY <1>1, <1>2, <1>3, <1>5, <1>7, DropKeepsLast
<1>8. ASSUME restarts = 0 PROVE AllOpen(Queue', b, docs'[b], version[b])
  BY <1>1, <1>2, <1>3, <1>5, <1>8, DropKeepsOpen
<1>9. QED BY <1>5, <1>6, <1>7, <1>8

-----------------------------------------------------------------------------
(***************************************************************************)
(* Receiving a message.                                                    *)
(***************************************************************************)

LEMMA TakeFacts ==
  ASSUME Inv, Take
  PROVE  /\ turn = "idle" /\ NextMessage \in Message /\ NextMessage.version >= 1
         /\ pipe' \in Seq(Message)
         /\ pipe' = Tail(pipe) /\ Len(pipe) \in Nat \ {0} /\ NextMessage = pipe[1]
         /\ Queue[Len(pending) + 1] = NextMessage
         /\ Len(pending) + 1 \in 1..Len(Queue) /\ Len(pending) + 1 \in Nat
         /\ \A i \in DOMAIN pipe' : pipe'[i].version >= 1
<1>1. pipe \in Seq(Message) /\ pipe # <<>> /\ pipe' = Tail(pipe) /\ turn = "idle"
  BY DEF Take, Inv, TypeOK
<1>2. Len(pipe) \in Nat \ {0} /\ NextMessage = pipe[1] /\ pipe' \in Seq(Message)
  BY <1>1 DEF NextMessage
<1>3. NextMessage \in Message
  BY <1>1, <1>2
<1>4. \A i \in DOMAIN pipe : pipe[i].version >= 1
  BY DEF Inv, QueuesInv
<1>5. NextMessage.version >= 1 /\ \A i \in DOMAIN pipe' : pipe'[i].version >= 1
  BY <1>1, <1>2, <1>4
<1>6. /\ Queue[Len(pending) + 1] = NextMessage
      /\ Len(pending) + 1 \in 1..Len(Queue) /\ Len(pending) + 1 \in Nat
  <2>1. /\ Len(Queue) = Len(pending) + Len(pipe)
        /\ \A i \in 1..Len(pipe) : Queue[Len(pending) + i] = pipe[i]
    BY QueueType DEF Inv
  <2>2. Len(pending) \in Nat
    BY DEF Inv, TypeOK
  <2>3. QED BY <1>2, <2>1, <2>2
<1>7. QED BY <1>1, <1>2, <1>3, <1>5, <1>6

LEMMA TakeDrops ==
  ASSUME Inv, Take, pending' = pending
  PROVE  Dropped(Queue, Len(pending) + 1, Queue')
<1>1. pipe \in Seq(Message) /\ pending \in Seq(Message) /\ pipe # <<>> /\ pipe' = Tail(pipe)
  BY DEF Take, Inv, TypeOK
<1>2. Queue = pending \o pipe /\ Queue' = pending \o Tail(pipe)
  BY <1>1 DEF Queue
<1>3. /\ Len(pending) + 1 \in 1..Len(Queue) /\ Len(Queue') = Len(Queue) - 1
      /\ Len(pending) \in Nat /\ Len(pipe) \in Nat \ {0} /\ Len(Queue) = Len(pending) + Len(pipe)
  BY <1>1, <1>2
<1>4. ASSUME NEW i \in 1..Len(Queue')
      PROVE  Queue'[i] = Queue[At(Len(pending) + 1, i)]
  <2>1. CASE i <= Len(pending)
    <3>1. At(Len(pending) + 1, i) = i
      BY <2>1, <1>3 DEF At
    <3>2. Queue'[i] = pending[i] /\ Queue[i] = pending[i]
      BY <2>1, <1>1, <1>2, <1>3
    <3>3. QED BY <3>1, <3>2
  <2>2. CASE i > Len(pending)
    <3>1. At(Len(pending) + 1, i) = i + 1
      BY <2>2, <1>3 DEF At
    <3>2. Queue'[i] = pipe[i - Len(pending) + 1] /\ Queue[i + 1] = pipe[i + 1 - Len(pending)]
      BY <2>2, <1>1, <1>2, <1>3
    <3>3. QED BY <3>1, <3>2, <1>3
  <2>3. QED BY <2>1, <2>2, <1>3
<1>5. QED BY <1>3, <1>4 DEF Dropped, Like

LEMMA TakeParks ==
  ASSUME Inv, Take, NEW m \in Message, Like(m, NextMessage), pending' = Append(pending, m)
  PROVE  Alike(Queue, Queue')
<1>1. pipe \in Seq(Message) /\ pending \in Seq(Message) /\ pipe # <<>> /\ pipe' = Tail(pipe)
  BY DEF Take, Inv, TypeOK
<1>2. Queue = pending \o pipe /\ Queue' = Append(pending, m) \o Tail(pipe)
  BY <1>1 DEF Queue
<1>3. /\ Len(Queue') = Len(Queue)
      /\ Len(pending) \in Nat /\ Len(pipe) \in Nat \ {0} /\ Len(Queue) = Len(pending) + Len(pipe)
  BY <1>1, <1>2
<1>4. ASSUME NEW i \in 1..Len(Queue)
      PROVE  Like(Queue'[i], Queue[i])
  <2>1. CASE i <= Len(pending)
    BY <2>1, <1>1, <1>2, <1>3 DEF Like
  <2>2. CASE i = Len(pending) + 1
    <3>1. Queue'[i] = m /\ Queue[i] = NextMessage
      BY <2>2, <1>1, <1>2, <1>3 DEF NextMessage
    <3>2. QED BY <3>1
  <2>3. CASE i > Len(pending) + 1
    BY <2>3, <1>1, <1>2, <1>3 DEF Like
  <2>4. QED BY <2>1, <2>2, <2>3, <1>3
<1>5. QED BY <1>3, <1>4 DEF Alike

\* The other updates stay on their way.
LEMMA TakeUpdates ==
  ASSUME Inv, Take, NEW b, UpdateIn(b, pipe), NextMessage.buf # b \/ NextMessage.kind \notin Updates
  PROVE  UpdateIn(b, pipe')
<1>1. pipe \in Seq(Message) /\ pipe # <<>> /\ pipe' = Tail(pipe) /\ NextMessage = pipe[1]
  BY TakeFacts DEF Take, Inv, TypeOK
<1>2. PICK i \in DOMAIN pipe : pipe[i].buf = b /\ pipe[i].kind \in Updates
  BY DEF UpdateIn
<1>3. i # 1
  BY <1>1, <1>2
<1>4. i - 1 \in DOMAIN pipe' /\ pipe'[i - 1] = pipe[i]
  BY <1>1, <1>3
<1>5. QED BY <1>2, <1>4 DEF UpdateIn

LEMMA BlockedKeepsInv ==
  ASSUME Inv, ReceiveBlocked
  PROVE  Inv'
<1> USE DEF EditorUnchanged, editor, routing, queues, texts
<1>1. /\ Take /\ NextMessage.buf \in blocked
      /\ UNCHANGED <<version, synced, saved, told, sends, restarts>>
      /\ UNCHANGED <<routes, status, batches, blocked, dead>>
      /\ UNCHANGED <<pending, future, turn>> /\ UNCHANGED <<docs, view, early, unopened>>
  BY DEF ReceiveBlocked
<1>2. /\ pipe' \in Seq(Message) /\ Queue[Len(pending) + 1] = NextMessage
      /\ \A i \in DOMAIN pipe' : pipe'[i].version >= 1
      /\ Len(pending) + 1 \in Nat
  BY <1>1, TakeFacts
<1>3. TypeOK'
  BY <1>1, <1>2 DEF Inv, TypeOK, Due
<1>4. DidOpenFirst' /\ RoutesInv' /\ BlockedInv'
  BY <1>1 DEF Inv, DidOpenFirst, RoutesInv, BlockedInv
<1>5. Mirrored'
  BY <1>1 DEF Inv, Mirrored, AllRouted, ServersOf
<1>6. QueuesInv'
  <2>1. \A m : Queued(m)' <=> Queued(m)
    BY <1>1 DEF Queued, AllRouted, ServersOf
  <2>2. \A b : Unready(b)' <=> Unready(b)
    BY <1>1 DEF Unready, ServersOf
  <2>3. QED BY <2>1, <2>2, <1>1, <1>2 DEF Inv, QueuesInv
<1>7. InOrder(Queue, version, told)' /\ TextsInv'
  <2>1. \A b \in Buffer \ blocked' : Leaves(Len(pending) + 1, b)
    BY <1>1, <1>2 DEF Leaves
  <2>2. QED BY <2>1, <1>1, <1>2, <1>3, TakeDrops, DropKeepsOrder DEF Inv
<1>8. DueInv'
  <2> SUFFICES ASSUME turn # "future", NEW i \in DOMAIN future, Due(future[i], docs)
               PROVE  told[future[i].buf] < future[i].version \/ OnItsWay(future[i].buf)'
    BY <1>1 DEF DueInv, Due
  <2> DEFINE b == future[i].buf
  <2>1. told[b] < future[i].version \/ OnItsWay(b)
    BY DEF Inv, DueInv
  <2>2. NextMessage.buf # b
    BY <1>1 DEF Inv, BlockedInv
  <2>3. OnItsWay(b) => OnItsWay(b)'
    <3>1. UpdateIn(b, pipe) => UpdateIn(b, pipe')
      BY <2>2, <1>1, TakeUpdates
    <3>2. OnItsWay(b)' <=> UpdateIn(b, pipe') \/ UpdateIn(b, pending)
      BY <1>1 DEF OnItsWay, UpdateIn
    <3>3. QED BY <3>1, <3>2 DEF OnItsWay
  <2>4. QED BY <2>1, <2>3
<1>9. QED BY <1>3, <1>4, <1>5, <1>6, <1>7, <1>8 DEF Inv

\* Messages in the queues keep their servers, and these get no readier.
LEMMA SteadyQueues ==
  ASSUME Inv, Steady, NEW m \in Message,
         \/ \E i \in DOMAIN pending : m = pending[i]
         \/ \E i \in DOMAIN future : m = future[i]
  PROVE  /\ Queued(m)'
         /\ turn # "pending" /\ (\E i \in DOMAIN pending : m = pending[i]) => Unready(m.buf)'
         /\ (\E i \in DOMAIN future : m = future[i]) => ~Unready(m.buf)'
<1>1. TypeOK /\ m.buf \in Buffer
  BY MessageType DEF Inv
<1>2. Queued(m)
  BY DEF Inv, QueuesInv
<1>3. Queued(m)' /\ (Unready(m.buf)' <=> Unready(m.buf))
  BY <1>1, <1>2, SteadyQueued
<1>4. QED BY <1>3 DEF Inv, QueuesInv

LEMMA QueueMember ==
  ASSUME TypeOK
  PROVE  /\ \A i \in DOMAIN pending : pending[i] \in Message /\ pending[i].buf \in Buffer
         /\ \A i \in DOMAIN future : future[i] \in Message /\ future[i].buf \in Buffer
<1>1. pending \in Seq(Message) /\ future \in Seq(Message)
  BY DEF TypeOK
<1>2. \A i \in DOMAIN pending : pending[i] \in Message
  BY <1>1
<1>3. \A i \in DOMAIN future : future[i] \in Message
  BY <1>1
<1>4. QED BY <1>2, <1>3, MessageType

LEMMA UnstartableKeepsInv ==
  ASSUME Inv, NEW n \in Name, NEW done \in SUBSET Name, ReceiveUnstartable(n, done)
  PROVE  Inv'
<1> USE DEF EditorUnchanged, editor, routing, queues, texts
<1>1. PICK b \in Buffer : b = NextMessage.buf
  BY TakeFacts, MessageType DEF ReceiveUnstartable
<1>2. /\ Take /\ NextMessage.buf = b /\ b \notin blocked
      /\ n \in Started(b)
      /\ RouteNames(b, done)
      /\ status' = [s \in Server |-> IF s \in Launched(b, done) THEN "spawned" ELSE status[s]]
      /\ dead' = dead \cup {n} /\ blocked' = blocked \cup {b}
      /\ UNCHANGED <<version, synced, saved, told, sends, restarts>>
      /\ UNCHANGED <<batches, pending, future, turn>> /\ UNCHANGED <<docs, view, early, unopened>>
  BY <1>1 DEF ReceiveUnstartable
<1>3. /\ pipe' \in Seq(Message) /\ Queue[Len(pending) + 1] = NextMessage
      /\ \A i \in DOMAIN pipe' : pipe'[i].version >= 1
      /\ Len(pending) + 1 \in Nat /\ turn = "idle"
  BY <1>2, TakeFacts
<1>4. TypeOK /\ RoutesInv
  BY DEF Inv
<1>5. /\ routes' \in [Server -> Server \cup {NoServer}]
      /\ \A a \in Server : routes[a] # NoServer => routes'[a] = routes[a]
      /\ \A o \in NamesOf[b] \cap done :
           routes'[<<o, RootOf[b]>>] =
             IF o \in Missing(b) THEN Address(b, o) ELSE routes[<<o, RootOf[b]>>]
  BY <1>2, <1>4, RouteNamesRoutes
<1>6. /\ Launched(b, done) \subseteq Server
      /\ Launched(b, done) \subseteq {<<o, RootOf[b]>> : o \in NamesOf[b]}
      /\ \A s \in Launched(b, done) : status[s] = "absent" /\ routes[s] = NoServer
      /\ \A o : o \in done \cap Started(b) <=> <<o, RootOf[b]>> \in Launched(b, done)
  BY <1>4, LaunchedAbsent
<1>7. /\ \A o \in NamesOf[b] : <<o, RootOf[b]>> \in Server
      /\ Missing(b) \subseteq NamesOf[b] /\ Started(b) \subseteq Missing(b)
      /\ \A o \in Missing(b) : Address(b, o) \in Server
      /\ NoServer \notin Server
  BY RouteType
<1>8. status \in [Server -> Statuses] /\ status' \in [Server -> Statuses]
  BY <1>2, <1>4 DEF TypeOK, Statuses
<1>9. Steady
  BY <1>2, <1>5, <1>6, <1>8 DEF Steady
<1>10. RoutesInv'
  <2>1. ASSUME NEW a \in Server, status'[a] # "absent" PROVE routes'[a] # NoServer
    <3>1. CASE a \in Launched(b, done)
      <4>1. PICK o \in NamesOf[b] : a = <<o, RootOf[b]>>
        BY <3>1, <1>6
      <4>2. o \in done \cap Started(b)
        BY <3>1, <4>1, <1>6
      <4>3. routes'[a] \in Server
        BY <4>1, <4>2, <1>5, <1>7
      <4>4. QED BY <4>3, <1>7
    <3>2. CASE a \notin Launched(b, done)
      <4>1. status[a] # "absent"
        BY <3>2, <2>1, <1>2
      <4>2. QED BY <4>1, <1>4, <1>5 DEF RoutesInv
    <3>3. QED BY <3>1, <3>2
  <2>2. \A c \in batches : \A s \in c : s \in Server /\ status[s] = "initializing"
    BY <1>4, RouteType DEF TypeOK, RoutesInv, Batch
  <2>3. \A c \in batches' : \A s \in c : status'[s] = "initializing"
    BY <2>2, <1>2, <1>6
  <2>4. QED BY <2>1, <2>3, <1>2, <1>4 DEF RoutesInv
<1>11. ~AllRouted(b)
  BY <1>2, <1>7 DEF AllRouted, Missing
<1>12. /\ docs[b] = NoDoc
       /\ \A i \in DOMAIN pending : pending[i].buf # b
       /\ \A i \in DOMAIN future : future[i].buf # b
  BY <1>11 DEF Inv, Mirrored, QueuesInv, Queued
<1>13. TypeOK'
  BY <1>2, <1>3, <1>4, <1>5, <1>8 DEF TypeOK, Due
<1>14. DidOpenFirst' /\ BlockedInv'
  BY <1>2, <1>12 DEF Inv, DidOpenFirst, BlockedInv
<1>15. Mirrored'
  BY <1>2, <1>4, <1>9, SteadyMirrored DEF Inv
<1>16. QueuesInv'
  <2>1. \A i \in DOMAIN pending : Queued(pending[i])' /\ Unready(pending[i].buf)'
    BY <1>2, <1>3, <1>4, <1>9, SteadyQueues, QueueMember
  <2>2. \A i \in DOMAIN future : Queued(future[i])' /\ ~Unready(future[i].buf)'
    BY <1>2, <1>4, <1>9, SteadyQueues, QueueMember
  <2>3. QED BY <2>1, <2>2, <1>2, <1>3 DEF Inv, QueuesInv
<1>17. InOrder(Queue, version, told)' /\ TextsInv'
  <2>1. \A c \in Buffer \ blocked' : Leaves(Len(pending) + 1, c)
    BY <1>2, <1>3 DEF Leaves
  <2>2. QED BY <2>1, <1>2, <1>3, <1>4, <1>13, TakeDrops, DropKeepsOrder DEF Inv
<1>18. DueInv'
  <2> SUFFICES ASSUME NEW i \in DOMAIN future, Due(future[i], docs)
               PROVE  told[future[i].buf] < future[i].version \/ OnItsWay(future[i].buf)'
    BY <1>2 DEF DueInv, Due
  <2> DEFINE c == future[i].buf
  <2>1. told[c] < future[i].version \/ OnItsWay(c)
    BY <1>3 DEF Inv, DueInv
  <2>2. NextMessage.buf # c
    BY <1>2, <1>12
  <2>3. OnItsWay(c) => OnItsWay(c)'
    <3>1. UpdateIn(c, pipe) => UpdateIn(c, pipe')
      BY <2>2, <1>2, TakeUpdates
    <3>2. OnItsWay(c)' <=> UpdateIn(c, pipe') \/ UpdateIn(c, pending)
      BY <1>2 DEF OnItsWay, UpdateIn
    <3>3. QED BY <3>1, <3>2 DEF OnItsWay
  <2>4. QED BY <2>1, <2>3
<1>19. QED BY <1>10, <1>13, <1>14, <1>15, <1>16, <1>17, <1>18 DEF Inv

\* A message is parked and one for the future put aside about different buffers:
\* the servers of a buffer are all ready, or they are not.
LEMMA RoutedReady ==
  ASSUME Inv, turn # "pending", NEW b \in Buffer, Route(b), NEW m \in Message, m.buf = b
  PROVE  /\ AllReady(Routed(m)) <=> ~Unready(b)'
         /\ ~AllReady(Routed(m)) => \A i \in DOMAIN future : future[i].buf # b
         /\ AllReady(Routed(m)) => \A i \in DOMAIN pending : pending[i].buf # b
<1>1. /\ Steady /\ AllRouted(b)' /\ Routed(m).servers = ServersOf(b)' /\ Routed(m) \in Message
  BY RouteFacts DEF Inv
<1>2. Routed(m).servers \subseteq Server
  BY <1>1 DEF Message
<1>3. AllReady(Routed(m)) <=> ~Unready(b)'
  BY <1>1, <1>2 DEF AllReady, Unready, Steady
<1>4. ASSUME NEW i \in DOMAIN future, future[i].buf = b
      PROVE  ~Unready(b)'
  <2>1. Queued(future[i]) /\ ~Unready(b)
    BY <1>4 DEF Inv, QueuesInv
  <2>2. future[i] \in Message /\ TypeOK
    BY QueueMember DEF Inv
  <2>3. Unready(b)' <=> Unready(b)
    BY <2>1, <2>2, <1>1, <1>4, SteadyQueued
  <2>4. QED BY <2>1, <2>3
<1>5. ASSUME NEW i \in DOMAIN pending, pending[i].buf = b
      PROVE  Unready(b)'
  <2>1. Queued(pending[i]) /\ Unready(b)
    BY <1>5 DEF Inv, QueuesInv
  <2>2. pending[i] \in Message /\ TypeOK
    BY QueueMember DEF Inv
  <2>3. Unready(b)' <=> Unready(b)
    BY <2>1, <2>2, <1>1, <1>5, SteadyQueued
  <2>4. QED BY <2>1, <2>3
<1>6. QED BY <1>3, <1>4, <1>5

LEMMA ParkedKeepsInv ==
  ASSUME Inv, ReceiveParked
  PROVE  Inv'
<1> USE DEF EditorUnchanged, editor, texts
<1>1. PICK b \in Buffer : b = NextMessage.buf
  BY TakeFacts, MessageType DEF ReceiveParked
<1>2. PICK m \in Message : m = NextMessage
  BY TakeFacts DEF ReceiveParked
<1>3. PICK p : p = Routed(m)
  OBVIOUS
<1>4. /\ Take /\ Route(b) /\ ~AllReady(Routed(m)) /\ m.buf = b
      /\ b \notin blocked /\ UNCHANGED <<blocked, dead>>
      /\ pending' = Append(pending, p)
      /\ UNCHANGED <<version, synced, saved, told, sends, restarts>>
      /\ UNCHANGED <<future, turn>> /\ UNCHANGED <<docs, view, early, unopened>>
  BY <1>1, <1>2, <1>3 DEF ReceiveParked, Route
<1>5. /\ routes' \in [Server -> Server \cup {NoServer}]
      /\ status' \in [Server -> Statuses] /\ batches' \subseteq Batch
      /\ Steady /\ RoutesInv'
      /\ AllRouted(b)' /\ p \in Message
      /\ p.servers = ServersOf(b)' /\ Like(p, m)
  BY <1>3, <1>4, RouteFacts DEF Inv
<1>6. /\ pipe' \in Seq(Message) /\ pipe' = Tail(pipe) /\ turn = "idle"
      /\ \A i \in DOMAIN pipe' : pipe'[i].version >= 1
      /\ pipe \in Seq(Message) /\ Len(pipe) \in Nat \ {0} /\ m = pipe[1]
  BY <1>2, <1>4, TakeFacts DEF Inv, TypeOK
<1>7. /\ pending \in Seq(Message) /\ pending' \in Seq(Message) /\ Len(pending) \in Nat
      /\ DOMAIN pending' = 1..Len(pending) + 1
      /\ \A i \in DOMAIN pending : i \in DOMAIN pending' /\ pending'[i] = pending[i]
      /\ pending'[Len(pending) + 1] = p
      /\ \A i \in DOMAIN pending' : i \in DOMAIN pending \/ i = Len(pending) + 1
  BY <1>4, <1>5 DEF Inv, TypeOK
<1>8. p.buf = b /\ p.kind = m.kind
  BY <1>4, <1>5 DEF Like
<1>9. Unready(b)' /\ \A i \in DOMAIN future : future[i].buf # b
  BY <1>4, <1>6, RoutedReady
<1>10. TypeOK'
  BY <1>4, <1>5, <1>6, <1>7 DEF Inv, TypeOK, Due
<1>11. DidOpenFirst'
  BY <1>4 DEF Inv, DidOpenFirst
<1>12. BlockedInv'
  BY <1>4, <1>7, <1>8 DEF Inv, BlockedInv
<1>13. Mirrored'
  BY <1>4, <1>5, SteadyMirrored DEF Inv
<1>14. QueuesInv'
  <2>0. PICK q : q = pending'
    OBVIOUS
  <2>1. \A i \in DOMAIN q : Queued(q[i])' /\ Unready(q[i].buf)'
    <3>1. Queued(p)' /\ Unready(p.buf)'
      BY <1>5, <1>8, <1>9 DEF Queued
    <3>2. ASSUME NEW x \in Message, \E i \in DOMAIN pending : x = pending[i]
          PROVE  Queued(x)' /\ Unready(x.buf)'
      BY <3>2, <1>5, <1>6, SteadyQueues
    <3>3. \A i \in DOMAIN pending : pending[i] \in Message
      BY <1>7, <2>0
    <3>4. ASSUME NEW i \in DOMAIN q
          PROVE  Queued(q[i])' /\ Unready(q[i].buf)'
      <4>1. CASE i = Len(pending) + 1
        BY <4>1, <3>1, <1>7, <2>0
      <4>2. CASE i \in DOMAIN pending
        <5>1. q[i] \in Message /\ \E j \in DOMAIN pending : q[i] = pending[j]
          BY <4>2, <3>3, <1>7, <2>0
        <5>2. QED BY <5>1, <3>2
      <4>3. QED BY <4>1, <4>2, <1>7, <2>0
    <3>5. QED BY <3>4
  <2>2. \A i \in DOMAIN future : Queued(future[i])' /\ ~Unready(future[i].buf)'
    BY <1>4, <1>5, SteadyQueues, QueueMember DEF Inv
  <2>3. \A i \in DOMAIN future : \A j \in DOMAIN q : q[j].buf # future[i].buf
    BY <1>7, <2>0, <1>8, <1>9 DEF Inv, QueuesInv
  <2>4. QED BY <2>0, <2>1, <2>2, <2>3, <1>4, <1>6 DEF Inv, QueuesInv
<1>15. InOrder(Queue, version, told)' /\ TextsInv'
  <2>1. Alike(Queue, Queue') /\ Queue \in Seq(Message) /\ Queue' \in Seq(Message)
    <3>1. Alike(Queue, Queue')
      BY <1>2, <1>4, <1>5, TakeParks
    <3>2. Queue' \in Seq(Message)
      BY <1>6, <1>7 DEF Queue
    <3>3. QED BY <3>1, <3>2, QueueType DEF Inv
  <2>2. ASSUME NEW c \in Buffer \ blocked
        PROVE  /\ Grows(Queue', c, docs[c].version, version[c])
               /\ told[c] > 0 => LastIs(Queue', c, docs[c].version, told[c])
               /\ restarts = 0 => AllOpen(Queue', c, docs[c], version[c])
    <3>1. /\ Grows(Queue, c, docs[c].version, version[c])
          /\ told[c] > 0 => LastIs(Queue, c, docs[c].version, told[c])
          /\ restarts = 0 => AllOpen(Queue, c, docs[c], version[c])
      BY DEF Inv, InOrder
    <3>2. docs[c].version \in Int /\ version[c] \in Nat /\ told[c] \in Nat
      BY DocVersion DEF Inv, TypeOK
    <3>3. QED BY <2>1, <3>1, <3>2, AlikeKeeps
  <2>3. QED BY <2>2, <1>4 DEF Inv, InOrder, TextsInv
<1>16. DueInv'
  <2> SUFFICES ASSUME NEW i \in DOMAIN future, Due(future[i], docs)
               PROVE  told[future[i].buf] < future[i].version \/ OnItsWay(future[i].buf)'
    BY <1>4 DEF DueInv, Due
  <2> DEFINE c == future[i].buf
  <2>1. told[c] < future[i].version \/ OnItsWay(c)
    BY <1>6 DEF Inv, DueInv
  <2>2. NextMessage.buf # c
    BY <1>1, <1>9
  <2>3. OnItsWay(c) => OnItsWay(c)'
    <3>1. UpdateIn(c, pipe) => UpdateIn(c, pipe')
      BY <2>2, <1>4, TakeUpdates
    <3>2. UpdateIn(c, pending) => UpdateIn(c, pending')
      BY <1>7 DEF UpdateIn
    <3>3. OnItsWay(c)' <=> UpdateIn(c, pipe') \/ UpdateIn(c, pending')
      BY <1>4 DEF OnItsWay, UpdateIn
    <3>4. QED BY <3>1, <3>2, <3>3 DEF OnItsWay
  <2>4. QED BY <2>1, <2>3
<1>17. QED BY <1>5, <1>10, <1>11, <1>12, <1>13, <1>14, <1>15, <1>16 DEF Inv

LEMMA AheadKeepsInv ==
  ASSUME Inv, ReceiveAhead
  PROVE  Inv'
<1> USE DEF EditorUnchanged, editor, texts
<1>1. PICK b \in Buffer : b = NextMessage.buf
  BY TakeFacts, MessageType DEF ReceiveAhead
<1>2. PICK m \in Message : m = NextMessage
  BY TakeFacts DEF ReceiveAhead
<1>3. PICK p : p = Routed(m)
  OBVIOUS
<1>4. /\ Take /\ Route(b) /\ AllReady(Routed(m)) /\ m.buf = b
      /\ AheadOfText(m) /\ m.kind = "request"
      /\ b \notin blocked /\ UNCHANGED <<blocked, dead>>
      /\ future' = Append(future, p)
      /\ UNCHANGED <<version, synced, saved, told, sends, restarts>>
      /\ UNCHANGED <<pending, turn>> /\ UNCHANGED <<docs, view, early, unopened>>
  BY <1>1, <1>2, <1>3 DEF ReceiveAhead, Route, AheadOfText
<1>5. /\ routes' \in [Server -> Server \cup {NoServer}]
      /\ status' \in [Server -> Statuses] /\ batches' \subseteq Batch
      /\ Steady /\ RoutesInv'
      /\ AllRouted(b)' /\ p \in Message
      /\ p.servers = ServersOf(b)' /\ Like(p, m)
  BY <1>3, <1>4, RouteFacts DEF Inv
<1>6. /\ pipe' \in Seq(Message) /\ turn = "idle" /\ m.version >= 1
      /\ \A i \in DOMAIN pipe' : pipe'[i].version >= 1
      /\ Len(pending) + 1 \in Nat /\ Queue[Len(pending) + 1] = m
  BY <1>2, <1>4, TakeFacts
<1>7. /\ future \in Seq(Message) /\ future' \in Seq(Message) /\ Len(future) \in Nat
      /\ DOMAIN future' = 1..Len(future) + 1
      /\ \A i \in DOMAIN future : i \in DOMAIN future' /\ future'[i] = future[i]
      /\ future'[Len(future) + 1] = p
      /\ \A i \in DOMAIN future' : i \in DOMAIN future \/ i = Len(future) + 1
  BY <1>4, <1>5 DEF Inv, TypeOK
<1>8. p.buf = b /\ p.kind = "request" /\ p.version = m.version /\ p.version >= 1
  BY <1>4, <1>5, <1>6 DEF Like
<1>9. ~Unready(b)' /\ \A i \in DOMAIN pending : pending[i].buf # b
  BY <1>4, <1>6, RoutedReady
<1>10. TypeOK'
  BY <1>4, <1>5, <1>6, <1>7 DEF Inv, TypeOK
<1>11. DidOpenFirst'
  BY <1>4 DEF Inv, DidOpenFirst
<1>12. BlockedInv'
  BY <1>4, <1>7, <1>8 DEF Inv, BlockedInv
<1>13. Mirrored'
  BY <1>4, <1>5, SteadyMirrored DEF Inv
<1>14. QueuesInv'
  <2>0. PICK q : q = future'
    OBVIOUS
  <2>1. \A i \in DOMAIN q : Queued(q[i])' /\ ~Unready(q[i].buf)'
    <3>1. Queued(p)' /\ ~Unready(p.buf)'
      BY <1>5, <1>8, <1>9 DEF Queued
    <3>2. ASSUME NEW x \in Message, \E i \in DOMAIN future : x = future[i]
          PROVE  Queued(x)' /\ ~Unready(x.buf)'
      BY <3>2, <1>5, SteadyQueues
    <3>3. \A i \in DOMAIN future : future[i] \in Message
      BY <1>7, <2>0
    <3>4. ASSUME NEW i \in DOMAIN q
          PROVE  Queued(q[i])' /\ ~Unready(q[i].buf)'
      <4>1. CASE i = Len(future) + 1
        BY <4>1, <3>1, <1>7, <2>0
      <4>2. CASE i \in DOMAIN future
        <5>1. q[i] \in Message /\ \E j \in DOMAIN future : q[i] = future[j]
          BY <4>2, <3>3, <1>7, <2>0
        <5>2. QED BY <5>1, <3>2
      <4>3. QED BY <4>1, <4>2, <1>7, <2>0
    <3>5. QED BY <3>4
  <2>2. \A i \in DOMAIN pending : Queued(pending[i])' /\ Unready(pending[i].buf)'
    BY <1>4, <1>5, <1>6, SteadyQueues, QueueMember DEF Inv
  <2>3. \A i \in DOMAIN q : \A j \in DOMAIN pending : pending[j].buf # q[i].buf
    BY <1>7, <2>0, <1>8, <1>9 DEF Inv, QueuesInv
  <2>4. \A i \in DOMAIN q : q[i].kind = "request" /\ q[i].version >= 1
    BY <1>7, <2>0, <1>8 DEF Inv, QueuesInv
  <2>5. QED BY <2>0, <2>1, <2>2, <2>3, <2>4, <1>4, <1>6 DEF QueuesInv
<1>15. InOrder(Queue, version, told)' /\ TextsInv'
  <2>1. \A c \in Buffer \ blocked' : Leaves(Len(pending) + 1, c)
    BY <1>4, <1>6 DEF Leaves, Updates
  <2>2. QED BY <2>1, <1>4, <1>6, <1>10, TakeDrops, DropKeepsOrder DEF Inv
<1>16. DueInv'
  <2>1. ~Due(p, docs)
    <3>1. docs[b] = NoDoc \/ docs[b].version < m.version
      BY <1>4 DEF AheadOfText
    <3>2. m.version \in Nat /\ (docs[b] # NoDoc => docs[b].version \in Nat)
      BY MessageType, DocVersion DEF Inv
    <3>3. QED BY <3>1, <3>2, <1>8 DEF Due
  <2>2. ASSUME NEW i \in DOMAIN future, Due(future[i], docs)
        PROVE  told[future[i].buf] < future[i].version \/ OnItsWay(future[i].buf)'
    <3> DEFINE c == future[i].buf
    <3>1. told[c] < future[i].version \/ OnItsWay(c)
      BY <2>2, <1>6 DEF Inv, DueInv
    <3>2. OnItsWay(c) => OnItsWay(c)'
      <4>1. UpdateIn(c, pipe) => UpdateIn(c, pipe')
        BY <1>2, <1>4, TakeUpdates DEF Updates
      <4>2. OnItsWay(c)' <=> UpdateIn(c, pipe') \/ UpdateIn(c, pending)
        BY <1>4 DEF OnItsWay, UpdateIn
      <4>3. QED BY <4>1, <4>2 DEF OnItsWay
    <3>3. QED BY <3>1, <3>2
  <2>3. PICK q : q = future'
    OBVIOUS
  <2>4. ASSUME NEW i \in DOMAIN q, Due(q[i], docs)
        PROVE  told[q[i].buf] < q[i].version \/ OnItsWay(q[i].buf)'
    <3>1. i \in DOMAIN future /\ q[i] = future[i]
      BY <2>1, <2>3, <2>4, <1>7
    <3>2. QED BY <3>1, <2>2, <2>4, <1>4
  <2>5. QED BY <2>3, <2>4, <1>4 DEF DueInv, Due
<1>17. QED BY <1>5, <1>10, <1>11, <1>12, <1>13, <1>14, <1>15, <1>16 DEF Inv

\* With no update on its way, the document is of the last one.
LEMMA NothingOnItsWay ==
  ASSUME TypeOK, InOrder(Queue, version, told), NEW b \in Buffer \ blocked,
         told[b] > 0, ~OnItsWay(b)
  PROVE  docs[b].version = told[b]
<1>1. pending \in Seq(Message) /\ pipe \in Seq(Message)
  BY DEF TypeOK
<1>2. /\ Len(Queue) = Len(pending) + Len(pipe) /\ Len(pending) \in Nat /\ Len(pipe) \in Nat
      /\ \A i \in 1..Len(pending) : Queue[i] = pending[i]
      /\ \A i \in 1..Len(pipe) : Queue[Len(pending) + i] = pipe[i]
  BY <1>1, QueueType
<1>3. ASSUME NEW x \in 1..Len(Queue), Updating(Queue, b, x)
      PROVE  FALSE
  <2>1. CASE x <= Len(pending)
    <3>1. x \in DOMAIN pending /\ pending[x].buf = b /\ pending[x].kind \in Updates
      BY <2>1, <1>1, <1>2, <1>3 DEF Updating
    <3>2. QED BY <3>1 DEF OnItsWay, UpdateIn
  <2>2. CASE x > Len(pending)
    <3>1. x - Len(pending) \in 1..Len(pipe) /\ x = Len(pending) + (x - Len(pending))
      BY <2>2, <1>2
    <3>2. Queue[x] = pipe[x - Len(pending)]
      BY <3>1, <1>2
    <3>3. /\ x - Len(pending) \in DOMAIN pipe
          /\ pipe[x - Len(pending)].buf = b /\ pipe[x - Len(pending)].kind \in Updates
      BY <3>1, <3>2, <1>1, <1>2, <1>3 DEF Updating
    <3>4. QED BY <3>3 DEF OnItsWay, UpdateIn
  <2>3. QED BY <2>1, <2>2, <1>2
<1>4. LastIs(Queue, b, docs[b].version, told[b])
  BY DEF InOrder
<1>5. 0 \in 0..Len(Queue) /\ Updating(Queue, b, 0)
  BY <1>2 DEF Updating
<1>6. \A x \in 0 + 1..Len(Queue) : ~Updating(Queue, b, x)
  BY <1>3
<1>7. VersionAt(Queue, docs[b].version, 0, 0) = told[b]
  BY <1>4, <1>5, <1>6 DEF LastIs
<1>8. QED BY <1>7 DEF VersionAt

LEMMA DispatchedKeepsInv ==
  ASSUME Inv, ReceiveDispatched
  PROVE  Inv'
<1> USE DEF EditorUnchanged, editor, texts
<1>1. PICK b \in Buffer : b = NextMessage.buf
  BY TakeFacts, MessageType DEF ReceiveDispatched
<1>2. PICK m \in Message : m = NextMessage
  BY TakeFacts DEF ReceiveDispatched
<1>3. PICK p : p = Routed(m)
  OBVIOUS
<1>4. /\ Take /\ Route(b) /\ AllReady(Routed(m)) /\ m.buf = b
      /\ Dispatch(p)
      /\ turn' = IF m.kind \in Updates /\ AnyDue THEN "future" ELSE "idle"
      /\ b \notin blocked /\ UNCHANGED <<blocked, dead>>
      /\ UNCHANGED <<version, synced, saved, told, sends, restarts>>
      /\ UNCHANGED <<pending, future>>
  BY <1>1, <1>2, <1>3 DEF ReceiveDispatched, Route
<1>5. /\ routes' \in [Server -> Server \cup {NoServer}]
      /\ status' \in [Server -> Statuses] /\ batches' \subseteq Batch
      /\ Steady /\ RoutesInv'
      /\ AllRouted(b)' /\ p \in Message
      /\ p.servers = ServersOf(b)' /\ Like(p, m)
  BY <1>3, <1>4, RouteFacts DEF Inv
<1>6. /\ pipe' \in Seq(Message) /\ turn = "idle" /\ m.version >= 1
      /\ \A i \in DOMAIN pipe' : pipe'[i].version >= 1
      /\ Len(pending) + 1 \in Nat /\ Queue[Len(pending) + 1] = m
      /\ Len(pending) + 1 \in 1..Len(Queue)
  BY <1>2, <1>4, TakeFacts
<1>7. p.buf = b /\ p.kind = m.kind
  BY <1>4, <1>5 DEF Like
<1>8. \A i \in DOMAIN pending : pending[i].buf # b
  BY <1>4, <1>6, RoutedReady
<1>9. /\ docs' = [docs EXCEPT ![b] = DocAfter(p, docs[b])]
      /\ docs' \in [Buffer -> Doc \cup {NoDoc}]
      /\ view' \in [Server -> [Buffer -> Doc \cup {NoDoc}]]
      /\ early' \subseteq Server
      /\ DidOpenFirst' /\ Mirrored'
  BY <1>4, <1>5, <1>7, DispatchFacts DEF Inv
<1>10. /\ docs'[b] = DocAfter(m, docs[b])
       /\ \A c \in Buffer : c # b => docs'[c] = docs[c]
  <2>1. docs'[b] = DocAfter(p, docs[b])
    BY <1>9 DEF Inv, TypeOK
  <2>2. DocAfter(p, docs[b]) = DocAfter(m, docs[b])
    BY <1>5, DocAfterLike
  <2>3. QED BY <2>1, <2>2, <1>9 DEF Inv, TypeOK
<1>11. TypeOK'
  <2>1. turn' \in {"idle", "future"}
    BY <1>4
  <2>2. turn' = "future" => \E i \in DOMAIN future' : Due(future'[i], docs')
    BY <1>4 DEF AnyDue
  <2>3. unopened' \subseteq Server \X Buffer
    BY <1>9 DEF DidOpenFirst
  <2>4. (turn = "future" => \E i \in DOMAIN future : Due(future[i], docs))'
    BY <2>2 DEF Due
  <2>5. QED BY <2>1, <2>3, <2>4, <1>4, <1>5, <1>6, <1>9 DEF Inv, TypeOK
<1>12. BlockedInv'
  BY <1>4, <1>10 DEF Inv, BlockedInv, TypeOK
<1>13. QueuesInv'
  <2>1. \A i \in DOMAIN pending : Queued(pending[i])' /\ Unready(pending[i].buf)'
    BY <1>4, <1>5, <1>6, SteadyQueues, QueueMember DEF Inv
  <2>2. \A i \in DOMAIN future : Queued(future[i])' /\ ~Unready(future[i].buf)'
    BY <1>4, <1>5, SteadyQueues, QueueMember DEF Inv
  <2>3. QED BY <2>1, <2>2, <1>4, <1>6 DEF Inv, QueuesInv
<1>14. InOrder(Queue, version, told)' /\ TextsInv'
  <2>1. FirstOf(Queue, b, Len(pending) + 1)
    <3>1. \A i \in 1..Len(pending) : Queue[i] = pending[i] /\ i \in DOMAIN pending
      <4>1. \A i \in 1..Len(pending) : Queue[i] = pending[i]
        BY QueueType DEF Inv
      <4>2. DOMAIN pending = 1..Len(pending)
        BY DEF Inv, TypeOK
      <4>3. QED BY <4>1, <4>2
    <3>2. Len(pending) \in Nat
      BY DEF Inv, TypeOK
    <3>3. QED BY <3>1, <3>2, <1>8 DEF FirstOf
  <2>2. \A c \in Buffer \ blocked' : Leaves(Len(pending) + 1, c)
    BY <2>1, <1>4, <1>6, <1>10 DEF Leaves
  <2>3. QED BY <2>2, <1>4, <1>6, <1>11, TakeDrops, DropKeepsOrder DEF Inv
<1>15. DueInv'
  <2> SUFFICES ASSUME turn' # "future", NEW i \in DOMAIN future, Due(future[i], docs')
               PROVE  told[future[i].buf] < future[i].version \/ OnItsWay(future[i].buf)'
    BY <1>4 DEF DueInv, Due
  <2> DEFINE c == future[i].buf
  <2>1. m.kind \notin Updates
    BY <1>4 DEF AnyDue
  <2>2. OnItsWay(c) => OnItsWay(c)'
    <3>1. UpdateIn(c, pipe) => UpdateIn(c, pipe')
      BY <2>1, <1>2, <1>4, TakeUpdates
    <3>2. OnItsWay(c)' <=> UpdateIn(c, pipe') \/ UpdateIn(c, pending)
      BY <1>4 DEF OnItsWay, UpdateIn
    <3>3. QED BY <3>1, <3>2 DEF OnItsWay
  <2>3. c \in Buffer /\ future[i].version >= 1 /\ future[i].version \in Nat
    BY QueueMember, MessageType DEF Inv, QueuesInv
  <2>4. CASE docs'[c] = docs[c]
    <3>1. Due(future[i], docs)
      BY <2>4 DEF Due
    <3>2. told[c] < future[i].version \/ OnItsWay(c)
      BY <3>1, <1>6 DEF Inv, DueInv
    <3>3. QED BY <3>2, <2>2
  <2>5. CASE docs'[c] # docs[c]
    <3>1. c = b
      BY <2>3, <2>5, <1>10
    <3>2. m.kind # "didClose"
      <4>1. m.kind = "didClose" => docs'[b] = NoDoc
        BY <1>10 DEF DocAfter
      <4>2. QED BY <3>1, <4>1 DEF Due
    <3>3. docs[b] = NoDoc
      <4>1. m.kind \notin Updates \cup {"didClose"} /\ docs[b] # NoDoc =>
              DocAfter(m, docs[b]) = docs[b]
        BY <1>4, DocAfterFacts DEF Inv
      <4>2. QED BY <4>1, <2>1, <2>5, <3>1, <3>2, <1>10
    <3>4. told[b] \in Nat /\ docs[b].version = -1
      BY <3>3, DocVersion DEF Inv, TypeOK
    <3>5. CASE told[b] = 0
      BY <3>1, <3>5, <2>3
    <3>6. CASE told[b] > 0
      <4>1. OnItsWay(b)
        BY <3>4, <3>6, <1>4, NothingOnItsWay DEF Inv
      <4>2. QED BY <4>1, <3>1, <2>2
    <3>7. QED BY <3>4, <3>5, <3>6
  <2>6. QED BY <2>4, <2>5
<1>16. QED BY <1>5, <1>9, <1>11, <1>12, <1>13, <1>14, <1>15 DEF Inv

-----------------------------------------------------------------------------
(***************************************************************************)
(* Flushing the queues.                                                    *)
(***************************************************************************)

LEMMA PopDrops ==
  ASSUME TypeOK, pending # <<>>, pending' = Tail(pending), pipe' = pipe
  PROVE  /\ Dropped(Queue, 1, Queue') /\ Queue[1] = Head(pending)
         /\ pending' \in Seq(Message) /\ Len(pending) \in Nat \ {0} /\ Len(pending') = Len(pending) - 1
         /\ 1 \in DOMAIN pending /\ Head(pending) = pending[1]
         /\ \A i \in DOMAIN pending' : i + 1 \in DOMAIN pending /\ pending'[i] = pending[i + 1]
         /\ \A i \in DOMAIN pending : i # 1 => i - 1 \in DOMAIN pending'
<1>1. pipe \in Seq(Message) /\ pending \in Seq(Message)
  BY DEF TypeOK
<1>2. /\ pending' \in Seq(Message) /\ Len(pending) \in Nat \ {0}
      /\ Len(pending') = Len(pending) - 1 /\ Len(pipe) \in Nat
      /\ 1 \in DOMAIN pending /\ Head(pending) = pending[1]
      /\ \A i \in DOMAIN pending' : i + 1 \in DOMAIN pending /\ pending'[i] = pending[i + 1]
      /\ \A i \in DOMAIN pending : i # 1 => i - 1 \in DOMAIN pending'
  BY <1>1
<1>3. Queue = pending \o pipe /\ Queue' = pending' \o pipe
  BY DEF Queue
<1>4. Len(Queue) = Len(pending) + Len(pipe) /\ Len(Queue') = Len(Queue) - 1
  BY <1>1, <1>2, <1>3
<1>5. ASSUME NEW i \in 1..Len(Queue')
      PROVE  Queue'[i] = Queue[i + 1]
  <2>1. CASE i <= Len(pending')
    BY <2>1, <1>1, <1>2, <1>3, <1>4
  <2>2. CASE i > Len(pending')
    <3>1. Queue'[i] = pipe[i - Len(pending')] /\ Queue[i + 1] = pipe[i + 1 - Len(pending)]
      BY <2>2, <1>1, <1>2, <1>3, <1>4
    <3>2. QED BY <3>1, <1>2
  <2>3. QED BY <2>1, <2>2, <1>2, <1>4
<1>6. Dropped(Queue, 1, Queue')
  BY <1>2, <1>4, <1>5 DEF Dropped, At, Like
<1>7. QED BY <1>1, <1>2, <1>3, <1>6

LEMMA PendingKeepsInv ==
  ASSUME Inv, DispatchPending
  PROVE  Inv'
<1> USE DEF EditorUnchanged, editor, routing, texts
<1>1. pending # <<>>
  BY DEF DispatchPending, Inv, TypeOK
<1>2. PICK m \in Message : m = Head(pending)
  BY <1>1 DEF Inv, TypeOK
<1>3. PICK b \in Buffer : b = m.buf
  BY MessageType
<1>4. /\ turn = "pending" /\ Dispatch(m) /\ m.buf = b
      /\ pending' = Tail(pending)
      /\ turn' = IF Len(pending) = 1 THEN "idle" ELSE "pending"
      /\ UNCHANGED <<version, synced, saved, told, sends, restarts>>
      /\ UNCHANGED <<pipe, routes, status, batches, blocked, dead, future>>
  BY <1>2, <1>3 DEF DispatchPending
<1>5. /\ Dropped(Queue, 1, Queue') /\ Queue[1] = m
      /\ pending' \in Seq(Message) /\ Len(pending) \in Nat \ {0} /\ Len(pending') = Len(pending) - 1
      /\ 1 \in DOMAIN pending /\ m = pending[1]
      /\ \A i \in DOMAIN pending' : i + 1 \in DOMAIN pending /\ pending'[i] = pending[i + 1]
      /\ \A i \in DOMAIN pending : i # 1 => i - 1 \in DOMAIN pending'
  BY <1>1, <1>2, <1>4, PopDrops DEF Inv
<1>6. b \notin blocked /\ \A i \in DOMAIN future : future[i].buf # b
  BY <1>4, <1>5 DEF Inv, BlockedInv, QueuesInv
<1>7. Queued(m) /\ Steady
  BY <1>4, <1>5 DEF Inv, QueuesInv, Steady
<1>8. m.servers = ServersOf(b)' /\ AllRouted(b)'
  BY <1>4, <1>7 DEF Queued, ServersOf, AllRouted
<1>9. routes' \in [Server -> Server \cup {NoServer}]
  BY <1>4 DEF Inv, TypeOK
<1>10. /\ docs' = [docs EXCEPT ![b] = DocAfter(m, docs[b])]
       /\ docs' \in [Buffer -> Doc \cup {NoDoc}]
       /\ view' \in [Server -> [Buffer -> Doc \cup {NoDoc}]]
       /\ early' \subseteq Server
       /\ DidOpenFirst' /\ Mirrored'
  BY <1>4, <1>7, <1>8, <1>9, DispatchFacts DEF Inv
<1>11. /\ docs'[b] = DocAfter(m, docs[b])
       /\ \A c \in Buffer : c # b => docs'[c] = docs[c]
  BY <1>10 DEF Inv, TypeOK
<1>12. TypeOK'
  <2>1. turn' \in {"idle", "pending"} /\ (turn' = "pending" => pending' # <<>>)
    BY <1>4, <1>5
  <2>2. unopened' \subseteq Server \X Buffer
    BY <1>10 DEF DidOpenFirst
  <2>3. QED BY <2>1, <2>2, <1>4, <1>5, <1>9, <1>10 DEF Inv, TypeOK
<1>13. RoutesInv'
  BY <1>4 DEF Inv, RoutesInv
<1>14. BlockedInv'
  <2>1. SUFFICES ASSUME NEW c \in blocked
                 PROVE  /\ docs'[c] = NoDoc
                        /\ \A i \in DOMAIN pending' : pending'[i].buf # c
                        /\ \A i \in DOMAIN future : future[i].buf # c
    BY <1>4 DEF BlockedInv
  <2>2. /\ docs[c] = NoDoc
        /\ \A i \in DOMAIN pending : pending[i].buf # c
        /\ \A i \in DOMAIN future : future[i].buf # c
    BY DEF Inv, BlockedInv
  <2>3. c \in Buffer /\ c # b
    BY <1>6 DEF Inv, TypeOK
  <2>4. docs'[c] = NoDoc
    BY <2>2, <2>3, <1>11
  <2>5. \A i \in DOMAIN pending' : pending'[i].buf # c
    BY <2>2, <1>5
  <2>6. QED BY <2>2, <2>4, <2>5
<1>15. QueuesInv'
  <2>1. \A x : Queued(x)' <=> Queued(x)
    BY <1>4 DEF Queued, AllRouted, ServersOf
  <2>2. \A c : Unready(c)' <=> Unready(c)
    BY <1>4 DEF Unready, ServersOf
  <2>3. turn' # "pending" => DOMAIN pending' = {}
    BY <1>4, <1>5
  <2>4. QED BY <2>1, <2>2, <2>3, <1>4, <1>5 DEF Inv, QueuesInv
<1>16. InOrder(Queue, version, told)' /\ TextsInv'
  <2>1. \A c \in Buffer \ blocked' : Leaves(1, c)
    BY <1>4, <1>5, <1>11 DEF Leaves, FirstOf
  <2>2. QED BY <2>1, <1>4, <1>5, <1>12, DropKeepsOrder DEF Inv
<1>17. DueInv'
  <2> SUFFICES ASSUME NEW i \in DOMAIN future, Due(future[i], docs')
               PROVE  told[future[i].buf] < future[i].version \/ OnItsWay(future[i].buf)'
    BY <1>4 DEF DueInv, Due
  <2> DEFINE c == future[i].buf
  <2>1. c \in Buffer /\ c # b
    BY <1>6, QueueMember DEF Inv
  <2>2. Due(future[i], docs)
    BY <2>1, <1>11 DEF Due
  <2>3. told[c] < future[i].version \/ OnItsWay(c)
    BY <2>2, <1>4 DEF Inv, DueInv
  <2>4. OnItsWay(c) => OnItsWay(c)'
    <3>1. UpdateIn(c, pending) => UpdateIn(c, pending')
      <4>1. SUFFICES ASSUME NEW j \in DOMAIN pending, pending[j].buf = c, pending[j].kind \in Updates
                     PROVE  UpdateIn(c, pending')
        BY DEF UpdateIn
      <4>2. j # 1
        BY <4>1, <2>1, <1>4, <1>5
      <4>3. j - 1 \in DOMAIN pending' /\ pending'[j - 1] = pending[j]
        <5>1. j - 1 \in DOMAIN pending'
          BY <4>2, <1>5
        <5>2. j \in Nat
          BY DEF Inv, TypeOK
        <5>3. QED BY <5>1, <5>2, <1>5
      <4>4. QED BY <4>1, <4>3 DEF UpdateIn
    <3>2. OnItsWay(c)' <=> UpdateIn(c, pipe) \/ UpdateIn(c, pending')
      BY <1>4 DEF OnItsWay, UpdateIn
    <3>3. QED BY <3>1, <3>2 DEF OnItsWay
  <2>5. QED BY <2>3, <2>4
<1>18. QED BY <1>10, <1>12, <1>13, <1>14, <1>15, <1>16, <1>17 DEF Inv

Without(q, k) == SubSeq(q, 1, k - 1) \o SubSeq(q, k + 1, Len(q))

\* A queue without its k-th message holds nothing that it did not hold before.
LEMMA WithoutFacts ==
  ASSUME NEW q \in Seq(Message), NEW k \in 1..Len(q), NEW r, r = Without(q, k)
  PROVE  /\ r \in Seq(Message)
         /\ \A i \in DOMAIN r : \E j \in DOMAIN q : r[i] = q[j]
<1> DEFINE p == SubSeq(q, 1, k - 1)
           s == SubSeq(q, k + 1, Len(q))
           n == Len(q)
<1>1. n \in Nat /\ k \in 1..n /\ DOMAIN q = 1..n /\ \A i \in 1..n : q[i] \in Message
  OBVIOUS
<1>2. p \in Seq(Message) /\ Len(p) = k - 1 /\ \A i \in 1..k - 1 : p[i] = q[i]
  <2>1. /\ p \in Seq(Message)
        /\ Len(p) = IF 1 <= k - 1 THEN k - 1 - 1 + 1 ELSE 0
        /\ \A i \in 1..k - 1 - 1 + 1 : p[i] = q[1 + i - 1]
    BY <1>1, SubSeqProperties
  <2> HIDE DEF p
  <2>2. QED BY <2>1
<1>3. s \in Seq(Message) /\ Len(s) = n - k /\ \A i \in 1..n - k : s[i] = q[i + k]
  <2>1. /\ s \in Seq(Message)
        /\ Len(s) = IF k + 1 <= n THEN n - (k + 1) + 1 ELSE 0
        /\ \A i \in 1..n - (k + 1) + 1 : s[i] = q[k + 1 + i - 1]
    BY <1>1, SubSeqProperties
  <2> HIDE DEF s, n
  <2>2. n - (k + 1) + 1 = n - k /\ (~(k + 1 <= n) => n - k = 0)
    BY <1>1
  <2>3. \A i \in 1..n - k : k + 1 + i - 1 = i + k
    BY <1>1
  <2>4. QED BY <2>1, <2>2, <2>3
<1> HIDE DEF p, s, n
<1>4. /\ r \in Seq(Message) /\ Len(r) = n - 1
      /\ \A i \in 1..n - 1 : r[i] = IF i <= k - 1 THEN p[i] ELSE s[i - (k - 1)]
  <2>1. r = p \o s
    BY DEF Without, p, s, n
  <2>2. /\ p \o s \in Seq(Message) /\ Len(p \o s) = Len(p) + Len(s)
        /\ \A i \in 1..Len(p) + Len(s) : (p \o s)[i] = IF i <= Len(p) THEN p[i] ELSE s[i - Len(p)]
    BY <1>2, <1>3, ConcatProperties
  <2>3. QED BY <2>1, <2>2, <1>1, <1>2, <1>3
<1>5. ASSUME NEW i \in 1..n - 1
      PROVE  \E j \in 1..n : r[i] = q[j]
  <2>1. CASE i <= k - 1
    <3>1. i \in 1..k - 1 /\ i \in 1..n
      BY <2>1, <1>1
    <3>2. r[i] = p[i] /\ p[i] = q[i]
      BY <2>1, <3>1, <1>2, <1>4
    <3>3. QED BY <3>1, <3>2
  <2>2. CASE i > k - 1
    <3>1. r[i] = s[i - (k - 1)] /\ i - (k - 1) \in 1..n - k /\ i - (k - 1) + k = i + 1
      BY <2>2, <1>1, <1>4 DEF n
    <3>2. r[i] = q[i + 1] /\ i + 1 \in 1..n
      BY <3>1, <1>1, <1>3
    <3>3. QED BY <3>2
  <2>3. QED BY <2>1, <2>2, <1>1
<1>6. DOMAIN r = 1..n - 1
  BY <1>1, <1>4
<1>7. \A i \in DOMAIN r : \E j \in DOMAIN q : r[i] = q[j]
  BY <1>1, <1>5, <1>6
<1>8. QED BY <1>4, <1>7

\* A request that is due finds its document open, and leaves it as it is.
LEMMA FutureKeepsInv ==
  ASSUME Inv, DispatchFuture
  PROVE  Inv'
<1> USE DEF EditorUnchanged, editor, routing, texts
<1>1. PICK k \in DOMAIN future :
         /\ Due(future[k], docs)
         /\ future' = Without(future, k)
         /\ Dispatch(future[k])
  BY DEF DispatchFuture, Without
<1>2. PICK m \in Message : m = future[k]
  BY QueueMember DEF Inv
<1>3. PICK b \in Buffer : b = m.buf
  BY MessageType
<1>4. /\ turn = "future" /\ Dispatch(m) /\ m.buf = b /\ Due(m, docs)
      /\ turn' = IF \E i \in DOMAIN future' : Due(future'[i], docs) THEN "future" ELSE "idle"
      /\ UNCHANGED <<version, synced, saved, told, sends, restarts>>
      /\ UNCHANGED <<pipe, routes, status, batches, blocked, dead, pending>>
  BY <1>1, <1>2, <1>3 DEF DispatchFuture
<1>5. Queued(m) /\ m.kind = "request" /\ Steady
  BY <1>2, <1>4 DEF Inv, QueuesInv, Steady
<1>6. m.servers = ServersOf(b)' /\ AllRouted(b)'
  BY <1>4, <1>5 DEF Queued, ServersOf, AllRouted
<1>7. routes' \in [Server -> Server \cup {NoServer}]
  BY <1>4 DEF Inv, TypeOK
<1>8. /\ docs' = [docs EXCEPT ![b] = DocAfter(m, docs[b])]
      /\ docs' \in [Buffer -> Doc \cup {NoDoc}]
      /\ view' \in [Server -> [Buffer -> Doc \cup {NoDoc}]]
      /\ early' \subseteq Server
      /\ DidOpenFirst' /\ Mirrored'
  BY <1>4, <1>5, <1>6, <1>7, DispatchFacts DEF Inv
<1>9. docs' = docs
  <2>1. docs[b] # NoDoc /\ m.kind \notin Updates \cup {"didClose"}
    BY <1>4, <1>5 DEF Due, Updates
  <2>2. DocAfter(m, docs[b]) = docs[b]
    BY <2>1, <1>4, DocAfterFacts DEF Inv
  <2>3. QED BY <2>2, <1>8 DEF Inv, TypeOK
<1>10. /\ future' \in Seq(Message)
       /\ \A i \in DOMAIN future' : \E j \in DOMAIN future : future'[i] = future[j]
  <2>1. future \in Seq(Message) /\ k \in 1..Len(future)
    BY DEF Inv, TypeOK
  <2>2. PICK r : r = future'
    OBVIOUS
  <2>3. r = Without(future, k)
    BY <2>2, <1>1
  <2>4. r \in Seq(Message) /\ \A i \in DOMAIN r : \E j \in DOMAIN future : r[i] = future[j]
    BY <2>1, <2>3, WithoutFacts
  <2>5. QED BY <2>2, <2>4
<1>11. TypeOK'
  <2>1. turn' \in {"idle", "future"}
    BY <1>4
  <2>2. (turn = "future" => \E i \in DOMAIN future : Due(future[i], docs))'
    BY <1>4, <1>9 DEF Due
  <2>3. unopened' \subseteq Server \X Buffer
    BY <1>8 DEF DidOpenFirst
  <2>4. QED BY <2>1, <2>2, <2>3, <1>4, <1>7, <1>8, <1>10 DEF Inv, TypeOK
<1>12. RoutesInv'
  BY <1>4 DEF Inv, RoutesInv
<1>13. BlockedInv'
  <2>1. \A c \in blocked : \A i \in DOMAIN future' : future'[i].buf # c
    BY <1>10 DEF Inv, BlockedInv
  <2>2. QED BY <2>1, <1>4, <1>9 DEF Inv, BlockedInv
<1>14. QueuesInv'
  <2>1. PICK q : q = future'
    OBVIOUS
  <2>2. \A x : Queued(x)' <=> Queued(x)
    BY <1>4 DEF Queued, AllRouted, ServersOf
  <2>3. \A c : Unready(c)' <=> Unready(c)
    BY <1>4 DEF Unready, ServersOf
  <2>4. \A i \in DOMAIN q : /\ Queued(q[i]) /\ q[i].kind = "request" /\ q[i].version >= 1
                            /\ ~Unready(q[i].buf)
                            /\ \A j \in DOMAIN pending : pending[j].buf # q[i].buf
    BY <2>1, <1>10 DEF Inv, QueuesInv
  <2>5. turn' # "pending" /\ turn # "pending"
    BY <1>4
  <2>6. QED BY <2>1, <2>2, <2>3, <2>4, <2>5, <1>4 DEF Inv, QueuesInv
<1>15. InOrder(Queue, version, told)' /\ TextsInv'
  BY <1>4, <1>9 DEF Inv, InOrder, TextsInv, Queue
<1>16. DueInv'
  BY <1>4, <1>9 DEF DueInv, Due
<1>17. QED BY <1>8, <1>11, <1>12, <1>13, <1>14, <1>15, <1>16 DEF Inv

-----------------------------------------------------------------------------
(***************************************************************************)
(* The end of a batch.                                                     *)
(***************************************************************************)

\* The servers of one batch get a new status, and the batch is gone.
Settled(batch, new) ==
  /\ turn = "idle" /\ batch \in batches
  /\ batches' = batches \ {batch}
  /\ status' = [s \in Server |-> IF s \in batch THEN new ELSE status[s]]
  /\ UNCHANGED <<version, synced, saved, told, sends, restarts>>
  /\ UNCHANGED <<pipe, routes, blocked, dead, pending, future>>
  /\ UNCHANGED <<docs, view, early, unopened>>

LEMMA SettledKeepsInv ==
  ASSUME Inv, NEW batch, NEW new \in {"ready", "failed"}, Settled(batch, new),
         \/ new = "ready" /\ turn' = Flush
         \/ new = "failed" /\ turn' = "idle"
  PROVE  Inv'
<1> USE DEF Settled
<1>1. status \in [Server -> Statuses] /\ status' \in [Server -> Statuses]
  BY DEF Inv, TypeOK, Statuses
<1>2. turn' \in {"idle", "pending"} /\ (turn' = "pending" => pending # <<>>)
  BY DEF Flush
<1>3. TypeOK'
  BY <1>1, <1>2 DEF Inv, TypeOK, Due
<1>4. \A s \in Server : s \in batch => status[s] = "initializing"
  BY DEF Inv, RoutesInv
<1>5. RoutesInv'
  <2>1. \A a \in Server : status'[a] # "absent" => routes'[a] # NoServer
    BY <1>4 DEF Inv, RoutesInv
  <2>2. \A c \in batches' : \A s \in c : s \in Server /\ s \notin batch /\ status[s] = "initializing"
    BY RouteType DEF Inv, TypeOK, RoutesInv, Batch
  <2>3. \A c \in batches' : \A s \in c : status'[s] = "initializing"
    BY <2>2
  <2>4. \A c, d \in batches' : c # d => c \cap d = {}
    BY DEF Inv, RoutesInv
  <2>5. QED BY <2>1, <2>3, <2>4 DEF RoutesInv
<1>6. DidOpenFirst' /\ BlockedInv' /\ TextsInv'
  BY DEF Inv, DidOpenFirst, BlockedInv, TextsInv
<1>7. Mirrored'
  BY DEF Inv, Mirrored, AllRouted, ServersOf
<1>8. \A m : Queued(m)' <=> Queued(m)
  BY DEF Queued, AllRouted, ServersOf
<1>9. QueuesInv'
  <2>1. ASSUME NEW m \in Message, Queued(m), ~Unready(m.buf)
        PROVE  ~Unready(m.buf)'
    <3>1. ServersOf(m.buf) \subseteq Server /\ ServersOf(m.buf)' = ServersOf(m.buf)
      BY <2>1, MessageType, RoutedServers DEF Queued, Inv, ServersOf
    <3>2. \A s \in ServersOf(m.buf) : status[s] = "ready" /\ s \notin batch
      BY <2>1, <3>1, <1>4 DEF Unready
    <3>3. QED BY <3>1, <3>2 DEF Unready
  <2>2. ASSUME NEW m \in Message, Queued(m), Unready(m.buf), new = "failed"
        PROVE  Unready(m.buf)'
    <3>1. ServersOf(m.buf) \subseteq Server /\ ServersOf(m.buf)' = ServersOf(m.buf)
      BY <2>2, MessageType, RoutedServers DEF Queued, Inv, ServersOf
    <3>2. PICK s \in ServersOf(m.buf) : status[s] # "ready"
      BY <2>2 DEF Unready
    <3>3. status'[s] # "ready"
      BY <2>2, <3>1, <3>2
    <3>4. QED BY <3>1, <3>3 DEF Unready
  <2>3. \A i \in DOMAIN future : ~Unready(future[i].buf)'
    BY <2>1, QueueMember DEF Inv, QueuesInv
  <2>4. turn' # "pending" => \A i \in DOMAIN pending : Unready(pending[i].buf)'
    <3>1. CASE new = "failed"
      BY <3>1, <2>2, QueueMember DEF Inv, QueuesInv
    <3>2. CASE new = "ready" /\ turn' = Flush
      BY <3>2 DEF Flush, Inv, TypeOK
    <3>3. QED BY <3>1, <3>2
  <2>5. QED BY <2>3, <2>4, <1>8 DEF Inv, QueuesInv
<1>10. InOrder(Queue, version, told)'
  BY DEF Inv, InOrder, Queue
<1>11. DueInv'
  BY DEF Inv, DueInv, Due, OnItsWay, UpdateIn
<1>12. QED BY <1>3, <1>5, <1>6, <1>7, <1>9, <1>10, <1>11 DEF Inv

-----------------------------------------------------------------------------
(***************************************************************************)
(* The theorems.                                                           *)
(***************************************************************************)

LEMMA InitInv ==
  ASSUME Init
  PROVE  Inv
<1> USE DEF Init
<1>1. TypeOK
  BY DEF TypeOK, Statuses
<1>2. DidOpenFirst /\ RoutesInv /\ Mirrored
  BY DEF DidOpenFirst, RoutesInv, Mirrored
<1>3. QueuesInv /\ BlockedInv /\ DueInv
  BY DEF QueuesInv, BlockedInv, DueInv
<1>4. Queue = <<>>
  BY DEF Queue
<1>5. InOrder(Queue, version, told) /\ TextsInv
  <2>1. ASSUME NEW b \in Buffer
        PROVE  /\ Grows(<<>>, b, -1, 0) /\ AllOpen(<<>>, b, NoDoc, 0)
               /\ docs[b] = NoDoc /\ docs[b].version = -1 /\ docs[b].text = -1
               /\ version[b] = 0 /\ told[b] = 0
    BY EmptyGrows DEF AllOpen, NoDoc
  <2>2. QED BY <2>1, <1>4 DEF InOrder, TextsInv
<1>6. QED BY <1>1, <1>2, <1>3, <1>5 DEF Inv

LEMMA NextInv ==
  ASSUME Inv, [Next]_vars
  PROVE  Inv'
<1>1. CASE EditorStep
  <2>1. ASSUME NEW b \in Buffer,
               Open(b) \/ Edit(b) \/ Update(b) \/ AskSync(b) \/ Save(b) \/ Close(b) \/ Restart(b)
        PROVE  Inv'
    BY <2>1, OpenKeepsInv, EditKeepsInv, UpdateKeepsInv, AskSyncKeepsInv, SaveKeepsInv,
       CloseKeepsInv, RestartKeepsInv
  <2>2. ASSUME NEW b \in Buffer, NEW kind \in Asked, Ask(b, kind)
        PROVE  Inv'
    BY <2>2, AskKeepsInv
  <2>3. QED BY <1>1, <2>1, <2>2 DEF EditorStep
<1>2. CASE Die
  BY <1>2, DieKeepsInv
<1>3. CASE Receive
  <2>1. CASE ReceiveSyncAhead
    BY <2>1, PanicKeepsInv DEF ReceiveSyncAhead
  <2>2. QED BY <1>3, <2>1, BlockedKeepsInv, UnstartableKeepsInv, ParkedKeepsInv, AheadKeepsInv,
               DispatchedKeepsInv DEF Receive
<1>4. CASE FlushStep
  <2>1. CASE DispatchPendingPanics
    BY <2>1, PanicKeepsInv DEF DispatchPendingPanics
  <2>2. QED BY <1>4, <2>1, FutureKeepsInv, PendingKeepsInv DEF FlushStep
<1>5. ASSUME NEW batch \in Batch, Initialized(batch) PROVE Inv'
  <2>1. CASE InitializeDone(batch)
    <3>1. Settled(batch, "ready") /\ turn' = Flush
      BY <2>1 DEF InitializeDone, Settled, EditorUnchanged, editor, texts
    <3>2. QED BY <3>1, SettledKeepsInv
  <2>2. CASE InitializeFailed(batch)
    <3>1. Settled(batch, "failed") /\ turn' = "idle"
      BY <2>2 DEF InitializeFailed, Settled, EditorUnchanged, editor, queues, texts
    <3>2. QED BY <3>1, SettledKeepsInv
  <2>3. CASE InitializePartlyFailed(batch)
    BY <2>3, PanicKeepsInv DEF InitializePartlyFailed
  <2>4. QED BY <1>5, <2>1, <2>2, <2>3 DEF Initialized
<1>6. CASE UNCHANGED vars
  <2>1. /\ UNCHANGED <<version, synced, saved, told, sends>> /\ pipe' = pipe
        /\ KakLspUnchanged
    BY <1>6 DEF vars, editor, KakLspUnchanged
  <2>2. /\ version' \in [Buffer -> Nat] /\ saved' \in [Buffer -> Nat] /\ told' \in [Buffer -> Nat]
        /\ synced' \in [Buffer -> Nat \cup {-1}] /\ sends' \in Nat /\ pipe \in Seq(Message)
    BY <2>1 DEF Inv, TypeOK
  <2>3. <<>> \in Seq(Message) /\ DOMAIN <<>> = {} /\ pipe' = pipe \o <<>> /\ Queue \o <<>> = Queue
    BY <2>1, <2>2, QueueType DEF Inv
  <2>4. InOrder(Queue \o <<>>, version', told')
    BY <2>1, <2>3 DEF Inv
  <2>5. \A i \in DOMAIN <<>> : <<>>[i].version >= 1
    BY <2>3
  <2>6. \A b \in Buffer : told'[b] = told[b] \/ told'[b] = 0 \/ UpdateIn(b, <<>>)
    BY <2>1
  <2>7. QED BY <2>1, <2>2, <2>3, <2>4, <2>5, <2>6, EditorKeepsInv
<1>7. QED BY <1>1, <1>2, <1>3, <1>4, <1>5, <1>6 DEF Next, Quiescent

\* The inductive invariant holds.
THEOREM InvHolds == Spec => []Inv
<1>1. Init => Inv
  BY InitInv
<1>2. Inv /\ [Next]_vars => Inv'
  BY NextInv
<1>3. QED BY <1>1, <1>2, PTL DEF Spec

\* Type correctness; a queue is flushed only while it has something to dispatch.
THEOREM TypeCorrect == Spec => []TypeOK
<1>1. Inv => TypeOK
  BY DEF Inv
<1>2. QED BY <1>1, InvHolds, PTL

\* No server is told of a document that is not open there: didOpen comes first,
\* through restarts, failed starts, parking and flushing (ensure_did_open).
THEOREM DidOpenComesFirst == Spec => []DidOpenFirst
<1>1. Inv => DidOpenFirst
  BY DEF Inv
<1>2. QED BY <1>1, InvHolds, PTL

\* Every server of a buffer has the very document kak-lsp has of it, so that
\* positions converted with kak-lsp's copy mean the same to all of them.
THEOREM ServersMirror == Spec => []Mirror
<1>1. Inv => Mirror
  <2> SUFFICES ASSUME Inv, NEW b \in Buffer, NEW s \in ServersOf(b) \ {NoServer}
               PROVE  view[s][b] = docs[b]
    BY DEF Mirror
  <2>1. s \in Server
    <3>1. \A n \in NamesOf[b] : <<n, RootOf[b]>> \in Server
      BY RouteType
    <3>2. PICK n \in NamesOf[b] : s = routes[<<n, RootOf[b]>>]
      BY DEF ServersOf
    <3>3. routes[<<n, RootOf[b]>>] \in Server \cup {NoServer}
      BY <3>1 DEF Inv, TypeOK
    <3>4. QED BY <3>2, <3>3
  <2>2. QED BY <2>1 DEF Inv, Mirrored
<1>2. QED BY <1>1, InvHolds, PTL

\* What the editor has told this kak-lsp of a buffer is what kak-lsp has, or it
\* is still on its way.
THEOREM NoUpdateLost == Spec => []InSync
<1>1. Inv => InSync
  BY NothingOnItsWay DEF Inv, InSync
<1>2. QED BY <1>1, InvHolds, PTL

\* And before any end of kak-lsp it has the editor's text, not the disk's.
THEOREM TextsInSync == Spec => []TextInSync
<1>1. Inv => TextInSync
  BY NothingOnItsWay DEF Inv, TextInSync, TextsInv
<1>2. QED BY <1>1, InvHolds, PTL

\* A request is kept for a future text only if the editor has not told of that
\* text yet: none is left behind once its text has arrived.
THEOREM RequestsWaitForUpdates == Spec => []WaitsForUpdate
<1>1. Inv => WaitsForUpdate
  <2> SUFFICES ASSUME Inv, NEW i \in DOMAIN future, turn # "future",
                      ~OnItsWay(future[i].buf)
               PROVE  told[future[i].buf] < future[i].version
    BY DEF WaitsForUpdate
  <2> DEFINE m == future[i]
             b == m.buf
  <2>1. b \in Buffer /\ m.version \in Nat /\ m.version >= 1 /\ b \notin blocked
    BY QueueMember, MessageType DEF Inv, QueuesInv, BlockedInv
  <2>2. told[b] \in Nat
    BY <2>1 DEF Inv, TypeOK
  <2>3. CASE told[b] = 0
    BY <2>1, <2>3
  <2>4. CASE told[b] > 0
    <3>1. docs[b].version = told[b]
      BY <2>1, <2>4, NothingOnItsWay DEF Inv
    <3>2. docs[b] # NoDoc
      BY <3>1, <2>1, <2>4, DocVersion DEF Inv
    <3>3. CASE m.version <= docs[b].version
      <4>1. Due(m, docs)
        BY <3>2, <3>3 DEF Due
      <4>2. QED BY <4>1 DEF Inv, DueInv
    <3>4. QED BY <3>1, <3>3, <2>1, <2>2
  <2>5. QED BY <2>2, <2>3, <2>4
<1>2. QED BY <1>1, InvHolds, PTL

\* Whatever kak-lsp dispatches, a document that stays open at a server never goes
\* back to an older version.
THEOREM VersionsNeverGoBack == Spec => VersionsGrow
<1> DEFINE Grown == \A s \in Server, b \in Buffer :
                      view[s][b] # NoDoc /\ view'[s][b] # NoDoc =>
                        view'[s][b].version >= view[s][b].version
<1>1. ASSUME Inv, view' = view PROVE Grown
  <2>1. ASSUME NEW s \in Server, NEW b \in Buffer
        PROVE  view[s][b] # NoDoc => view[s][b].version >= view[s][b].version
    <3>1. view[s][b] \in Doc \cup {NoDoc}
      BY <1>1 DEF Inv, TypeOK
    <3>2. view[s][b] # NoDoc => view[s][b].version \in Nat
      BY <3>1 DEF Doc
    <3>3. QED BY <3>2
  <2>2. QED BY <2>1, <1>1
<1>2. ASSUME Inv, Fresh PROVE Grown
  BY <1>2 DEF Fresh
<1>3. ASSUME Inv, NEW m \in Message, NEW b \in Buffer, m.buf = b, Dispatch(m),
             Mirrored', TypeOK',
             docs[b] # NoDoc => docs[b].version <= m.version \/ (m.kind # "didOpen")
      PROVE  Grown
  <2>1. ASSUME NEW s \in Server, NEW c \in Buffer
        PROVE  view'[s][c] = IF s \in m.servers /\ c = b THEN DocAfter(m, view[s][c]) ELSE view[s][c]
    <3>1. view[s] \in [Buffer -> Doc \cup {NoDoc}]
      BY <1>3 DEF Inv, TypeOK
    <3>2. view'[s] = IF s \in m.servers THEN [view[s] EXCEPT ![b] = DocAfter(m, @)] ELSE view[s]
      BY <1>3 DEF Dispatch
    <3>3. QED BY <3>1, <3>2
  <2> SUFFICES ASSUME NEW s \in Server, NEW c \in Buffer,
                      view[s][c] # NoDoc, view'[s][c] # NoDoc
               PROVE  view'[s][c].version >= view[s][c].version
    OBVIOUS
  <2>2. view[s][c] = docs[c] /\ docs[c] # NoDoc /\ docs[c].version \in Nat
    BY <1>3, DocVersion DEF Inv, Mirrored
  <2>3. CASE view'[s][c] = view[s][c]
    BY <2>2, <2>3
  <2>4. CASE view'[s][c] # view[s][c]
    <3>1. c = b /\ view'[s][c] = DocAfter(m, docs[b])
      BY <2>1, <2>2, <2>4
    <3>2. m.version \in Nat
      BY MessageType
    <3>3. CASE m.kind = "didOpen"
      <4>1. DocAfter(m, docs[b]).version = m.version
        BY <3>3 DEF DocAfter, IsNew, Opens, OpeningDoc
      <4>2. QED BY <4>1, <3>1, <3>2, <3>3, <2>2, <1>3
    <3>4. CASE m.kind # "didOpen"
      <4>1. ~Opens(m)
        BY <3>1, <3>4, <2>2, <1>3 DEF Opens
      <4>2. m.kind # "didClose"
        BY <3>1 DEF DocAfter
      <4>3. IsNew(m)
        BY <4>1, <4>2, <3>1, <2>2, <2>4 DEF DocAfter
      <4>4. docs[b].version < m.version
        BY <4>1, <4>3, <1>3 DEF IsNew, DocAfterOpen
      <4>5. DocAfter(m, docs[b]).version = m.version
        BY <4>2, <4>3 DEF DocAfter
      <4>6. QED BY <4>4, <4>5, <3>1, <3>2, <2>2
    <3>5. QED BY <3>3, <3>4
  <2>5. QED BY <2>3, <2>4
<1>4. ASSUME Inv, Inv', ReceiveDispatched PROVE Grown
  <2>1. PICK m \in Message : m = NextMessage
    BY <1>4, TakeFacts DEF ReceiveDispatched
  <2>2. PICK b \in Buffer : b = m.buf
    BY MessageType
  <2>3. Take /\ Route(b) /\ AllReady(Routed(m)) /\ Dispatch(Routed(m)) /\ b \notin blocked
    BY <1>4, <2>1, <2>2 DEF ReceiveDispatched, Route
  <2>4. /\ turn = "idle" /\ Queue[Len(pending) + 1] = m
        /\ Len(pending) + 1 \in 1..Len(Queue) /\ Len(pending) \in Nat
    <3>1. TypeOK
      BY <1>4 DEF Inv
    <3>2. Len(pending) \in Nat
      BY <3>1 DEF TypeOK
    <3>3. Inv /\ Take
      BY <1>4, <2>3
    <3>4. QED BY <2>1, <3>2, <3>3, TakeFacts
  <2>5. \A i \in DOMAIN pending : pending[i].buf # b
    BY <1>4, <2>2, <2>3, <2>4, RoutedReady
  <2>6. FirstOf(Queue, b, Len(pending) + 1)
    <3>1. TypeOK
      BY <1>4 DEF Inv
    <3>2. \A i \in 1..Len(pending) : i \in DOMAIN pending
      BY <3>1 DEF TypeOK
    <3>3. \A i \in 1..Len(pending) : Queue[i] = pending[i]
      BY <3>1, QueueType
    <3>4. QED BY <3>2, <3>3, <2>4, <2>5 DEF FirstOf
  <2>7. docs[b].version <= m.version
    BY <1>4, <2>2, <2>3, <2>4, <2>6, OrderFacts DEF Inv
  <2>8. Routed(m) \in Message /\ Routed(m).buf = b /\ Routed(m).version = m.version
    BY <1>4, <2>2, <2>3, RouteFacts DEF Inv, Like
  <2>9. QED BY <1>3, <1>4, <2>3, <2>7, <2>8 DEF Inv
<1>5. ASSUME Inv, Inv', DispatchPending PROVE Grown
  <2>1. pending # <<>> /\ pending \in Seq(Message)
    BY <1>5 DEF DispatchPending, Inv, TypeOK
  <2>2. PICK m \in Message : m = Head(pending) /\ m = pending[1] /\ 1 \in DOMAIN pending
    BY <2>1
  <2>3. PICK b \in Buffer : b = m.buf
    BY MessageType
  <2>4. Dispatch(m) /\ b \notin blocked
    BY <1>5, <2>2, <2>3 DEF DispatchPending, Inv, BlockedInv
  <2>5. Queue[1] = m /\ 1 \in 1..Len(Queue) /\ FirstOf(Queue, b, 1)
    <3>1. TypeOK
      BY <1>5 DEF Inv
    <3>2. pipe \in Seq(Message) /\ Len(pipe) \in Nat
      BY <3>1 DEF TypeOK
    <3>3. 1 \in 1..Len(pending) /\ Len(pending) \in Nat
      BY <2>1
    <3>4. Queue[1] = m
      BY <3>1, <3>3, <2>2, QueueType
    <3>5. 1 \in 1..Len(Queue)
      BY <3>1, <3>2, <3>3, QueueType
    <3>6. FirstOf(Queue, b, 1)
      BY DEF FirstOf
    <3>7. QED BY <3>4, <3>5, <3>6
  <2>6. docs[b].version <= m.version
    BY <1>5, <2>3, <2>4, <2>5, OrderFacts DEF Inv
  <2>7. QED BY <1>3, <1>5, <2>3, <2>4, <2>6 DEF Inv
<1>6. ASSUME Inv, Inv', DispatchFuture PROVE Grown
  <2>1. PICK k \in DOMAIN future : Due(future[k], docs) /\ Dispatch(future[k])
    BY <1>6 DEF DispatchFuture
  <2>2. PICK m \in Message : m = future[k] /\ m.kind = "request"
    BY <1>6, QueueMember DEF Inv, QueuesInv
  <2>3. m.buf \in Buffer
    BY MessageType
  <2>4. QED BY <1>3, <1>6, <2>1, <2>2, <2>3 DEF Inv
<1>7. ASSUME Inv, Inv', [Next]_vars PROVE Grown
  <2>1. CASE EditorStep
    <3>1. view' = view \/ Fresh
      BY <2>1 DEF EditorStep, Open, Edit, Update, Ask, AskSync, Save, Close, Restart,
                  KakLspUnchanged, texts
    <3>2. QED BY <3>1, <1>1, <1>2, <1>7
  <2>2. CASE Die
    BY <2>2, <1>2, <1>7 DEF Die
  <2>3. CASE Receive
    <3>1. view' = view \/ Fresh \/ ReceiveDispatched
      BY <2>3 DEF Receive, ReceiveBlocked, ReceiveUnstartable, ReceiveParked, ReceiveAhead,
                  ReceiveSyncAhead, Panic, texts
    <3>2. QED BY <3>1, <1>1, <1>2, <1>4, <1>7
  <2>4. CASE FlushStep
    BY <2>4, <1>2, <1>5, <1>6, <1>7 DEF FlushStep, DispatchPendingPanics, Panic
  <2>5. ASSUME NEW batch \in Batch, Initialized(batch) PROVE Grown
    <3>1. view' = view \/ Fresh
      BY <2>5 DEF Initialized, InitializeDone, InitializeFailed, InitializePartlyFailed, Panic, texts
    <3>2. QED BY <3>1, <1>1, <1>2, <1>7
  <2>6. CASE UNCHANGED vars
    BY <2>6, <1>1, <1>7 DEF vars, texts
  <2>7. QED BY <1>7, <2>1, <2>2, <2>3, <2>4, <2>5, <2>6 DEF Next, Quiescent
<1>8. Inv /\ Inv' /\ [Next]_vars => [Grown]_vars
  BY <1>7
<1>9. QED BY <1>8, InvHolds, PTL DEF Spec, VersionsGrow

=============================================================================

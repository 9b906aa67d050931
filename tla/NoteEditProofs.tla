--------------------------- MODULE NoteEditProofs ---------------------------
(***************************************************************************)
(* Proofs about the transformation of note edits (NoteEdits): two edits of *)
(* one revision can be applied in either order (MCNoteEdits), for bodies,  *)
(* insertions and deletions of every length.                               *)
(*                                                                         *)
(* An edit is applied to a sequence whose length the proofs know, so that  *)
(* two bodies are compared character by character: InsertAt and DeleteAt   *)
(* say which character of the old body, or of the insertion, stands where  *)
(* in the new one.                                                         *)
(***************************************************************************)
EXTENDS MCNoteEdits, SequenceTheorems, TLAPS

\* A character is a Unicode code point.
Char == Nat

EditType == [kind : {"insert", "delete"}, position : Nat, text : Seq(Char),
             length : Nat]

\* Both constructors return edits.
LEMMA ConstructorsType ==
    ASSUME NEW position \in Nat, NEW text \in Seq(Char), NEW length \in Nat
    PROVE  /\ Insert(position, text) \in EditType
           /\ Delete(position, length) \in EditType
           /\ IsInsert(Insert(position, text)) /\ ~IsInsert(Delete(position, length))
  BY DEF Insert, Delete, EditType, IsInsert

\* An insertion with text is longer than nothing.
LEMMA NonEmptyText ==
    ASSUME NEW text \in Seq(Char), text # <<>>
    PROVE  Len(text) \in Nat /\ Len(text) > 0
  OBVIOUS

\* _against_insert: the shifted or widened edit fits the longer body.
LEMMA AgainstInsertApplies ==
    ASSUME NEW n \in Nat, NEW incoming \in EditType, NEW applied \in EditType,
           NEW wins \in BOOLEAN,
           Applicable(incoming, n), Valid(applied, n), IsInsert(applied)
    PROVE  Applicable(AgainstInsert(incoming, applied, wins),
                      n + Len(applied.text))
  <1> DEFINE shift == Len(applied.text)
  <1>1. shift \in Nat /\ shift > 0
    BY NonEmptyText DEF Valid, EditType
  <1>2. applied.position \in 0..n
    BY DEF Valid
  <1>3. CASE IsInsert(incoming)
    BY <1>1, <1>2, <1>3
       DEF AgainstInsert, Applicable, Valid, IsInsert, Insert, EditType
  <1>4. CASE ~IsInsert(incoming)
    <2>1. incoming.position \in Nat /\ incoming.length \in Nat
      BY DEF EditType
    <2>2. CASE incoming.length = 0
      BY <1>1, <1>2, <1>4, <2>1, <2>2
         DEF AgainstInsert, Applicable, IsInsert, Delete
    <2>3. CASE incoming.length # 0
      <3>1. incoming.position + incoming.length <= n
        BY <1>4, <2>3 DEF Applicable, Valid
      <3>2. CASE incoming.position >= applied.position
        BY <1>1, <1>2, <1>4, <2>1, <2>3, <3>1, <3>2
           DEF AgainstInsert, Applicable, Valid, IsInsert, Delete
      <3>3. CASE incoming.position + incoming.length <= applied.position
        BY <1>1, <1>2, <1>4, <2>1, <2>3, <3>1, <3>3
           DEF AgainstInsert, Applicable, Valid, IsInsert, Delete
      <3>4. CASE /\ incoming.position < applied.position
                 /\ incoming.position + incoming.length > applied.position
        BY <1>1, <1>2, <1>4, <2>1, <2>3, <3>1, <3>4
           DEF AgainstInsert, Applicable, Valid, IsInsert, Delete
      <3> QED
        BY <1>2, <2>1, <3>2, <3>3, <3>4
    <2> QED BY <2>2, <2>3
  <1> QED BY <1>3, <1>4

\* _against_delete: what is left of the edit fits the shorter body.
LEMMA AgainstDeleteApplies ==
    ASSUME NEW n \in Nat, NEW incoming \in EditType, NEW applied \in EditType,
           Applicable(incoming, n), Applicable(applied, n), ~IsInsert(applied)
    PROVE  Applicable(AgainstDelete(incoming, applied), n - applied.length)
  <1>1. /\ applied.position \in Nat /\ applied.length \in Nat
        /\ applied.length = 0 \/ applied.position + applied.length <= n
    BY DEF Applicable, Valid, EditType
  <1>2. CASE IsInsert(incoming)
    <2>1. incoming.position \in 0..n /\ incoming.text # <<>>
      BY <1>2 DEF Applicable, Valid
    <2> QED
      BY <1>1, <1>2, <2>1
         DEF AgainstDelete, Applicable, Valid, IsInsert, Insert, Most
  <1>3. CASE ~IsInsert(incoming)
    <2>1. incoming.position \in Nat /\ incoming.length \in Nat
      BY DEF EditType
    <2>2. incoming.length = 0 \/ incoming.position + incoming.length <= n
      BY <1>3 DEF Applicable, Valid
    <2> QED
      BY <1>1, <1>3, <2>1, <2>2
         DEF AgainstDelete, Applicable, Valid, IsInsert, Delete, Most, Least
  <1> QED BY <1>2, <1>3

\* The server's transformation of any applicable edit against any applied one
\* is applicable to the body that the applied edit left: _transform_since
\* never turns an edit that was right for its base revision into InvalidEdit.
THEOREM TransformApplies ==
    ASSUME NEW n \in Nat, NEW incoming \in EditType, NEW applied \in EditType,
           NEW wins \in BOOLEAN,
           Applicable(incoming, n), Applicable(applied, n)
    PROVE  Applicable(Transform(incoming, applied, wins), n + Growth(applied))
  <1>1. CASE IsInsert(applied)
    BY <1>1, AgainstInsertApplies DEF Transform, Growth, Applicable
  <1>2. CASE ~IsInsert(applied)
    <2>1. n + Growth(applied) = n - applied.length
      BY <1>2 DEF Growth, EditType
    <2> QED BY <1>2, <2>1, AgainstDeleteApplies DEF Transform
  <1> QED BY <1>1, <1>2

-----------------------------------------------------------------------------
(* Which character stands where.                                            *)

\* What is before and behind a position of a body.
LEMMA Cuts ==
    ASSUME NEW s \in Seq(Char), NEW n \in Nat, n <= Len(s)
    PROVE  /\ Prefix(s, n) \in Seq(Char) /\ Len(Prefix(s, n)) = n
           /\ \A i \in 1..n : Prefix(s, n)[i] = s[i]
           /\ Suffix(s, n) \in Seq(Char) /\ Len(Suffix(s, n)) = Len(s) - n
           /\ \A i \in 1..(Len(s) - n) : Suffix(s, n)[i] = s[n + i]
  BY DEF Prefix, Suffix

\* Where every character stands when two bodies are joined.
LEMMA JoinedAt ==
    ASSUME NEW a \in Seq(Char), NEW b \in Seq(Char)
    PROVE  /\ a \o b \in Seq(Char) /\ Len(a \o b) = Len(a) + Len(b)
           /\ \A k \in 1..Len(a) : (a \o b)[k] = a[k]
           /\ \A k \in (Len(a) + 1)..(Len(a) + Len(b)) : (a \o b)[k] = b[k - Len(a)]
  BY ConcatProperties

\* r is s with t inserted behind its first p characters.
Inserted(r, s, p, t) ==
    /\ s \in Seq(Char) /\ t \in Seq(Char) /\ p \in Nat /\ p <= Len(s)
    /\ r \in Seq(Char) /\ Len(r) = Len(s) + Len(t)
    /\ \A k \in 1..p : r[k] = s[k]
    /\ \A k \in (p + 1)..(p + Len(t)) : r[k] = t[k - p]
    /\ \A k \in (p + Len(t) + 1)..Len(r) : r[k] = s[k - Len(t)]

\* r is s without the d characters behind its first p.
Erased(r, s, p, d) ==
    /\ s \in Seq(Char) /\ p \in Nat /\ d \in Nat /\ (d = 0 \/ p + d <= Len(s))
    /\ r \in Seq(Char) /\ Len(r) = Len(s) - d
    /\ \A k \in 1..Len(r) : k <= p => r[k] = s[k]
    /\ \A k \in (p + 1)..Len(r) : r[k] = s[k + d]

\* Where every character stands after an insertion.
LEMMA InsertAt ==
    ASSUME NEW s \in Seq(Char), NEW e \in EditType, IsInsert(e), e.position <= Len(s),
           NEW r, r = Apply(s, e)
    PROVE  Inserted(r, s, e.position, e.text)
  <1>1. PICK p \in Nat, L \in Nat, n \in Nat : p = e.position /\ L = Len(e.text) /\ n = Len(s)
    BY DEF EditType
  <1>2. e.text \in Seq(Char) /\ p <= n
    BY <1>1 DEF EditType
  <1>3. PICK a : a = Prefix(s, p)
    OBVIOUS
  <1>4. PICK b : b = Suffix(s, p)
    OBVIOUS
  <1>5. /\ a \in Seq(Char) /\ Len(a) = p /\ \A i \in 1..p : a[i] = s[i]
        /\ b \in Seq(Char) /\ Len(b) = n - p
        /\ \A i \in 1..(n - p) : b[i] = s[p + i]
    BY <1>1, <1>2, <1>3, <1>4, Cuts
  <1>6. PICK u : u = a \o e.text
    OBVIOUS
  <1>7. /\ u \in Seq(Char) /\ Len(u) = p + L
        /\ \A k \in 1..p : u[k] = a[k]
        /\ \A k \in (p + 1)..(p + L) : u[k] = e.text[k - p]
    <2>1. a \in Seq(Char) /\ e.text \in Seq(Char)
      BY <1>2, <1>5
    <2>2. /\ u \in Seq(Char) /\ Len(u) = Len(a) + Len(e.text)
          /\ \A k \in 1..Len(a) : u[k] = a[k]
          /\ \A k \in (Len(a) + 1)..(Len(a) + Len(e.text)) : u[k] = e.text[k - Len(a)]
      BY <1>6, <2>1, JoinedAt
    <2>3. Len(a) = p /\ Len(e.text) = L
      BY <1>1, <1>5
    <2> QED BY <2>2, <2>3
  <1>8. r = u \o b
    BY <1>1, <1>3, <1>4, <1>6 DEF Apply
  <1>9. /\ r \in Seq(Char) /\ Len(r) = n + L
        /\ \A k \in 1..(p + L) : r[k] = u[k]
        /\ \A k \in (p + L + 1)..(n + L) : r[k] = b[k - (p + L)]
    <2>1. /\ r \in Seq(Char) /\ Len(r) = Len(u) + Len(b)
          /\ \A k \in 1..Len(u) : r[k] = u[k]
          /\ \A k \in (Len(u) + 1)..(Len(u) + Len(b)) : r[k] = b[k - Len(u)]
      <3>1. u \in Seq(Char) /\ b \in Seq(Char)
        BY <1>5, <1>7
      <3> QED BY <1>8, <3>1, JoinedAt
    <2>2. Len(u) = p + L /\ Len(u) + Len(b) = n + L
      BY <1>2, <1>5, <1>7
    <2> QED BY <2>1, <2>2
  <1>10. ASSUME NEW k \in 1..p
         PROVE  r[k] = s[k]
    BY <1>5, <1>7, <1>9
  <1>11. ASSUME NEW k \in (p + 1)..(p + L)
         PROVE  r[k] = e.text[k - p]
    BY <1>7, <1>9
  <1>12. ASSUME NEW k \in (p + L + 1)..(n + L)
         PROVE  r[k] = s[k - L]
    <2>1. r[k] = b[k - (p + L)] /\ k - (p + L) \in 1..(n - p)
      BY <1>9
    <2>2. b[k - (p + L)] = s[p + (k - (p + L))] /\ p + (k - (p + L)) = k - L
      BY <1>5, <2>1
    <2> QED BY <2>1, <2>2
  <1> QED BY <1>1, <1>2, <1>9, <1>10, <1>11, <1>12 DEF Inserted

\* Where every character stands after a deletion.
LEMMA DeleteAt ==
    ASSUME NEW s \in Seq(Char), NEW e \in EditType, ~IsInsert(e),
           e.length = 0 \/ e.position + e.length <= Len(s), NEW r, r = Apply(s, e)
    PROVE  Erased(r, s, e.position, e.length)
  <1>1. PICK p \in Nat, d \in Nat, n \in Nat : p = e.position /\ d = e.length /\ n = Len(s)
    BY DEF EditType
  <1>2. CASE d = 0
    BY <1>1, <1>2 DEF Apply, Erased
  <1>3. CASE d # 0
    <2>1. PICK a : a = Prefix(s, p)
      OBVIOUS
    <2>2. PICK b : b = Suffix(s, p + d)
      OBVIOUS
    <2>3. /\ a \in Seq(Char) /\ Len(a) = p /\ \A i \in 1..p : a[i] = s[i]
          /\ b \in Seq(Char) /\ Len(b) = n - (p + d)
          /\ \A i \in 1..(n - (p + d)) : b[i] = s[(p + d) + i]
      <3>1. p \in Nat /\ p + d \in Nat /\ p <= n /\ p + d <= n
        BY <1>1, <1>3
      <3> QED BY <1>1, <2>1, <2>2, <3>1, Cuts
    <2>4. r = a \o b
      BY <1>1, <1>3, <2>1, <2>2 DEF Apply
    <2>5. /\ r \in Seq(Char) /\ Len(r) = Len(a) + Len(b)
          /\ \A k \in 1..Len(a) : r[k] = a[k]
          /\ \A k \in (Len(a) + 1)..Len(r) : r[k] = b[k - Len(a)]
      BY <2>3, <2>4, JoinedAt
    <2>6. Len(r) = n - d
      BY <2>3, <2>5
    <2>7. ASSUME NEW k \in 1..(n - d), k <= p
          PROVE  r[k] = s[k]
      BY <2>3, <2>5, <2>7
    <2>8. ASSUME NEW k \in (p + 1)..(n - d)
          PROVE  r[k] = s[k + d]
      <3>1. r[k] = b[k - p] /\ k - p \in 1..(n - (p + d))
        BY <2>3, <2>5, <2>6
      <3>2. b[k - p] = s[(p + d) + (k - p)] /\ (p + d) + (k - p) = k + d
        BY <2>3, <3>1
      <3> QED BY <3>1, <3>2
    <2> QED BY <1>1, <2>5, <2>6, <2>7, <2>8 DEF Erased
  <1> QED BY <1>2, <1>3

\* Two bodies with the same characters in the same places are the same.
LEMMA SameBody ==
    ASSUME NEW s \in Seq(Char), NEW t \in Seq(Char), Len(s) = Len(t),
           \A k \in 1..Len(s) : s[k] = t[k]
    PROVE  s = t
  BY SeqEqual

\* An edit that can be applied, applied.
LEMMA AppliedAt ==
    ASSUME NEW s \in Seq(Char), NEW e \in EditType, Applicable(e, Len(s))
    PROVE  /\ IsInsert(e) => /\ e.position <= Len(s)
                             /\ Inserted(Apply(s, e), s, e.position, e.text)
           /\ ~IsInsert(e) => /\ e.length = 0 \/ e.position + e.length <= Len(s)
                              /\ Erased(Apply(s, e), s, e.position, e.length)
  <1>1. CASE IsInsert(e)
    <2>1. e.position <= Len(s)
      BY <1>1 DEF Applicable, Valid
    <2> QED BY <1>1, <2>1, InsertAt
  <1>2. CASE ~IsInsert(e)
    <2>1. e.length = 0 \/ e.position + e.length <= Len(s)
      BY <1>2 DEF Applicable, Valid
    <2> QED BY <1>2, <2>1, DeleteAt
  <1> QED BY <1>1, <1>2

\* A transformed edit is an edit.
LEMMA TransformTyped ==
    ASSUME NEW incoming \in EditType, NEW applied \in EditType, NEW wins \in BOOLEAN
    PROVE  /\ Transform(incoming, applied, wins) \in EditType
           /\ IsInsert(Transform(incoming, applied, wins)) <=> IsInsert(incoming)
  <1>1. /\ incoming.position \in Nat /\ incoming.length \in Nat /\ incoming.text \in Seq(Char)
        /\ applied.position \in Nat /\ applied.length \in Nat /\ Len(applied.text) \in Nat
    BY DEF EditType
  <1>2. CASE IsInsert(applied)
    <2> DEFINE shift == Len(applied.text)
    <2>1. incoming.position + shift \in Nat /\ incoming.length + shift \in Nat
      BY <1>1
    <2>2. CASE IsInsert(incoming)
      <3>1. Transform(incoming, applied, wins)
               \in {incoming, Insert(incoming.position + shift, incoming.text)}
        BY <1>2, <2>2 DEF Transform, AgainstInsert
      <3> HIDE DEF shift
      <3> QED BY <1>1, <2>1, <2>2, <3>1, ConstructorsType
    <2>3. CASE ~IsInsert(incoming)
      <3>1. Transform(incoming, applied, wins)
               \in {incoming, Delete(incoming.position + shift, incoming.length),
                    Delete(incoming.position, incoming.length + shift)}
        BY <1>2, <2>3 DEF Transform, AgainstInsert
      <3> HIDE DEF shift
      <3> QED BY <1>1, <2>1, <2>3, <3>1, ConstructorsType
    <2> QED BY <2>2, <2>3
  <1>3. CASE ~IsInsert(applied) /\ IsInsert(incoming)
    <2>1. Most(applied.position, incoming.position - applied.length) \in Nat
      BY <1>1 DEF Most
    <2> QED BY <1>1, <1>3, <2>1, ConstructorsType
            DEF Transform, AgainstDelete, Insert, Delete, IsInsert
  <1>4. CASE ~IsInsert(applied) /\ ~IsInsert(incoming)
    <2> DEFINE newStart == incoming.position
                   - Least(applied.length, Most(0, incoming.position - applied.position))
               overlap == Most(0, Least(incoming.position + incoming.length,
                                        applied.position + applied.length)
                                  - Most(incoming.position, applied.position))
               rest == Most(0, incoming.length - overlap)
    <2>1. newStart \in Nat
      BY <1>1 DEF Least, Most
    <2>2. overlap \in Nat
      BY <1>1 DEF Least, Most
    <2> HIDE DEF overlap
    <2>3. rest \in Nat
      BY <1>1, <2>2 DEF Most
    <2>4. Transform(incoming, applied, wins) = Delete(newStart, rest)
      BY <1>4 DEF Transform, AgainstDelete, overlap
    <2> HIDE DEF newStart, rest
    <2>5. <<>> \in Seq(Char)
      OBVIOUS
    <2> QED BY <1>4, <2>1, <2>3, <2>4, <2>5, ConstructorsType
  <1> QED BY <1>2, <1>3, <1>4

-----------------------------------------------------------------------------
(* Either order gives the same body.                                        *)

\* An insertion of t at p and then, shifted, one of v at q, and the same the other way round.
LEMMA InsertedTwice ==
    \A s, t, v, p, q, c, x, y, xx, yy :
        /\ Inserted(x, s, p, t)
        /\ Inserted(xx, x, c, v)
        /\ Inserted(y, s, q, v)
        /\ Inserted(yy, y, p, t)
        /\ p <= q
        /\ c = q + Len(t)
        => xx = yy
  <1> SUFFICES ASSUME NEW s, NEW t, NEW v, NEW p, NEW q, NEW c, NEW x, NEW y, NEW xx, NEW yy,
                      Inserted(x, s, p, t),
                      Inserted(xx, x, c, v),
                      Inserted(y, s, q, v),
                      Inserted(yy, y, p, t),
                      p <= q,
                      c = q + Len(t)
               PROVE  xx = yy
    OBVIOUS
  <1>1. PICK n \in Nat, A \in Nat, B \in Nat : n = Len(s) /\ A = Len(t) /\ B = Len(v)
    BY DEF Inserted
  <1> p \in Nat /\ q \in Nat /\ q <= n /\ c = q + A
    BY <1>1 DEF Inserted
  <1>2. /\ Len(x) = n + A /\ Len(y) = n + B
        /\ xx \in Seq(Char) /\ Len(xx) = n + A + B /\ yy \in Seq(Char) /\ Len(yy) = n + A + B
    BY <1>1 DEF Inserted
  <1>3. /\ \A k \in 1..p : x[k] = s[k]
        /\ \A k \in (p + 1)..(p + A) : x[k] = t[k - p]
        /\ \A k \in (p + A + 1)..(n + A) : x[k] = s[k - A]
    BY <1>1, <1>2 DEF Inserted
  <1>4. /\ \A k \in 1..q : y[k] = s[k]
        /\ \A k \in (q + 1)..(q + B) : y[k] = v[k - q]
        /\ \A k \in (q + B + 1)..(n + B) : y[k] = s[k - B]
    BY <1>1, <1>2 DEF Inserted
  <1>5. /\ \A k \in 1..(q + A) : xx[k] = x[k]
        /\ \A k \in (q + A + 1)..(q + A + B) : xx[k] = v[k - (q + A)]
        /\ \A k \in (q + A + B + 1)..(n + A + B) : xx[k] = x[k - B]
    BY <1>1, <1>2 DEF Inserted
  <1>6. /\ \A k \in 1..p : yy[k] = y[k]
        /\ \A k \in (p + 1)..(p + A) : yy[k] = t[k - p]
        /\ \A k \in (p + A + 1)..(n + A + B) : yy[k] = y[k - A]
    BY <1>1, <1>2 DEF Inserted
  <1>7. ASSUME NEW k \in 1..(n + A + B)
        PROVE  xx[k] = yy[k]
    <2>1. CASE k <= p
      BY <1>1, <1>3, <1>4, <1>5, <1>6, <2>1
    <2>2. CASE p < k /\ k <= p + A
      <3>1. xx[k] = x[k] /\ x[k] = t[k - p]
        BY <1>3, <1>5, <2>2
      <3>2. k \in (p + 1)..(p + A)
        BY <2>2
      <3> QED BY <1>6, <3>1, <3>2
    <2>3. CASE p + A < k /\ k <= q + A
      <3>1. k \in 1..(q + A) /\ k \in (p + A + 1)..(n + A) /\ k \in (p + A + 1)..(n + A + B)
        BY <2>3
      <3>2. k - A \in 1..q
        BY <2>3
      <3>3. xx[k] = x[k] /\ x[k] = s[k - A]
        BY <1>3, <1>5, <3>1
      <3>4. yy[k] = y[k - A] /\ y[k - A] = s[k - A]
        BY <1>4, <1>6, <3>1, <3>2
      <3> QED BY <3>3, <3>4
    <2>4. CASE q + A < k /\ k <= q + A + B
      <3>1. xx[k] = v[k - (q + A)]
        BY <1>1, <1>5, <2>4
      <3>2. yy[k] = y[k - A] /\ k - A \in (q + 1)..(q + B)
        <4>1. k \in (p + A + 1)..(n + A + B)
          BY <2>4
        <4>2. k - A \in (q + 1)..(q + B)
          BY <2>4
        <4> QED BY <1>6, <4>1, <4>2
      <3>3. y[k - A] = v[(k - A) - q] /\ (k - A) - q = k - (q + A)
        BY <1>4, <3>2
      <3> QED BY <3>1, <3>2, <3>3
    <2>5. CASE q + A + B < k
      <3>1. xx[k] = x[k - B] /\ k - B \in (p + A + 1)..(n + A)
        BY <1>1, <1>5, <2>5
      <3>2. x[k - B] = s[(k - B) - A]
        BY <1>3, <3>1
      <3>3. yy[k] = y[k - A] /\ k - A \in (q + B + 1)..(n + B)
        BY <1>1, <1>6, <2>5
      <3>4. y[k - A] = s[(k - A) - B] /\ (k - A) - B = (k - B) - A
        BY <1>4, <3>3
      <3> QED BY <3>1, <3>2, <3>3, <3>4
    <2> QED BY <2>1, <2>2, <2>3, <2>4, <2>5
  <1> QED BY <1>2, <1>7, SameBody

\* An insertion of t at p and, behind it, a deletion of d characters at q.
LEMMA InsertedThenErased ==
    \A s, t, p, q, d, c, x, y, xx, yy :
        /\ Inserted(x, s, p, t)
        /\ Erased(xx, x, c, d)
        /\ Erased(y, s, q, d)
        /\ Inserted(yy, y, p, t)
        /\ p <= q
        /\ c = q + Len(t)
        => xx = yy
  <1> SUFFICES ASSUME NEW s, NEW t, NEW p, NEW q, NEW d, NEW c, NEW x, NEW y, NEW xx, NEW yy,
                      Inserted(x, s, p, t),
                      Erased(xx, x, c, d),
                      Erased(y, s, q, d),
                      Inserted(yy, y, p, t),
                      p <= q,
                      c = q + Len(t)
               PROVE  xx = yy
    OBVIOUS
  <1>1. PICK n \in Nat, A \in Nat : n = Len(s) /\ A = Len(t)
    BY DEF Inserted
  <1> p \in Nat /\ q \in Nat /\ d \in Nat /\ p <= n /\ (d = 0 \/ q + d <= n)
    BY <1>1 DEF Inserted, Erased
  <1>2. /\ Len(x) = n + A /\ Len(y) = n - d
        /\ xx \in Seq(Char) /\ Len(xx) = n + A - d /\ yy \in Seq(Char) /\ Len(yy) = n + A - d
    BY <1>1 DEF Inserted, Erased
  <1>3. /\ \A k \in 1..p : x[k] = s[k]
        /\ \A k \in (p + 1)..(p + A) : x[k] = t[k - p]
        /\ \A k \in (p + A + 1)..(n + A) : x[k] = s[k - A]
    BY <1>1, <1>2 DEF Inserted
  <1>4. /\ \A k \in 1..(n - d) : k <= q => y[k] = s[k]
        /\ \A k \in (q + 1)..(n - d) : y[k] = s[k + d]
    BY <1>1, <1>2 DEF Erased
  <1>5. /\ \A k \in 1..(n + A - d) : k <= q + A => xx[k] = x[k]
        /\ \A k \in (q + A + 1)..(n + A - d) : xx[k] = x[k + d]
    BY <1>1, <1>2 DEF Erased
  <1>6. /\ \A k \in 1..p : yy[k] = y[k]
        /\ \A k \in (p + 1)..(p + A) : yy[k] = t[k - p]
        /\ \A k \in (p + A + 1)..(n + A - d) : yy[k] = y[k - A]
    BY <1>1, <1>2 DEF Inserted
  <1>7. ASSUME NEW k \in 1..(n + A - d)
        PROVE  xx[k] = yy[k]
    <2>1. CASE k <= p
      <3>1. xx[k] = x[k] /\ x[k] = s[k]
        BY <1>3, <1>5, <2>1
      <3>2. yy[k] = y[k] /\ k \in 1..(n - d)
        BY <1>1, <1>6, <2>1
      <3> QED BY <1>4, <2>1, <3>1, <3>2
    <2>2. CASE p < k /\ k <= p + A
      <3>1. xx[k] = x[k] /\ x[k] = t[k - p]
        BY <1>3, <1>5, <2>2
      <3> QED BY <1>6, <2>2, <3>1
    <2>3. CASE p + A < k /\ k <= q + A
      <3>1. xx[k] = x[k] /\ k \in (p + A + 1)..(n + A)
        BY <1>5, <2>3
      <3>2. yy[k] = y[k - A] /\ k - A \in 1..(n - d) /\ k - A <= q
        BY <1>6, <2>3
      <3> QED BY <1>3, <1>4, <3>1, <3>2
    <2>4. CASE q + A < k
      <3>1. xx[k] = x[k + d] /\ k + d \in (p + A + 1)..(n + A)
        BY <1>5, <2>4
      <3>2. x[k + d] = s[(k + d) - A]
        BY <1>3, <3>1
      <3>3. yy[k] = y[k - A] /\ k - A \in (q + 1)..(n - d)
        BY <1>6, <2>4
      <3>4. y[k - A] = s[(k - A) + d] /\ (k - A) + d = (k + d) - A
        BY <1>4, <3>3
      <3> QED BY <3>1, <3>2, <3>3, <3>4
    <2> QED BY <2>1, <2>2, <2>3, <2>4
  <1> QED BY <1>2, <1>7, SameBody

\* A deletion of d characters at q and, behind it, an insertion of t at p.
LEMMA ErasedThenInserted ==
    \A s, t, p, q, d, c, x, y, xx, yy :
        /\ Inserted(x, s, p, t)
        /\ Erased(xx, x, q, d)
        /\ Erased(y, s, q, d)
        /\ Inserted(yy, y, c, t)
        /\ q + d <= p
        /\ c = p - d
        => xx = yy
  <1> SUFFICES ASSUME NEW s, NEW t, NEW p, NEW q, NEW d, NEW c, NEW x, NEW y, NEW xx, NEW yy,
                      Inserted(x, s, p, t),
                      Erased(xx, x, q, d),
                      Erased(y, s, q, d),
                      Inserted(yy, y, c, t),
                      q + d <= p,
                      c = p - d
               PROVE  xx = yy
    OBVIOUS
  <1>1. PICK n \in Nat, A \in Nat : n = Len(s) /\ A = Len(t)
    BY DEF Inserted
  <1> p \in Nat /\ q \in Nat /\ d \in Nat /\ p <= n /\ (d = 0 \/ q + d <= n)
    BY <1>1 DEF Inserted, Erased
  <1>2. /\ Len(x) = n + A /\ Len(y) = n - d
        /\ xx \in Seq(Char) /\ Len(xx) = n + A - d /\ yy \in Seq(Char) /\ Len(yy) = n + A - d
    BY <1>1 DEF Inserted, Erased
  <1>3. /\ \A k \in 1..p : x[k] = s[k]
        /\ \A k \in (p + 1)..(p + A) : x[k] = t[k - p]
        /\ \A k \in (p + A + 1)..(n + A) : x[k] = s[k - A]
    BY <1>1, <1>2 DEF Inserted
  <1>4. /\ \A k \in 1..(n - d) : k <= q => y[k] = s[k]
        /\ \A k \in (q + 1)..(n - d) : y[k] = s[k + d]
    BY <1>1, <1>2 DEF Erased
  <1>5. /\ \A k \in 1..(n + A - d) : k <= q => xx[k] = x[k]
        /\ \A k \in (q + 1)..(n + A - d) : xx[k] = x[k + d]
    BY <1>1, <1>2 DEF Erased
  <1>6. /\ \A k \in 1..(p - d) : yy[k] = y[k]
        /\ \A k \in (p - d + 1)..(p - d + A) : yy[k] = t[k - (p - d)]
        /\ \A k \in (p - d + A + 1)..(n + A - d) : yy[k] = y[k - A]
    BY <1>1, <1>2 DEF Inserted
  <1>7. ASSUME NEW k \in 1..(n + A - d)
        PROVE  xx[k] = yy[k]
    <2>1. CASE k <= q
      <3>1. xx[k] = x[k] /\ k \in 1..p
        BY <1>5, <2>1
      <3>2. yy[k] = y[k] /\ k \in 1..(n - d)
        BY <1>1, <1>6, <2>1
      <3> QED BY <1>3, <1>4, <2>1, <3>1, <3>2
    <2>2. CASE q < k /\ k <= p - d
      <3>1. xx[k] = x[k + d] /\ k + d \in 1..p
        BY <1>5, <2>2
      <3>2. yy[k] = y[k] /\ k \in (q + 1)..(n - d)
        BY <1>1, <1>6, <2>2
      <3> QED BY <1>3, <1>4, <3>1, <3>2
    <2>3. CASE p - d < k /\ k <= p - d + A
      <3>1. xx[k] = x[k + d] /\ k + d \in (p + 1)..(p + A)
        BY <1>5, <2>3
      <3>2. x[k + d] = t[(k + d) - p] /\ (k + d) - p = k - (p - d)
        BY <1>3, <3>1
      <3> QED BY <1>6, <2>3, <3>1, <3>2
    <2>4. CASE p - d + A < k
      <3>1. xx[k] = x[k + d] /\ k + d \in (p + A + 1)..(n + A)
        BY <1>5, <2>4
      <3>2. x[k + d] = s[(k + d) - A]
        BY <1>3, <3>1
      <3>3. yy[k] = y[k - A] /\ k - A \in (q + 1)..(n - d)
        BY <1>6, <2>4
      <3>4. y[k - A] = s[(k - A) + d] /\ (k - A) + d = (k + d) - A
        BY <1>4, <3>3
      <3> QED BY <3>1, <3>2, <3>3, <3>4
    <2> QED BY <2>1, <2>2, <2>3, <2>4
  <1> QED BY <1>2, <1>7, SameBody

\* A deletion of d characters at p and one of e at q, behind them.
LEMMA ErasedApart ==
    \A s, p, d, q, e, c, x, y, xx, yy :
        /\ Erased(x, s, p, d)
        /\ Erased(xx, x, c, e)
        /\ Erased(y, s, q, e)
        /\ Erased(yy, y, p, d)
        /\ p + d <= q
        /\ c = q - d
        => xx = yy
  <1> SUFFICES ASSUME NEW s, NEW p, NEW d, NEW q, NEW e, NEW c, NEW x, NEW y, NEW xx, NEW yy,
                      Erased(x, s, p, d),
                      Erased(xx, x, c, e),
                      Erased(y, s, q, e),
                      Erased(yy, y, p, d),
                      p + d <= q,
                      c = q - d
               PROVE  xx = yy
    OBVIOUS
  <1>1. PICK n \in Nat : n = Len(s)
    BY DEF Erased
  <1> /\ p \in Nat /\ q \in Nat /\ d \in Nat /\ e \in Nat
      /\ d = 0 \/ p + d <= n
      /\ e = 0 \/ q + e <= n
    BY <1>1 DEF Erased
  <1>2. /\ Len(x) = n - d /\ Len(y) = n - e
        /\ xx \in Seq(Char) /\ Len(xx) = n - d - e /\ yy \in Seq(Char) /\ Len(yy) = n - d - e
    BY <1>1 DEF Erased
  <1>3. /\ \A k \in 1..(n - d) : k <= p => x[k] = s[k]
        /\ \A k \in (p + 1)..(n - d) : x[k] = s[k + d]
    BY <1>1, <1>2 DEF Erased
  <1>4. /\ \A k \in 1..(n - e) : k <= q => y[k] = s[k]
        /\ \A k \in (q + 1)..(n - e) : y[k] = s[k + e]
    BY <1>1, <1>2 DEF Erased
  <1>5. /\ \A k \in 1..(n - d - e) : k <= q - d => xx[k] = x[k]
        /\ \A k \in (q - d + 1)..(n - d - e) : xx[k] = x[k + e]
    BY <1>1, <1>2 DEF Erased
  <1>6. /\ \A k \in 1..(n - d - e) : k <= p => yy[k] = y[k]
        /\ \A k \in (p + 1)..(n - d - e) : yy[k] = y[k + d]
    BY <1>1, <1>2 DEF Erased
  <1>7. ASSUME NEW k \in 1..(n - d - e)
        PROVE  xx[k] = yy[k]
    <2>1. CASE k <= p
      <3>1. xx[k] = x[k] /\ k \in 1..(n - d)
        BY <1>5, <2>1
      <3>2. yy[k] = y[k] /\ k \in 1..(n - e) /\ k <= q
        BY <1>6, <2>1
      <3> QED BY <1>3, <1>4, <2>1, <3>1, <3>2
    <2>2. CASE p < k /\ k <= q - d
      <3>1. xx[k] = x[k] /\ k \in (p + 1)..(n - d)
        BY <1>5, <2>2
      <3>2. yy[k] = y[k + d] /\ k + d \in 1..(n - e) /\ k + d <= q
        BY <1>6, <2>2
      <3> QED BY <1>3, <1>4, <3>1, <3>2
    <2>3. CASE q - d < k
      <3>1. xx[k] = x[k + e] /\ k + e \in (p + 1)..(n - d)
        BY <1>5, <2>3
      <3>2. yy[k] = y[k + d] /\ k + d \in (q + 1)..(n - e)
        BY <1>6, <2>3
      <3>3. x[k + e] = s[(k + e) + d] /\ y[k + d] = s[(k + d) + e] /\ (k + e) + d = (k + d) + e
        BY <1>3, <1>4, <3>1, <3>2
      <3> QED BY <3>1, <3>2, <3>3
    <2> QED BY <2>1, <2>2, <2>3
  <1> QED BY <1>2, <1>7, SameBody

\* How many characters deletions of d at p and of e at q, behind p, have in common.
Common(p, d, q, e) == IF p + d <= q + e THEN p + d - q ELSE e

\* Deletions of d characters at p and of e at q that have characters in common.
LEMMA ErasedTogether ==
    \A s, p, d, q, e, f, g, x, y, xx, yy :
        /\ Erased(x, s, p, d)
        /\ Erased(xx, x, p, f)
        /\ Erased(y, s, q, e)
        /\ Erased(yy, y, p, g)
        /\ p <= q
        /\ q < p + d
        /\ f = e - Common(p, d, q, e)
        /\ g = d - Common(p, d, q, e)
        => xx = yy
  <1> SUFFICES ASSUME NEW s, NEW p, NEW d, NEW q, NEW e, NEW f, NEW g, NEW x, NEW y, NEW xx, NEW yy,
                      Erased(x, s, p, d),
                      Erased(xx, x, p, f),
                      Erased(y, s, q, e),
                      Erased(yy, y, p, g),
                      p <= q,
                      q < p + d,
                      f = e - Common(p, d, q, e),
                      g = d - Common(p, d, q, e)
               PROVE  xx = yy
    OBVIOUS
  <1>1. PICK n \in Nat : n = Len(s)
    BY DEF Erased
  <1> /\ p \in Nat /\ q \in Nat /\ d \in Nat /\ e \in Nat
      /\ d = 0 \/ p + d <= n
      /\ e = 0 \/ q + e <= n
    BY <1>1 DEF Erased
  <1>2. PICK o \in Nat : o = Common(p, d, q, e) /\ f = e - o /\ g = d - o
    BY DEF Common
  <1>3. /\ Len(x) = n - d /\ Len(y) = n - e
        /\ xx \in Seq(Char) /\ Len(xx) = n - d - (e - o)
        /\ yy \in Seq(Char) /\ Len(yy) = n - d - (e - o)
    BY <1>1, <1>2 DEF Erased
  <1>4. /\ \A k \in 1..(n - d) : k <= p => x[k] = s[k]
        /\ \A k \in (p + 1)..(n - d) : x[k] = s[k + d]
    BY <1>1, <1>3, <1>2 DEF Erased
  <1>5. /\ \A k \in 1..(n - e) : k <= q => y[k] = s[k]
        /\ \A k \in (q + 1)..(n - e) : y[k] = s[k + e]
    BY <1>1, <1>3, <1>2 DEF Erased
  <1>6. /\ \A k \in 1..(n - d - (e - o)) : k <= p => xx[k] = x[k]
        /\ \A k \in (p + 1)..(n - d - (e - o)) : xx[k] = x[k + (e - o)]
    BY <1>1, <1>3, <1>2 DEF Erased
  <1>7. /\ \A k \in 1..(n - d - (e - o)) : k <= p => yy[k] = y[k]
        /\ \A k \in (p + 1)..(n - d - (e - o)) : yy[k] = y[k + (d - o)]
    BY <1>1, <1>3, <1>2 DEF Erased
  <1>8. e >= o /\ d - o >= q - p
    BY <1>2 DEF Common
  <1>9. ASSUME NEW k \in 1..(n - d - (e - o))
        PROVE  xx[k] = yy[k]
    <2>1. CASE k <= p
      <3>1. xx[k] = x[k] /\ k \in 1..(n - d)
        BY <1>6, <1>8, <2>1
      <3>2. yy[k] = y[k] /\ k \in 1..(n - e) /\ k <= q
        BY <1>7, <1>8, <2>1
      <3> QED BY <1>4, <1>5, <2>1, <3>1, <3>2
    <2>2. CASE p < k
      <3>1. xx[k] = x[k + (e - o)] /\ k + (e - o) \in (p + 1)..(n - d)
        BY <1>6, <1>8, <2>2
      <3>2. yy[k] = y[k + (d - o)] /\ k + (d - o) \in (q + 1)..(n - e)
        BY <1>7, <1>8, <2>2
      <3>3. /\ x[k + (e - o)] = s[(k + (e - o)) + d] /\ y[k + (d - o)] = s[(k + (d - o)) + e]
            /\ (k + (e - o)) + d = (k + (d - o)) + e
        BY <1>4, <1>5, <3>1, <3>2
      <3> QED BY <3>1, <3>2, <3>3
    <2> QED BY <2>1, <2>2
  <1> QED BY <1>3, <1>9, SameBody

\* The transformed edit can be applied to what the applied one left.
LEMMA MovedApplies ==
    ASSUME NEW s \in Seq(Char), NEW a \in EditType, NEW b \in EditType, NEW wins \in BOOLEAN,
           Applicable(a, Len(s)), Applicable(b, Len(s))
    PROVE  /\ Apply(s, a) \in Seq(Char)
           /\ Transform(b, a, wins) \in EditType
           /\ IsInsert(Transform(b, a, wins)) <=> IsInsert(b)
           /\ Applicable(Transform(b, a, wins), Len(Apply(s, a)))
  <1>1. Len(Apply(s, a)) = Len(s) + Growth(a) /\ Apply(s, a) \in Seq(Char)
    <2>1. a.length \in Nat /\ Len(s) \in Nat
      BY DEF EditType
    <2>2. CASE IsInsert(a)
      BY <2>2, AppliedAt DEF Inserted, Growth
    <2>3. CASE ~IsInsert(a)
      BY <2>1, <2>3, AppliedAt DEF Erased, Growth
    <2> QED BY <2>2, <2>3
  <1>2. Len(s) \in Nat
    OBVIOUS
  <1>3. Applicable(Transform(b, a, wins), Len(s) + Growth(a))
    BY <1>2, TransformApplies
  <1> QED BY <1>1, <1>3, TransformTyped

\* Two insertions.
LEMMA InsertsCommute ==
    ASSUME NEW s \in Seq(Char), NEW a \in EditType, NEW b \in EditType, NEW wins \in BOOLEAN,
           Applicable(a, Len(s)), Applicable(b, Len(s)), IsInsert(a), IsInsert(b)
    PROVE  Apply(Apply(s, a), Transform(b, a, wins)) = Apply(Apply(s, b), Transform(a, b, ~wins))
  <1>1. PICK p \in Nat, q \in Nat, t \in Seq(Char), v \in Seq(Char) :
           p = a.position /\ q = b.position /\ t = a.text /\ v = b.text
    BY DEF EditType
  <1>2. PICK x \in Seq(Char) : x = Apply(s, a)
    BY MovedApplies
  <1>3. PICK y \in Seq(Char) : y = Apply(s, b)
    BY MovedApplies
  <1>4. PICK c \in EditType : c = Transform(b, a, wins)
    BY MovedApplies
  <1>5. PICK d \in EditType : d = Transform(a, b, ~wins)
    BY MovedApplies
  <1>6. /\ p <= Len(s) /\ Inserted(x, s, p, t)
        /\ q <= Len(s) /\ Inserted(y, s, q, v)
    BY <1>1, <1>2, <1>3, AppliedAt
  <1>7. Applicable(c, Len(x)) /\ IsInsert(c) /\ Applicable(d, Len(y)) /\ IsInsert(d)
    BY <1>2, <1>3, <1>4, <1>5, MovedApplies
  <1>8. PICK xx : xx = Apply(x, c)
    OBVIOUS
  <1>9. PICK yy : yy = Apply(y, d)
    OBVIOUS
  <1>10. Inserted(xx, x, c.position, c.text) /\ Inserted(yy, y, d.position, d.text)
    BY <1>7, <1>8, <1>9, AppliedAt
  <1>11. c.text = v /\ d.text = t
    BY <1>1, <1>4, <1>5 DEF Transform, AgainstInsert, Insert
  <1>12. CASE p < q \/ (p = q /\ ~wins)
    <2>1. c.position = q + Len(t) /\ d.position = p
      BY <1>1, <1>4, <1>5, <1>12 DEF Transform, AgainstInsert, Insert
    <2>2. p <= q /\ Inserted(xx, x, c.position, v) /\ Inserted(yy, y, p, t)
      BY <1>10, <1>11, <1>12, <2>1
    <2>3. xx = yy
      BY <1>6, <2>1, <2>2, InsertedTwice
    <2> QED BY <1>2, <1>3, <1>4, <1>5, <1>8, <1>9, <2>3
  <1>13. CASE q < p \/ (p = q /\ wins)
    <2>1. c.position = q /\ d.position = p + Len(v)
      BY <1>1, <1>4, <1>5, <1>13 DEF Transform, AgainstInsert, Insert
    <2>2. q <= p /\ Inserted(yy, y, d.position, t) /\ Inserted(xx, x, q, v)
      BY <1>10, <1>11, <1>13, <2>1
    <2>3. yy = xx
      BY <1>6, <2>1, <2>2, InsertedTwice
    <2> QED BY <1>2, <1>3, <1>4, <1>5, <1>8, <1>9, <2>3
  <1> QED BY <1>12, <1>13

\* An insertion a and a deletion b, whichever is applied first.
LEMMA InsertDeleteCommute ==
    ASSUME NEW s \in Seq(Char), NEW a \in EditType, NEW b \in EditType, NEW wins \in BOOLEAN,
           Applicable(a, Len(s)), Applicable(b, Len(s)), IsInsert(a), ~IsInsert(b), ~Inside(a, b)
    PROVE  Apply(Apply(s, a), Transform(b, a, wins)) = Apply(Apply(s, b), Transform(a, b, ~wins))
  <1>1. PICK p \in Nat, q \in Nat, d \in Nat, t \in Seq(Char) :
           p = a.position /\ q = b.position /\ d = b.length /\ t = a.text
    BY DEF EditType
  <1>2. PICK x \in Seq(Char) : x = Apply(s, a)
    BY MovedApplies
  <1>3. PICK y \in Seq(Char) : y = Apply(s, b)
    BY MovedApplies
  <1>4. PICK g \in EditType : g = Transform(b, a, wins)
    BY MovedApplies
  <1>5. PICK h \in EditType : h = Transform(a, b, ~wins)
    BY MovedApplies
  <1>6. /\ p <= Len(s) /\ Inserted(x, s, p, t)
        /\ d = 0 \/ q + d <= Len(s)
        /\ Erased(y, s, q, d)
    BY <1>1, <1>2, <1>3, AppliedAt
  <1>7. Applicable(g, Len(x)) /\ ~IsInsert(g) /\ Applicable(h, Len(y)) /\ IsInsert(h)
    BY <1>2, <1>3, <1>4, <1>5, MovedApplies
  <1>8. PICK xx : xx = Apply(x, g)
    OBVIOUS
  <1>9. PICK yy : yy = Apply(y, h)
    OBVIOUS
  <1>10. Erased(xx, x, g.position, g.length) /\ Inserted(yy, y, h.position, h.text)
    BY <1>7, <1>8, <1>9, AppliedAt
  <1>11. CASE p <= q
    <2>1. g.position = q + Len(t) /\ g.length = d
      BY <1>1, <1>4, <1>11 DEF Transform, AgainstInsert, Delete
    <2>2. h.position = p /\ h.text = t
      BY <1>1, <1>5, <1>11 DEF Transform, AgainstDelete
    <2>3. Erased(xx, x, g.position, d) /\ Inserted(yy, y, p, t)
      BY <1>10, <2>1, <2>2
    <2>4. xx = yy
      BY <1>6, <1>11, <2>1, <2>3, InsertedThenErased
    <2> QED BY <1>2, <1>3, <1>4, <1>5, <1>8, <1>9, <2>4
  <1>12. CASE q < p
    <2>1. q + d <= p
      BY <1>1, <1>12 DEF Inside
    <2>2. g.position = q /\ g.length = d
      BY <1>1, <1>4, <1>12, <2>1 DEF Transform, AgainstInsert
    <2>3. h.position = p - d /\ h.text = t
      BY <1>1, <1>5, <1>12, <2>1 DEF Transform, AgainstDelete, Insert, Most
    <2>4. xx = yy
      BY <1>6, <1>10, <2>1, <2>2, <2>3, ErasedThenInserted
    <2> QED BY <1>2, <1>3, <1>4, <1>5, <1>8, <1>9, <2>4
  <1> QED BY <1>11, <1>12

\* Two deletions, b not starting before a.
LEMMA DeletesCommute ==
    ASSUME NEW s \in Seq(Char), NEW a \in EditType, NEW b \in EditType, NEW wins \in BOOLEAN,
           Applicable(a, Len(s)), Applicable(b, Len(s)), ~IsInsert(a), ~IsInsert(b),
           a.position <= b.position
    PROVE  Apply(Apply(s, a), Transform(b, a, wins)) = Apply(Apply(s, b), Transform(a, b, ~wins))
  <1>1. PICK p \in Nat, d \in Nat, q \in Nat, e \in Nat, n \in Nat :
           p = a.position /\ d = a.length /\ q = b.position /\ e = b.length /\ n = Len(s)
    BY DEF EditType
  <1>2. PICK x \in Seq(Char) : x = Apply(s, a)
    BY MovedApplies
  <1>3. PICK y \in Seq(Char) : y = Apply(s, b)
    BY MovedApplies
  <1>4. PICK g \in EditType : g = Transform(b, a, wins)
    BY MovedApplies
  <1>5. PICK h \in EditType : h = Transform(a, b, ~wins)
    BY MovedApplies
  <1>6. /\ d = 0 \/ p + d <= Len(s)
        /\ Erased(x, s, p, d)
        /\ e = 0 \/ q + e <= Len(s)
        /\ Erased(y, s, q, e)
    BY <1>1, <1>2, <1>3, AppliedAt
  <1>7. Applicable(g, Len(x)) /\ ~IsInsert(g) /\ Applicable(h, Len(y)) /\ ~IsInsert(h)
    BY <1>2, <1>3, <1>4, <1>5, MovedApplies
  <1>8. PICK xx : xx = Apply(x, g)
    OBVIOUS
  <1>9. PICK yy : yy = Apply(y, h)
    OBVIOUS
  <1>10. Erased(xx, x, g.position, g.length) /\ Erased(yy, y, h.position, h.length)
    BY <1>7, <1>8, <1>9, AppliedAt
  <1>11. /\ g.position = q - Least(d, Most(0, q - p))
         /\ g.length = Most(0, e - Most(0, Least(q + e, p + d) - Most(q, p)))
         /\ h.position = p - Least(e, Most(0, p - q))
         /\ h.length = Most(0, d - Most(0, Least(p + d, q + e) - Most(p, q)))
    BY <1>1, <1>4, <1>5 DEF Transform, AgainstDelete, Delete
  <1>12. CASE p + d <= q
    <2>1. g.position = q - d /\ h.position = p
      BY <1>11, <1>12 DEF Least, Most
    <2>2. /\ Most(0, Least(q + e, p + d) - Most(q, p)) = 0
          /\ Most(0, Least(p + d, q + e) - Most(p, q)) = 0
      BY <1>12 DEF Least, Most
    <2>3. g.length = e /\ h.length = d
      BY <1>11, <2>2 DEF Most
    <2>4. Erased(xx, x, g.position, e) /\ Erased(yy, y, p, d)
      BY <1>10, <2>1, <2>3
    <2>5. xx = yy
      BY <1>6, <1>12, <2>1, <2>4, ErasedApart
    <2> QED BY <1>2, <1>3, <1>4, <1>5, <1>8, <1>9, <2>5
  <1>13. CASE q < p + d
    <2>1. PICK o : o = Common(p, d, q, e)
      OBVIOUS
    <2>2. p <= q /\ p + d <= n /\ q + e <= n /\ o \in Nat
      <3>1. p <= q
        BY <1>1
      <3>2. d # 0 /\ p + d <= n
        BY <1>1, <1>6, <1>13, <3>1
      <3>3. q + e <= n
        BY <1>1, <1>6, <1>13, <3>2
      <3>4. o \in Nat
        BY <1>13, <2>1 DEF Common
      <3> QED BY <3>1, <3>2, <3>3, <3>4
    <2>3. g.position = p /\ h.position = p
      BY <1>11, <1>13, <2>2 DEF Least, Most
    <2>4. Least(q + e, p + d) - Most(q, p) = o /\ Least(p + d, q + e) - Most(p, q) = o
      BY <1>13, <2>1, <2>2 DEF Least, Most, Common
    <2>5. Most(0, o) = o /\ Most(0, e - o) = e - o /\ Most(0, d - o) = d - o
      BY <1>13, <2>1, <2>2 DEF Most, Common
    <2>6. /\ Erased(xx, x, p, g.length) /\ g.length = e - o
          /\ Erased(yy, y, p, h.length) /\ h.length = d - o
      BY <1>10, <1>11, <2>3, <2>4, <2>5
    <2>7. xx = yy
      BY <1>6, <1>13, <2>1, <2>2, <2>6, ErasedTogether
    <2> QED BY <1>2, <1>3, <1>4, <1>5, <1>8, <1>9, <2>7
  <1> QED BY <1>12, <1>13

\* For bodies and edits of every size, two concurrent edits leave the same body in
\* either order, unless an insertion lies strictly inside the other's deletion: the
\* phones and the server agree on a note whoever was applied first (transform).
THEOREM EitherOrder ==
    ASSUME NEW s \in Seq(Char), NEW a \in EditType, NEW b \in EditType, NEW wins \in BOOLEAN,
           Applicable(a, Len(s)), Applicable(b, Len(s)), ~Inside(a, b), ~Inside(b, a)
    PROVE  Apply(Apply(s, a), Transform(b, a, wins)) = Apply(Apply(s, b), Transform(a, b, ~wins))
  <1>1. CASE IsInsert(a) /\ IsInsert(b)
    BY <1>1, InsertsCommute
  <1>2. CASE IsInsert(a) /\ ~IsInsert(b)
    BY <1>2, InsertDeleteCommute
  <1>3. CASE ~IsInsert(a) /\ IsInsert(b)
    <2>1. (~wins) \in BOOLEAN /\ (~(~wins)) = wins
      OBVIOUS
    <2>2. Apply(Apply(s, b), Transform(a, b, ~wins)) = Apply(Apply(s, a), Transform(b, a, ~(~wins)))
      BY <1>3, <2>1, InsertDeleteCommute
    <2> QED BY <2>1, <2>2
  <1>4. CASE ~IsInsert(a) /\ ~IsInsert(b)
    <2>1. a.position \in Nat /\ b.position \in Nat
      BY DEF EditType
    <2>2. CASE a.position <= b.position
      BY <1>4, <2>2, DeletesCommute
    <2>3. CASE b.position <= a.position
      <3>1. (~wins) \in BOOLEAN /\ (~(~wins)) = wins
        OBVIOUS
      <3>2. Apply(Apply(s, b), Transform(a, b, ~wins)) = Apply(Apply(s, a), Transform(b, a, ~(~wins)))
        BY <1>4, <2>3, <3>1, DeletesCommute
      <3> QED BY <3>1, <3>2
    <2> QED BY <2>1, <2>2, <2>3
  <1> QED BY <1>1, <1>2, <1>3, <1>4

-----------------------------------------------------------------------------
(* What two authors meant.  The body is 1..n, and the authors write numbers *)
(* that are not in it, so that a character tells where it comes from.       *)

\* An edit of a body of n characters that writes the characters after c.
Authored(e, n, c) ==
    /\ e \in EditType /\ Applicable(e, n)
    /\ IsInsert(e) => /\ Len(e.text) \in 1..MaxText
                      /\ \A i \in 1..Len(e.text) : e.text[i] = c + i

EditInv ==
    /\ \E n \in 0..MaxLen : body = [i \in 1..n |-> i]
    /\ Authored(first, Len(body), MaxLen)
    /\ Authored(second, Len(body), MaxLen + MaxText)
    /\ winsTie \in BOOLEAN

LEMMA EditsAuthored ==
    ASSUME NEW n \in Nat, NEW c \in Nat, NEW e \in Edits(n, c)
    PROVE  Authored(e, n, c)
  <1> USE EditsAssumption
  <1>1. CASE e \in {Insert(p, NewText(k, c)) : p \in 0..n, k \in 1..MaxText}
    <2>1. PICK p \in 0..n, k \in 1..MaxText : e = Insert(p, NewText(k, c))
      BY <1>1
    <2>2. PICK t : t = NewText(k, c)
      OBVIOUS
    <2>3. k \in Nat /\ \A i \in 1..k : c + i \in Char
      BY DEF Char
    <2>4. t \in Seq(Char) /\ Len(t) = k /\ \A i \in 1..k : t[i] = c + i
      BY <2>2, <2>3 DEF NewText
    <2>5. t # <<>>
      BY <2>4
    <2>6. /\ e \in EditType /\ IsInsert(e) /\ e.text = t /\ e.position \in 0..n
      <3>1. e = Insert(p, t) /\ p \in Nat /\ 0 \in Nat
        BY <2>1, <2>2
      <3> QED BY <2>4, <3>1, ConstructorsType DEF Insert
    <2>7. Applicable(e, n)
      BY <2>5, <2>6 DEF Applicable, Valid
    <2> QED BY <2>4, <2>6, <2>7 DEF Authored
  <1>2. CASE e \in {d \in {Delete(p, k) : p \in 0..n, k \in 1..n} : Valid(d, n)}
    <2>1. PICK p \in 0..n, k \in 1..n : e = Delete(p, k) /\ Valid(e, n)
      BY <1>2
    <2>2. e \in EditType /\ ~IsInsert(e)
      BY <2>1 DEF Delete, EditType, IsInsert
    <2> QED BY <2>1, <2>2 DEF Authored, Applicable
  <1> QED BY <1>1, <1>2 DEF Edits

LEMMA NothingAuthored ==
    ASSUME NEW n \in Nat, NEW c \in Nat
    PROVE  Authored(Nothing, n, c)
  BY DEF Authored, Nothing, Delete, EditType, IsInsert, Applicable, Char

LEMMA EditsInvariant == EditsSpec => []EditInv
  <1> USE EditsAssumption
  <1>1. EditsInit => EditInv
    <2> SUFFICES ASSUME EditsInit PROVE EditInv
      OBVIOUS
    <2>1. PICK n \in 0..MaxLen : body = [i \in 1..n |-> i]
      BY DEF EditsInit
    <2>2. Len(body) \in Nat
      BY <2>1
    <2>3. Authored(Nothing, Len(body), MaxLen) /\ Authored(Nothing, Len(body), MaxLen + MaxText)
      BY <2>2, NothingAuthored
    <2> QED BY <2>1, <2>3 DEF EditsInit, EditInv
  <1>2. EditInv /\ [EditsNext]_editVars => EditInv'
    <2> SUFFICES ASSUME EditInv, [EditsNext]_editVars PROVE EditInv'
      OBVIOUS
    <2>1. Len(body) \in Nat
      BY DEF EditInv
    <2>2. CASE FirstArrives
      <3>1. Authored(first', Len(body), MaxLen)
        BY <2>1, <2>2, EditsAuthored DEF FirstArrives
      <3> QED BY <2>2, <3>1 DEF FirstArrives, EditInv
    <2>3. CASE SecondArrives
      <3>1. Authored(second', Len(body), MaxLen + MaxText)
        BY <2>1, <2>3, EditsAuthored DEF SecondArrives
      <3> QED BY <2>3, <3>1 DEF SecondArrives, EditInv
    <2>4. CASE UNCHANGED editVars
      BY <2>4 DEF editVars, EditInv
    <2> QED BY <2>2, <2>3, <2>4 DEF EditsNext
  <1> QED BY <1>1, <1>2, PTL DEF EditsSpec

\* An insertion brings its characters and takes none.
LEMMA InsertedChars ==
    \A r, s, p, t : Inserted(r, s, p, t) => Chars(r) = Chars(s) \cup Chars(t)
  <1> SUFFICES ASSUME NEW r, NEW s, NEW p, NEW t, Inserted(r, s, p, t)
               PROVE  Chars(r) = Chars(s) \cup Chars(t)
    OBVIOUS
  <1>1. PICK n \in Nat, L \in Nat : n = Len(s) /\ L = Len(t)
    BY DEF Inserted
  <1>2. /\ p \in Nat /\ p <= n /\ Len(r) = n + L
        /\ \A k \in 1..p : r[k] = s[k]
        /\ \A k \in (p + 1)..(p + L) : r[k] = t[k - p]
        /\ \A k \in (p + L + 1)..(n + L) : r[k] = s[k - L]
    BY <1>1 DEF Inserted
  <1>3. ASSUME NEW k \in 1..(n + L)
        PROVE  r[k] \in Chars(s) \cup Chars(t)
    <2>1. CASE k <= p
      BY <1>1, <1>2, <2>1 DEF Chars
    <2>2. CASE p < k /\ k <= p + L
      <3>1. r[k] = t[k - p] /\ k - p \in 1..L
        BY <1>2, <2>2
      <3> QED BY <1>1, <3>1 DEF Chars
    <2>3. CASE p + L < k
      <3>1. r[k] = s[k - L] /\ k - L \in 1..n
        BY <1>2, <2>3
      <3> QED BY <1>1, <3>1 DEF Chars
    <2> QED BY <1>2, <2>1, <2>2, <2>3
  <1>4. ASSUME NEW i \in 1..n
        PROVE  s[i] \in Chars(r)
    <2>1. CASE i <= p
      <3>1. i \in 1..Len(r) /\ r[i] = s[i]
        BY <1>2, <2>1
      <3> QED BY <3>1 DEF Chars
    <2>2. CASE p < i
      <3>1. i + L \in 1..Len(r) /\ r[i + L] = s[(i + L) - L] /\ (i + L) - L = i
        BY <1>2, <2>2
      <3> QED BY <3>1 DEF Chars
    <2> QED BY <1>2, <2>1, <2>2
  <1>5. ASSUME NEW i \in 1..L
        PROVE  t[i] \in Chars(r)
    <2>1. p + i \in 1..Len(r) /\ r[p + i] = t[(p + i) - p] /\ (p + i) - p = i
      BY <1>2
    <2> QED BY <2>1 DEF Chars
  <1>6. /\ Chars(r) = {r[k] : k \in 1..(n + L)}
        /\ Chars(s) = {s[i] : i \in 1..n} /\ Chars(t) = {t[i] : i \in 1..L}
    BY <1>1, <1>2 DEF Chars
  <1>7. Chars(r) \subseteq Chars(s) \cup Chars(t)
    BY <1>3, <1>6
  <1>8. Chars(s) \subseteq Chars(r) /\ Chars(t) \subseteq Chars(r)
    BY <1>4, <1>5, <1>6
  <1> QED BY <1>7, <1>8

\* A deletion takes the characters of its range, if each is there once.
LEMMA ErasedChars ==
    \A r, s, p, d :
        Erased(r, s, p, d) /\ (\A i, j \in 1..Len(s) : s[i] = s[j] => i = j)
        => Chars(s) \ Chars(r) = {s[i] : i \in (p + 1)..(p + d)}
  <1> SUFFICES ASSUME NEW r, NEW s, NEW p, NEW d, Erased(r, s, p, d),
                      \A i, j \in 1..Len(s) : s[i] = s[j] => i = j
               PROVE  Chars(s) \ Chars(r) = {s[i] : i \in (p + 1)..(p + d)}
    OBVIOUS
  <1>1. PICK n \in Nat : n = Len(s)
    BY DEF Erased
  <1>2. /\ p \in Nat /\ d \in Nat /\ (d = 0 \/ p + d <= n) /\ Len(r) = n - d
        /\ \A k \in 1..(n - d) : k <= p => r[k] = s[k]
        /\ \A k \in (p + 1)..(n - d) : r[k] = s[k + d]
    BY <1>1 DEF Erased
  <1>3. ASSUME NEW i \in 1..n, i \notin (p + 1)..(p + d)
        PROVE  s[i] \in Chars(r)
    <2>1. CASE i <= p
      <3>1. i \in 1..Len(r) /\ r[i] = s[i]
        BY <1>2, <2>1
      <3> QED BY <3>1 DEF Chars
    <2>2. CASE p + d < i
      <3>1. i - d \in 1..Len(r) /\ r[i - d] = s[(i - d) + d] /\ (i - d) + d = i
        BY <1>2, <2>2
      <3> QED BY <3>1 DEF Chars
    <2> QED BY <1>2, <1>3, <2>1, <2>2
  <1>4. ASSUME NEW i \in (p + 1)..(p + d)
        PROVE  s[i] \in Chars(s) /\ s[i] \notin Chars(r)
    <2>1. i \in 1..n
      BY <1>2
    <2>2. ASSUME NEW k \in 1..(n - d), r[k] = s[i]
          PROVE  FALSE
      <3>1. CASE k <= p
        <4>1. s[k] = s[i] /\ k \in 1..n
          BY <1>2, <2>2, <3>1
        <4>2. k = i
          BY <1>1, <2>1, <4>1
        <4> QED BY <1>2, <3>1, <4>2
      <3>2. CASE p < k
        <4>1. s[k + d] = s[i] /\ k + d \in 1..n
          BY <1>2, <2>2, <3>2
        <4>2. k + d = i
          BY <1>1, <2>1, <4>1
        <4> QED BY <1>2, <3>2, <4>2
      <3> QED BY <1>2, <3>1, <3>2
    <2> QED BY <1>1, <1>2, <2>1, <2>2 DEF Chars
  <1>5. Chars(s) = {s[i] : i \in 1..n}
    BY <1>1 DEF Chars
  <1> QED BY <1>3, <1>4, <1>5

\* What the first edit leaves of the body 1..n: a character k of the body stands at
\* Where(first, k), unless it was deleted.
Stays(e, k) == IsInsert(e) \/ k <= e.position \/ k > e.position + e.length
Where(e, k) == IF k <= e.position THEN k ELSE k + Growth(e)

LEMMA AfterFirstAt ==
    ASSUME EditInv
    PROVE  \E n \in Nat :
              /\ n <= MaxLen /\ body \in Seq(Char) /\ Len(body) = n
              /\ \A i \in 1..n : body[i] = i
              /\ AfterFirst \in Seq(Char) /\ Len(AfterFirst) = n + Growth(first)
              /\ \A k \in 1..Len(AfterFirst), i \in 1..n :
                    AfterFirst[k] = i <=> Stays(first, i) /\ k = Where(first, i)
              /\ \A i, j \in 1..Len(AfterFirst) : AfterFirst[i] = AfterFirst[j] => i = j
              /\ \A i \in 1..n : Stays(first, i) => Where(first, i) \in 1..Len(AfterFirst)
  <1> USE EditsAssumption
  <1>1. PICK n \in 0..MaxLen : body = [i \in 1..n |-> i]
    BY DEF EditInv
  <1>2. /\ n \in Nat /\ n <= MaxLen /\ body \in Seq(Char) /\ Len(body) = n
        /\ \A i \in 1..n : body[i] = i
    BY <1>1 DEF Char
  <1>3. Authored(first, n, MaxLen)
    BY <1>2 DEF EditInv
  <1>4. PICK x : x = AfterFirst
    OBVIOUS
  <1>5. PICK p \in Nat : p = first.position
    BY <1>3 DEF Authored, EditType
  <1>6. CASE IsInsert(first)
    <2>1. PICK A \in Nat : A = Len(first.text)
      BY <1>3 DEF Authored, EditType
    <2>2. Inserted(x, body, p, first.text)
      BY <1>2, <1>3, <1>4, <1>5, <1>6, AppliedAt DEF Authored, AfterFirst
    <2>3. /\ p <= n /\ x \in Seq(Char) /\ Len(x) = n + A
          /\ \A k \in 1..p : x[k] = body[k]
          /\ \A k \in (p + 1)..(p + A) : x[k] = first.text[k - p]
          /\ \A k \in (p + A + 1)..(n + A) : x[k] = body[k - A]
      BY <1>2, <2>1, <2>2 DEF Inserted
    <2>4. \A i \in 1..A : first.text[i] = MaxLen + i
      BY <1>3, <1>6, <2>1 DEF Authored
    <2>5. ASSUME NEW k \in 1..(n + A)
          PROVE  x[k] = IF k <= p THEN k ELSE IF k <= p + A THEN MaxLen + (k - p) ELSE k - A
      <3>1. CASE k <= p
        BY <1>2, <2>3, <3>1
      <3>2. CASE p < k /\ k <= p + A
        <4>1. x[k] = first.text[k - p] /\ k - p \in 1..A
          BY <2>3, <3>2
        <4> QED BY <2>4, <3>2, <4>1
      <3>3. CASE p + A < k
        <4>1. x[k] = body[k - A] /\ k - A \in 1..n
          BY <2>3, <3>3
        <4> QED BY <1>2, <3>3, <4>1
      <3> QED BY <3>1, <3>2, <3>3
    <2>6. Growth(first) = A
      BY <1>6, <2>1 DEF Growth
    <2>7. ASSUME NEW k \in 1..(n + A), NEW i \in 1..n
          PROVE  x[k] = i <=> Stays(first, i) /\ k = Where(first, i)
      <3>1. Stays(first, i) /\ Where(first, i) = IF i <= p THEN i ELSE i + A
        BY <1>5, <1>6, <2>6 DEF Stays, Where
      <3>2. x[k] = i <=> k = IF i <= p THEN i ELSE i + A
        <4>1. CASE k <= p
          BY <2>5, <4>1
        <4>2. CASE p < k /\ k <= p + A
          BY <1>2, <2>5, <4>2
        <4>3. CASE p + A < k
          BY <2>5, <4>3
        <4> QED BY <4>1, <4>2, <4>3
      <3> QED BY <3>1, <3>2
    <2>8. ASSUME NEW i \in 1..(n + A), NEW j \in 1..(n + A), x[i] = x[j]
          PROVE  i = j
      <3>1. x[i] = IF i <= p THEN i ELSE IF i <= p + A THEN MaxLen + (i - p) ELSE i - A
        BY <2>5
      <3>2. x[j] = IF j <= p THEN j ELSE IF j <= p + A THEN MaxLen + (j - p) ELSE j - A
        BY <2>5
      <3>3. MaxLen \in Nat
        OBVIOUS
      <3>4. /\ p \in Nat /\ A \in Nat /\ p <= n /\ n <= MaxLen /\ i \in 1..(n + A) /\ j \in 1..(n + A)
            /\ (IF i <= p THEN i ELSE IF i <= p + A THEN MaxLen + (i - p) ELSE i - A)
               = (IF j <= p THEN j ELSE IF j <= p + A THEN MaxLen + (j - p) ELSE j - A)
        BY <1>2, <2>3, <2>8, <3>1, <3>2
      <3> QED BY <3>3, <3>4
    <2>9. \A i \in 1..n : Where(first, i) \in 1..(n + A)
      <3> TAKE i \in 1..n
      <3>1. Where(first, i) = IF i <= p THEN i ELSE i + A
        BY <1>5, <2>6 DEF Where
      <3> QED BY <2>3, <3>1
    <2>10. /\ AfterFirst \in Seq(Char) /\ Len(AfterFirst) = n + Growth(first)
           /\ Len(AfterFirst) = n + A
      BY <1>4, <2>3, <2>6
    <2> QED BY <1>2, <1>4, <2>7, <2>8, <2>9, <2>10
  <1>7. CASE ~IsInsert(first)
    <2>1. PICK d \in Nat : d = first.length
      BY <1>3 DEF Authored, EditType
    <2>2. Erased(x, body, p, d)
      BY <1>2, <1>3, <1>4, <1>5, <1>7, <2>1, AppliedAt DEF Authored, AfterFirst
    <2>3. /\ d = 0 \/ p + d <= n
          /\ x \in Seq(Char) /\ Len(x) = n - d
          /\ \A k \in 1..(n - d) : k <= p => x[k] = body[k]
          /\ \A k \in (p + 1)..(n - d) : x[k] = body[k + d]
      BY <1>2, <2>2 DEF Erased
    <2>5. ASSUME NEW k \in 1..(n - d)
          PROVE  x[k] = IF k <= p THEN k ELSE k + d
      <3>1. CASE k <= p
        BY <1>2, <2>3, <3>1
      <3>2. CASE p < k
        <4>1. x[k] = body[k + d] /\ k + d \in 1..n
          BY <2>3, <3>2
        <4> QED BY <1>2, <3>2, <4>1
      <3> QED BY <3>1, <3>2
    <2>6. Growth(first) = -d
      BY <1>7, <2>1 DEF Growth
    <2>7. ASSUME NEW k \in 1..(n - d), NEW i \in 1..n
          PROVE  x[k] = i <=> Stays(first, i) /\ k = Where(first, i)
      <3>1. /\ Stays(first, i) <=> i <= p \/ i > p + d
            /\ Where(first, i) = IF i <= p THEN i ELSE i - d
        BY <1>5, <1>7, <2>1, <2>6 DEF Stays, Where
      <3>2. x[k] = i <=> (i <= p \/ i > p + d) /\ k = IF i <= p THEN i ELSE i - d
        BY <2>5
      <3> QED BY <3>1, <3>2
    <2>8. \A i, j \in 1..(n - d) : x[i] = x[j] => i = j
      BY <1>2, <2>3, <2>5
    <2>9. ASSUME NEW i \in 1..n, Stays(first, i)
          PROVE  Where(first, i) \in 1..(n - d)
      <3>1. i <= p \/ i > p + d
        BY <1>5, <1>7, <2>1, <2>9 DEF Stays
      <3>2. Where(first, i) = IF i <= p THEN i ELSE i - d
        BY <1>5, <2>6 DEF Where
      <3> QED BY <2>3, <3>1, <3>2
    <2>10. n - d = n + (-d)
      BY <1>2
    <2> QED BY <1>2, <1>4, <2>3, <2>6, <2>7, <2>8, <2>9, <2>10
  <1> QED BY <1>6, <1>7

\* The second edit, after the first: what ConcurrentEditsConverge says of it.
LEMMA MovedAt ==
    ASSUME EditInv
    PROVE  /\ AfterFirst \in Seq(Char)
           /\ Moved \in EditType /\ Applicable(Moved, Len(AfterFirst))
           /\ IsInsert(Moved) <=> IsInsert(second)
           /\ IsInsert(second) =>
                 /\ Inserted(AfterBoth, AfterFirst, Moved.position, second.text)
           /\ ~IsInsert(second) =>
                 /\ Erased(AfterBoth, AfterFirst, Moved.position, Moved.length)
  <1>1. /\ body \in Seq(Char) /\ first \in EditType /\ second \in EditType /\ winsTie \in BOOLEAN
        /\ Applicable(first, Len(body)) /\ Applicable(second, Len(body))
    BY AfterFirstAt DEF EditInv, Authored
  <1>2. /\ AfterFirst \in Seq(Char) /\ Moved \in EditType
        /\ IsInsert(Moved) <=> IsInsert(second)
        /\ Applicable(Moved, Len(AfterFirst))
    BY <1>1, MovedApplies DEF AfterFirst, Moved
  <1>3. IsInsert(second) => Moved.text = second.text
    BY <1>1 DEF Moved, Transform, AgainstInsert, AgainstDelete, Insert
  <1> QED BY <1>2, <1>3, AppliedAt DEF AfterBoth

\* Where the second author's position has moved to.
LEMMA MovedPlace ==
    ASSUME EditInv, IsInsert(second)
    PROVE  \A n \in Nat : Len(body) = n =>
              \A i \in 1..n : Stays(first, i) =>
                 (Where(first, i) <= Moved.position <=> i <= second.position)
  <1> SUFFICES ASSUME NEW n \in Nat, Len(body) = n, NEW i \in 1..n, Stays(first, i)
               PROVE  Where(first, i) <= Moved.position <=> i <= second.position
    OBVIOUS
  <1>1. /\ first \in EditType /\ second \in EditType /\ winsTie \in BOOLEAN
        /\ Applicable(first, n) /\ Applicable(second, n)
    BY DEF EditInv, Authored
  <1>2. PICK p \in Nat, q \in Nat, d \in Nat, A \in Nat :
           p = first.position /\ q = second.position /\ d = first.length /\ A = Len(first.text)
    BY <1>1 DEF EditType
  <1>3. CASE IsInsert(first)
    <2>1. Where(first, i) = IF i <= p THEN i ELSE i + A
      BY <1>2, <1>3 DEF Where, Growth
    <2>2. \/ Moved.position = q /\ q <= p
          \/ Moved.position = q + A /\ p <= q
      BY <1>2, <1>3 DEF Moved, Transform, AgainstInsert, Insert
    <2> QED BY <1>2, <2>1, <2>2
  <1>4. CASE ~IsInsert(first)
    <2>1. Where(first, i) = (IF i <= p THEN i ELSE i - d) /\ (i <= p \/ i > p + d)
      BY <1>2, <1>4 DEF Where, Growth, Stays
    <2>2. \/ Moved.position = q /\ q <= p
          \/ Moved.position = Most(p, q - d) /\ p < q
      BY <1>2, <1>4 DEF Moved, Transform, AgainstDelete, Insert
    <2>3. CASE Moved.position = q /\ q <= p
      BY <1>2, <2>1, <2>3
    <2>4. CASE Moved.position = Most(p, q - d) /\ p < q
      <3>1. Moved.position = IF p > q - d THEN p ELSE q - d
        BY <2>4 DEF Most
      <3> QED BY <1>2, <2>1, <2>4, <3>1
    <2> QED BY <2>2, <2>3, <2>4
  <1> QED BY <1>3, <1>4

\* The new text stands together, behind what was in front of it.
LEMMA InsertedOrder ==
    \A r, s, p, t :
       Inserted(r, s, p, t) =>
          /\ \A i, j \in 1..Len(t) : i < j => Before(r, t[i], t[j])
          /\ \A k \in 1..Len(s), i \in 1..Len(t) :
                IF k <= p THEN Before(r, s[k], t[i]) ELSE Before(r, t[i], s[k])
  <1> SUFFICES ASSUME NEW r, NEW s, NEW p, NEW t, Inserted(r, s, p, t)
               PROVE  /\ \A i, j \in 1..Len(t) : i < j => Before(r, t[i], t[j])
                      /\ \A k \in 1..Len(s), i \in 1..Len(t) :
                            IF k <= p THEN Before(r, s[k], t[i]) ELSE Before(r, t[i], s[k])
    OBVIOUS
  <1>1. PICK n \in Nat, L \in Nat : n = Len(s) /\ L = Len(t)
    BY DEF Inserted
  <1>2. /\ p \in Nat /\ p <= n /\ Len(r) = n + L
        /\ \A k \in 1..p : r[k] = s[k]
        /\ \A k \in (p + 1)..(p + L) : r[k] = t[k - p]
        /\ \A k \in (p + L + 1)..(n + L) : r[k] = s[k - L]
    BY <1>1 DEF Inserted
  <1>3. ASSUME NEW i \in 1..L
        PROVE  p + i \in 1..Len(r) /\ r[p + i] = t[i]
    <2>1. p + i \in (p + 1)..(p + L) /\ (p + i) - p = i
      BY <1>2
    <2> QED BY <1>2, <2>1
  <1>4. ASSUME NEW i \in 1..L, NEW j \in 1..L, i < j
        PROVE  Before(r, t[i], t[j])
    <2>1. p + i < p + j
      BY <1>2, <1>4
    <2> QED BY <1>3, <2>1 DEF Before
  <1>5. ASSUME NEW k \in 1..n, NEW i \in 1..L, k <= p
        PROVE  Before(r, s[k], t[i])
    <2>1. k \in 1..Len(r) /\ r[k] = s[k] /\ k < p + i
      BY <1>2, <1>5
    <2> QED BY <1>3, <2>1 DEF Before
  <1>6. ASSUME NEW k \in 1..n, NEW i \in 1..L, ~(k <= p)
        PROVE  Before(r, t[i], s[k])
    <2>1. k + L \in (p + L + 1)..(n + L) /\ (k + L) - L = k /\ p + i < k + L
      BY <1>2, <1>6
    <2>2. k + L \in 1..Len(r) /\ r[k + L] = s[k]
      BY <1>2, <2>1
    <2> QED BY <1>3, <2>1, <2>2 DEF Before
  <1> QED BY <1>1, <1>4, <1>5, <1>6

LEMMA InsertionStays == EditInv => InsertionKeepsItsPlace
  <1> SUFFICES ASSUME EditInv, IsInsert(second) PROVE InsertionKeepsItsPlace
    BY DEF InsertionKeepsItsPlace
  <1>1. PICK t : t = second.text
    OBVIOUS
  <1>2. Inserted(AfterBoth, AfterFirst, Moved.position, t)
    BY <1>1, MovedAt
  <1>3. Chars(AfterBoth) = Chars(AfterFirst) \cup Chars(t)
    BY <1>2, InsertedChars
  <1>4. \A i, j \in 1..Len(t) : i < j => Before(AfterBoth, t[i], t[j])
    BY <1>2, InsertedOrder
  <1>5. PICK n \in Nat :
              /\ Len(body) = n
              /\ \A i \in 1..n : body[i] = i
              /\ \A k \in 1..Len(AfterFirst), i \in 1..n :
                    AfterFirst[k] = i <=> Stays(first, i) /\ k = Where(first, i)
    BY AfterFirstAt
  <1>6. ASSUME NEW i \in 1..n, body[i] \in Chars(AfterFirst)
        PROVE  IF i <= second.position THEN Before(AfterBoth, body[i], t[1])
                                       ELSE Before(AfterBoth, t[1], body[i])
    <2>1. PICK k \in 1..Len(AfterFirst) : AfterFirst[k] = body[i]
      BY <1>6 DEF Chars
    <2>2. Stays(first, i) /\ k = Where(first, i)
      BY <1>5, <2>1
    <2>3. k <= Moved.position <=> i <= second.position
      BY <1>5, <2>2, MovedPlace
    <2>4. 1 \in 1..Len(t)
      BY <1>1 DEF EditInv, Authored
    <2>5. IF k <= Moved.position THEN Before(AfterBoth, AfterFirst[k], t[1])
                                 ELSE Before(AfterBoth, t[1], AfterFirst[k])
      BY <1>2, <2>4, InsertedOrder
    <2> QED BY <2>1, <2>3, <2>5
  <1> QED BY <1>1, <1>3, <1>4, <1>5, <1>6 DEF InsertionKeepsItsPlace

\* Which positions of the body after the first edit the second author's deletion covers:
\* those of its characters that are still there and, if the first author wrote strictly
\* inside it, what was written.
LEMMA MovedRange ==
    ASSUME EditInv, ~IsInsert(second)
    PROVE  \A n \in Nat : Len(body) = n =>
              /\ \A i \in 1..n : Stays(first, i) =>
                    (Where(first, i) \in (Moved.position + 1)..(Moved.position + Moved.length)
                     <=> i \in (second.position + 1)..(second.position + second.length))
              /\ IsInsert(first) => \A i \in 1..Len(first.text) :
                    first.position + i \in (Moved.position + 1)..(Moved.position + Moved.length)
                    <=> Inside(first, second)
  <1> SUFFICES ASSUME NEW n \in Nat, Len(body) = n
               PROVE
              /\ \A i \in 1..n : Stays(first, i) =>
                    (Where(first, i) \in (Moved.position + 1)..(Moved.position + Moved.length)
                     <=> i \in (second.position + 1)..(second.position + second.length))
              /\ IsInsert(first) => \A i \in 1..Len(first.text) :
                    first.position + i \in (Moved.position + 1)..(Moved.position + Moved.length)
                    <=> Inside(first, second)
    OBVIOUS
  <1>1. /\ first \in EditType /\ second \in EditType /\ winsTie \in BOOLEAN
        /\ Applicable(first, n) /\ Applicable(second, n)
    BY DEF EditInv, Authored
  <1>2. PICK p \in Nat, q \in Nat, e \in Nat, d \in Nat, A \in Nat :
           /\ p = first.position /\ q = second.position
           /\ e = first.length /\ d = second.length /\ A = Len(first.text)
    BY <1>1 DEF EditType
  <1>3. PICK g, l : g = Moved.position /\ l = Moved.length
    OBVIOUS
  <1>4. CASE IsInsert(first)
    <2>1. ASSUME NEW i \in 1..n
          PROVE  Where(first, i) = IF i <= p THEN i ELSE i + A
      BY <1>2, <1>4 DEF Where, Growth
    <2>2. CASE p <= q
      <3>1. g = q + A /\ l = d /\ ~Inside(first, second)
        BY <1>2, <1>3, <1>4, <2>2 DEF Moved, Transform, AgainstInsert, Delete, Inside
      <3>2. ASSUME NEW i \in 1..n
            PROVE  Where(first, i) \in (g + 1)..(g + l) <=> i \in (q + 1)..(q + d)
        <4>1. CASE i <= p
          <5>1. Where(first, i) = i
            BY <2>1, <4>1
          <5> QED BY <2>2, <3>1, <4>1, <5>1
        <4>2. CASE p < i
          <5>1. Where(first, i) = i + A
            BY <2>1, <4>2
          <5> QED BY <2>2, <3>1, <4>2, <5>1
        <4> QED BY <4>1, <4>2
      <3>3. ASSUME NEW i \in 1..A
            PROVE  p + i \in (g + 1)..(g + l) <=> Inside(first, second)
        BY <2>2, <3>1
      <3> QED BY <1>2, <1>3, <3>2, <3>3
    <2>3. CASE q < p /\ q + d <= p
      <3>1. g = q /\ l = d /\ ~Inside(first, second)
        BY <1>2, <1>3, <1>4, <2>3 DEF Moved, Transform, AgainstInsert, Inside
      <3>2. ASSUME NEW i \in 1..n
            PROVE  Where(first, i) \in (g + 1)..(g + l) <=> i \in (q + 1)..(q + d)
        <4>1. CASE i <= p
          <5>1. Where(first, i) = i
            BY <2>1, <4>1
          <5> QED BY <2>3, <3>1, <4>1, <5>1
        <4>2. CASE p < i
          <5>1. Where(first, i) = i + A
            BY <2>1, <4>2
          <5> QED BY <2>3, <3>1, <4>2, <5>1
        <4> QED BY <4>1, <4>2
      <3>3. ASSUME NEW i \in 1..A
            PROVE  p + i \in (g + 1)..(g + l) <=> Inside(first, second)
        BY <2>3, <3>1
      <3> QED BY <1>2, <1>3, <3>2, <3>3
    <2>4. CASE q < p /\ p < q + d
      <3>1. g = q /\ l = d + A /\ Inside(first, second)
        BY <1>2, <1>3, <1>4, <2>4 DEF Moved, Transform, AgainstInsert, Delete, Inside
      <3>2. ASSUME NEW i \in 1..n
            PROVE  Where(first, i) \in (g + 1)..(g + l) <=> i \in (q + 1)..(q + d)
        <4>1. CASE i <= p
          <5>1. Where(first, i) = i
            BY <2>1, <4>1
          <5> QED BY <2>4, <3>1, <4>1, <5>1
        <4>2. CASE p < i
          <5>1. Where(first, i) = i + A
            BY <2>1, <4>2
          <5> QED BY <2>4, <3>1, <4>2, <5>1
        <4> QED BY <4>1, <4>2
      <3>3. ASSUME NEW i \in 1..A
            PROVE  p + i \in (g + 1)..(g + l) <=> Inside(first, second)
        BY <2>4, <3>1
      <3> QED BY <1>2, <1>3, <3>2, <3>3
    <2> QED BY <1>2, <2>2, <2>3, <2>4
  <1>5. CASE ~IsInsert(first)
    <2>1. /\ g = q - Least(e, Most(0, q - p))
          /\ l = Most(0, d - Most(0, Least(q + d, p + e) - Most(q, p)))
      BY <1>2, <1>3, <1>5 DEF Moved, Transform, AgainstDelete, Delete
    <2>2. ASSUME NEW i \in 1..n, Stays(first, i)
          PROVE  Where(first, i) \in (g + 1)..(g + l) <=> i \in (q + 1)..(q + d)
      <3>1. Where(first, i) = (IF i <= p THEN i ELSE i - e) /\ (i <= p \/ i > p + e)
        BY <1>2, <1>5, <2>2 DEF Where, Growth, Stays
      <3>2. PICK w \in Int : w = Where(first, i) /\ w = (IF i <= p THEN i ELSE i - e)
        BY <3>1
      <3>3. CASE q <= p
        <4>1. g = q
          BY <2>1, <3>3 DEF Least, Most
        <4>2. CASE q + d <= p
          <5>1. l = d
            BY <2>1, <3>3, <4>2 DEF Least, Most
          <5> QED BY <3>1, <3>2, <3>3, <4>1, <4>2, <5>1
        <4>3. CASE p < q + d /\ q + d <= p + e
          <5>1. l = p - q
            BY <2>1, <3>3, <4>3 DEF Least, Most
          <5> QED BY <3>1, <3>2, <3>3, <4>1, <4>3, <5>1
        <4>4. CASE p + e < q + d
          <5>1. l = d - e
            BY <2>1, <3>3, <4>4 DEF Least, Most
          <5> QED BY <3>1, <3>2, <3>3, <4>1, <4>4, <5>1
        <4> QED BY <4>2, <4>3, <4>4
      <3>4. CASE p < q /\ q <= p + e
        <4>1. g = p
          BY <2>1, <3>4 DEF Least, Most
        <4>2. CASE q + d <= p + e
          <5>1. l = 0
            BY <2>1, <3>4, <4>2 DEF Least, Most
          <5> QED BY <3>1, <3>2, <3>4, <4>1, <4>2, <5>1
        <4>3. CASE p + e < q + d
          <5>1. l = d - (p + e - q)
            BY <2>1, <3>4, <4>3 DEF Least, Most
          <5> QED BY <3>1, <3>2, <3>4, <4>1, <4>3, <5>1
        <4> QED BY <4>2, <4>3
      <3>5. CASE p + e < q
        <4>1. g = q - e /\ l = d
          BY <2>1, <3>5 DEF Least, Most
        <4> QED BY <3>1, <3>2, <3>5, <4>1
      <3> QED BY <3>3, <3>4, <3>5
    <2> QED BY <1>2, <1>3, <1>5, <2>2
  <1> QED BY <1>4, <1>5

\* What is not of the body is what the first author wrote.
LEMMA FirstWrote ==
    ASSUME EditInv
    PROVE  \A n \in Nat : Len(body) = n =>
              /\ \A k \in 1..Len(AfterFirst) :
                    \/ \E i \in 1..n : AfterFirst[k] = body[i]
                    \/ IsInsert(first) /\ \E i \in 1..Len(first.text) : k = first.position + i
              /\ IsInsert(first) => \A i \in 1..Len(first.text) :
                    /\ first.position + i \in 1..Len(AfterFirst)
                    /\ AfterFirst[first.position + i] = first.text[i]
  <1> SUFFICES ASSUME NEW n \in Nat, Len(body) = n
               PROVE
              /\ \A k \in 1..Len(AfterFirst) :
                    \/ \E i \in 1..n : AfterFirst[k] = body[i]
                    \/ IsInsert(first) /\ \E i \in 1..Len(first.text) : k = first.position + i
              /\ IsInsert(first) => \A i \in 1..Len(first.text) :
                    /\ first.position + i \in 1..Len(AfterFirst)
                    /\ AfterFirst[first.position + i] = first.text[i]
    OBVIOUS
  <1>1. first \in EditType /\ Applicable(first, n) /\ body \in Seq(Char)
    BY AfterFirstAt DEF EditInv, Authored
  <1>2. PICK p \in Nat, d \in Nat, A \in Nat :
           p = first.position /\ d = first.length /\ A = Len(first.text)
    BY <1>1 DEF EditType
  <1>3. PICK x : x = AfterFirst
    OBVIOUS
  <1>4. CASE IsInsert(first)
    <2>1. Inserted(x, body, p, first.text)
      BY <1>1, <1>2, <1>3, <1>4, AppliedAt DEF AfterFirst
    <2>2. /\ p <= n /\ Len(x) = n + A
          /\ \A k \in 1..p : x[k] = body[k]
          /\ \A k \in (p + 1)..(p + A) : x[k] = first.text[k - p]
          /\ \A k \in (p + A + 1)..(n + A) : x[k] = body[k - A]
      BY <1>2, <2>1 DEF Inserted
    <2>3. ASSUME NEW k \in 1..(n + A)
          PROVE  (\E i \in 1..n : x[k] = body[i]) \/ (\E i \in 1..A : k = p + i)
      <3>1. CASE k <= p
        BY <2>2, <3>1
      <3>2. CASE p < k /\ k <= p + A
        <4>1. k - p \in 1..A /\ k = p + (k - p)
          BY <3>2
        <4> QED BY <4>1
      <3>3. CASE p + A < k
        <4>1. k - A \in 1..n /\ x[k] = body[k - A]
          BY <2>2, <3>3
        <4> QED BY <4>1
      <3> QED BY <3>1, <3>2, <3>3
    <2>4. ASSUME NEW i \in 1..A
          PROVE  p + i \in 1..(n + A) /\ x[p + i] = first.text[i]
      <3>1. p + i \in (p + 1)..(p + A) /\ (p + i) - p = i
        OBVIOUS
      <3> QED BY <2>2, <3>1
    <2>5. Len(AfterFirst) = n + A
      BY <1>3, <2>2
    <2> QED BY <1>2, <1>3, <1>4, <2>3, <2>4, <2>5
  <1>5. CASE ~IsInsert(first)
    <2>1. Erased(x, body, p, d)
      BY <1>1, <1>2, <1>3, <1>5, AppliedAt DEF AfterFirst
    <2>2. /\ d = 0 \/ p + d <= n
          /\ Len(x) = n - d
          /\ \A k \in 1..(n - d) : k <= p => x[k] = body[k]
          /\ \A k \in (p + 1)..(n - d) : x[k] = body[k + d]
      BY <2>1 DEF Erased
    <2>3. ASSUME NEW k \in 1..(n - d)
          PROVE  \E i \in 1..n : x[k] = body[i]
      <3>1. CASE k <= p
        BY <2>2, <3>1
      <3>2. CASE p < k
        <4>1. k + d \in 1..n /\ x[k] = body[k + d]
          BY <2>2, <3>2
        <4> QED BY <4>1
      <3> QED BY <3>1, <3>2
    <2> QED BY <1>3, <1>5, <2>2, <2>3
  <1> QED BY <1>4, <1>5

LEMMA DeletionTakes == EditInv => DeletionMeansItsTargets
  <1> SUFFICES ASSUME EditInv, ~IsInsert(second) PROVE DeletionMeansItsTargets
    BY DEF DeletionMeansItsTargets
  <1>1. PICK n \in Nat :
           /\ body \in Seq(Char) /\ Len(body) = n
           /\ \A i \in 1..n : body[i] = i
           /\ \A k \in 1..Len(AfterFirst), i \in 1..n :
                 AfterFirst[k] = i <=> Stays(first, i) /\ k = Where(first, i)
           /\ \A i, j \in 1..Len(AfterFirst) : AfterFirst[i] = AfterFirst[j] => i = j
    BY AfterFirstAt
  <1>2. PICK x \in Seq(Char) : x = AfterFirst
    BY MovedAt
  <1>3. PICK range : range = (Moved.position + 1)..(Moved.position + Moved.length)
    OBVIOUS
  <1>4. PICK chosen : chosen = (second.position + 1)..(second.position + second.length)
    OBVIOUS
  <1>5. PICK t : t = first.text
    OBVIOUS
  <1>6. Erased(AfterBoth, x, Moved.position, Moved.length)
    BY <1>2, MovedAt
  <1>7. Chars(x) \ Chars(AfterBoth) = {x[i] : i \in range}
    BY <1>1, <1>2, <1>3, <1>6, ErasedChars
  <1>8. range \subseteq 1..Len(x)
    BY <1>3, <1>6 DEF Erased
  <1>9. chosen \subseteq 1..n
    <2>1. second \in EditType /\ Applicable(second, n)
      BY <1>1 DEF EditInv, Authored
    <2> QED BY <1>4, <2>1 DEF Applicable, Valid, EditType
  <1>10. Targets(second) = {body[i] : i \in chosen}
    BY <1>4 DEF Targets
  <1>11. /\ \A i \in 1..n : Stays(first, i) => (Where(first, i) \in range <=> i \in chosen)
         /\ IsInsert(first) => \A i \in 1..Len(t) :
               first.position + i \in range <=> Inside(first, second)
    BY <1>1, <1>3, <1>4, <1>5, MovedRange
  <1>12. /\ \A k \in 1..Len(x) :
               \/ \E i \in 1..n : x[k] = body[i]
               \/ IsInsert(first) /\ \E i \in 1..Len(t) : k = first.position + i
         /\ IsInsert(first) => \A i \in 1..Len(t) :
               first.position + i \in 1..Len(x) /\ x[first.position + i] = t[i]
    <2>1. /\ \A k \in 1..Len(AfterFirst) :
                \/ \E i \in 1..n : AfterFirst[k] = body[i]
                \/ IsInsert(first) /\ \E i \in 1..Len(first.text) : k = first.position + i
          /\ IsInsert(first) => \A i \in 1..Len(first.text) :
                /\ first.position + i \in 1..Len(AfterFirst)
                /\ AfterFirst[first.position + i] = first.text[i]
      BY <1>1, FirstWrote
    <2> QED BY <1>2, <1>5, <2>1
  <1>13. ASSUME NEW k \in range
         PROVE  \/ x[k] \in Targets(second) /\ x[k] \in Chars(x)
                \/ Inside(first, second) /\ x[k] \in Chars(t)
    <2>1. k \in 1..Len(x) /\ x[k] \in Chars(x)
      BY <1>8 DEF Chars
    <2>2. CASE \E i \in 1..n : x[k] = body[i]
      <3>1. PICK i \in 1..n : x[k] = body[i]
        BY <2>2
      <3>2. x[k] = i
        BY <1>1, <3>1
      <3>3. Stays(first, i) /\ k = Where(first, i)
        BY <1>1, <1>2, <2>1, <3>2
      <3>4. i \in chosen
        BY <1>11, <3>3
      <3> QED BY <1>10, <2>1, <3>1, <3>4
    <2>3. CASE IsInsert(first) /\ \E i \in 1..Len(t) : k = first.position + i
      <3>1. PICK i \in 1..Len(t) : k = first.position + i
        BY <2>3
      <3>2. Inside(first, second) /\ x[k] = t[i]
        BY <1>11, <1>12, <2>3, <3>1
      <3> QED BY <3>2 DEF Chars
    <2> QED BY <1>12, <2>1, <2>2, <2>3
  <1>14. ASSUME NEW v \in Targets(second), v \in Chars(x)
         PROVE  v \in {x[i] : i \in range}
    <2>1. PICK i \in chosen : v = body[i]
      BY <1>10
    <2>2. i \in 1..n /\ v = i
      BY <1>1, <1>9, <2>1
    <2>3. PICK k \in 1..Len(x) : v = x[k]
      BY <1>14 DEF Chars
    <2>4. Stays(first, i) /\ k = Where(first, i)
      BY <1>1, <1>2, <2>2, <2>3
    <2>5. k \in range
      BY <1>11, <2>2, <2>4
    <2> QED BY <2>3, <2>5
  <1>15. ASSUME Inside(first, second), NEW v \in Chars(t)
         PROVE  v \in {x[i] : i \in range}
    <2>1. PICK i \in 1..Len(t) : v = t[i]
      BY DEF Chars
    <2>2. IsInsert(first)
      BY <1>15 DEF Inside
    <2>3. first.position + i \in range /\ x[first.position + i] = v
      BY <1>11, <1>12, <1>15, <2>1, <2>2
    <2> QED BY <2>3
  <1>16. {x[i] : i \in range} = (Targets(second) \cap Chars(x))
                                \cup (IF Inside(first, second) THEN Chars(t) ELSE {})
    <2>1. CASE Inside(first, second)
      BY <1>13, <1>14, <1>15, <2>1
    <2>2. CASE ~Inside(first, second)
      BY <1>13, <1>14, <2>2
    <2> QED BY <2>1, <2>2
  <1> QED BY <1>2, <1>5, <1>7, <1>16 DEF DeletionMeansItsTargets

LEMMA OrderKept == EditInv => OrderDoesNotMatter
  <1> SUFFICES ASSUME EditInv PROVE OrderDoesNotMatter
    OBVIOUS
  <1>1. /\ body \in Seq(Char) /\ first \in EditType /\ second \in EditType /\ winsTie \in BOOLEAN
        /\ Applicable(first, Len(body)) /\ Applicable(second, Len(body))
    BY AfterFirstAt DEF EditInv, Authored
  <1>2. (~winsTie) \in BOOLEAN
    OBVIOUS
  <1>3. PICK y \in Seq(Char) : y = Apply(body, second)
    BY <1>1, MovedApplies
  <1>4. PICK moved \in EditType : moved = Transform(first, second, ~winsTie)
    BY <1>1, <1>2, MovedApplies
  <1>5. PICK other : other = Apply(y, moved)
    OBVIOUS
  <1>6. CASE Inside(first, second)
    <2>1. IsInsert(first) /\ ~IsInsert(second)
      BY <1>6 DEF Inside
    <2>2. Chars(first.text) \subseteq Chars(AfterFirst) \ Chars(AfterBoth)
      BY <1>6, <2>1, DeletionTakes DEF DeletionMeansItsTargets
    <2>3. Applicable(moved, Len(y)) /\ IsInsert(moved)
      BY <1>1, <1>2, <1>3, <1>4, <2>1, MovedApplies
    <2>4. moved.text = first.text
      BY <1>4, <2>1 DEF Transform, AgainstDelete, Insert
    <2>5. Inserted(other, y, moved.position, moved.text)
      BY <1>3, <1>4, <1>5, <2>3, AppliedAt
    <2>6. Chars(first.text) \subseteq Chars(other)
      BY <2>4, <2>5, InsertedChars
    <2> QED BY <1>3, <1>4, <1>5, <1>6, <2>2, <2>6 DEF OrderDoesNotMatter
  <1>7. CASE ~Inside(first, second) /\ ~Inside(second, first)
    <2>1. AfterBoth = other
      BY <1>1, <1>3, <1>4, <1>5, <1>7, EitherOrder DEF AfterBoth, AfterFirst, Moved
    <2> QED BY <1>3, <1>4, <1>5, <1>7, <2>1 DEF OrderDoesNotMatter
  <1>8. CASE ~Inside(first, second) /\ Inside(second, first)
    BY <1>8 DEF OrderDoesNotMatter
  <1> QED BY <1>6, <1>7, <1>8

\* For bodies and insertions of every length: the second of two concurrent edits can be
\* applied after the first, takes and leaves what its author meant, and the note is the
\* same in either order (transform, _transform_since).
THEOREM EditsConverge == EditsSpec => []ConcurrentEditsConverge
  <1>1. EditInv => ConcurrentEditsConverge
    BY MovedAt, DeletionTakes, InsertionStays, OrderKept
       DEF ConcurrentEditsConverge, TransformedApplies
  <1> QED BY <1>1, EditsInvariant, PTL
=============================================================================

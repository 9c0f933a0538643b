-------------------------- MODULE DrawingFileProofs --------------------------
(* Proofs about the undo history and the drawing file, for any papers,     *)
(* looks, players, drawings and bounds.                                    *)
EXTENDS EditorProperties, DrawingFileProperties, EloProofs, SequenceTheorems

-----------------------------------------------------------------------------
(* One element taken out of a sequence, or put into it.                    *)

LEMMA TakenOut ==
    ASSUME NEW S, NEW s \in Seq(S), NEW i \in 1 .. Len(s)
    PROVE  /\ RemoveAt(s, i) \in Seq(S)
           /\ Len(RemoveAt(s, i)) = Len(s) - 1
           /\ \A k \in 1 .. Len(s) - 1 :
                 RemoveAt(s, i)[k] = IF k < i THEN s[k] ELSE s[k + 1]
<1> DEFINE before == SubSeq(s, 1, i - 1)
           after == SubSeq(s, i + 1, Len(s))
<1>1. Len(s) \in Nat /\ \A k \in 1 .. Len(s) : s[k] \in S
    BY LenProperties, ElementOfSeq
<1>2. /\ before \in Seq(S) /\ Len(before) = i - 1
      /\ \A k \in 1 .. i - 1 : before[k] = s[k]
    BY <1>1
<1>3. /\ after \in Seq(S) /\ Len(after) = Len(s) - i
      /\ \A k \in 1 .. Len(s) - i : after[k] = s[i + k]
    BY <1>1
<1>4. /\ before \o after \in Seq(S)
      /\ Len(before \o after) = Len(before) + Len(after)
      /\ \A k \in 1 .. Len(before) + Len(after) :
            (before \o after)[k] =
                IF k <= Len(before) THEN before[k] ELSE after[k - Len(before)]
    BY <1>2, <1>3, ConcatProperties
<1>5. RemoveAt(s, i) = before \o after
    BY DEF RemoveAt
<1> HIDE DEF before, after
<1>6. Len(before \o after) = Len(s) - 1
    BY <1>1, <1>2, <1>3, <1>4
<1>7. ASSUME NEW k \in 1 .. Len(s) - 1
      PROVE  (before \o after)[k] = IF k < i THEN s[k] ELSE s[k + 1]
  <2>0. k \in 1 .. Len(before) + Len(after)
    BY <1>1, <1>2, <1>3
  <2>1. CASE k < i
    <3>1. k <= Len(before) /\ k \in 1 .. i - 1
        BY <1>1, <1>2, <2>1
    <3> QED
        BY <1>2, <1>4, <2>0, <2>1, <3>1
  <2>2. CASE ~(k < i)
    <3>1. /\ ~(k <= Len(before)) /\ k - Len(before) \in 1 .. Len(s) - i
          /\ i + (k - Len(before)) = k + 1
        BY <1>1, <1>2, <2>2
    <3>2. (before \o after)[k] = after[k - Len(before)]
        BY <1>4, <2>0, <3>1
    <3>3. after[k - Len(before)] = s[i + (k - Len(before))]
        BY <1>3, <3>1
    <3> QED
        BY <2>2, <3>1, <3>2, <3>3
  <2> QED
    BY <2>1, <2>2
<1> QED
    BY <1>4, <1>5, <1>6, <1>7

LEMMA PutIn ==
    ASSUME NEW S, NEW s \in Seq(S), NEW i \in 1 .. Len(s) + 1, NEW e \in S
    PROVE  /\ InsertAt(s, i, e) \in Seq(S)
           /\ Len(InsertAt(s, i, e)) = Len(s) + 1
           /\ \A k \in 1 .. Len(s) + 1 :
                 InsertAt(s, i, e)[k] =
                     IF k < i THEN s[k] ELSE IF k = i THEN e ELSE s[k - 1]
<1> DEFINE before == SubSeq(s, 1, i - 1)
           after == SubSeq(s, i, Len(s))
           one == << e >>
<1>1. Len(s) \in Nat /\ \A k \in 1 .. Len(s) : s[k] \in S
    BY LenProperties, ElementOfSeq
<1>2. /\ before \in Seq(S) /\ Len(before) = i - 1
      /\ \A k \in 1 .. i - 1 : before[k] = s[k]
    BY <1>1
<1>3. /\ after \in Seq(S) /\ Len(after) = Len(s) - i + 1
      /\ \A k \in 1 .. Len(s) - i + 1 : after[k] = s[i + k - 1]
    BY <1>1
<1>4. one \in Seq(S) /\ Len(one) = 1 /\ one[1] = e
    OBVIOUS
<1>5. InsertAt(s, i, e) = (before \o one) \o after
    BY DEF InsertAt
<1> HIDE DEF before, after, one
<1>6. /\ before \o one \in Seq(S)
      /\ Len(before \o one) = i
      /\ \A k \in 1 .. i : (before \o one)[k] = IF k < i THEN s[k] ELSE e
  <2>1. /\ before \o one \in Seq(S)
        /\ Len(before \o one) = Len(before) + Len(one)
        /\ \A k \in 1 .. Len(before) + Len(one) :
              (before \o one)[k] =
                  IF k <= Len(before) THEN before[k] ELSE one[k - Len(before)]
    BY <1>2, <1>4, ConcatProperties
  <2>2. Len(before) + Len(one) = i /\ i - Len(before) = 1
    BY <1>1, <1>2, <1>4
  <2>3. ASSUME NEW k \in 1 .. i
        PROVE  (before \o one)[k] = IF k < i THEN s[k] ELSE e
    <3>1. k \in 1 .. Len(before) + Len(one)
        BY <2>2
    <3>2. CASE k < i
      <4>1. k <= Len(before) /\ k \in 1 .. i - 1
        BY <1>1, <1>2, <3>2
      <4> QED
        BY <1>2, <2>1, <3>1, <3>2, <4>1
    <3>3. CASE k = i
      <4>1. ~(k <= Len(before)) /\ k - Len(before) = 1
        BY <1>1, <1>2, <3>3
      <4>2. (before \o one)[k] = one[k - Len(before)]
        BY <2>1, <3>1, <4>1
      <4> QED
        BY <1>4, <3>3, <4>1, <4>2
    <3>4. k < i \/ k = i
        BY <1>1
    <3> QED
        BY ONLY <3>2, <3>3, <3>4
  <2> QED
    BY <2>1, <2>2, <2>3
<1>7. /\ (before \o one) \o after \in Seq(S)
      /\ Len((before \o one) \o after) = Len(before \o one) + Len(after)
      /\ \A k \in 1 .. Len(before \o one) + Len(after) :
            ((before \o one) \o after)[k] =
                IF k <= Len(before \o one) THEN (before \o one)[k]
                ELSE after[k - Len(before \o one)]
    BY <1>3, <1>6, ConcatProperties
<1> QED
    BY <1>1, <1>3, <1>5, <1>6, <1>7

(* What was put in is taken out again, and what was taken out put back.    *)
LEMMA PutInTakenOut ==
    ASSUME NEW S, NEW s \in Seq(S), NEW i \in 1 .. Len(s) + 1, NEW e \in S
    PROVE  RemoveAt(InsertAt(s, i, e), i) = s
<1> DEFINE t == InsertAt(s, i, e)
           u == RemoveAt(t, i)
<1>1. Len(s) \in Nat
    BY LenProperties
<1>2. /\ t \in Seq(S) /\ Len(t) = Len(s) + 1
      /\ \A k \in 1 .. Len(s) + 1 :
            t[k] = IF k < i THEN s[k] ELSE IF k = i THEN e ELSE s[k - 1]
    BY PutIn
<1> HIDE DEF t
<1>3. i \in 1 .. Len(t)
    BY <1>1, <1>2
<1>4. /\ u \in Seq(S) /\ Len(u) = Len(t) - 1
      /\ \A k \in 1 .. Len(t) - 1 : u[k] = IF k < i THEN t[k] ELSE t[k + 1]
    BY <1>2, <1>3, TakenOut
<1> HIDE DEF u
<1>5. Len(u) = Len(s) /\ \A k \in 1 .. Len(u) : u[k] = s[k]
  <2>1. Len(u) = Len(s)
    BY <1>1, <1>2, <1>4
  <2>2. ASSUME NEW k \in 1 .. Len(s)
        PROVE  u[k] = s[k]
    <3>1. k \in 1 .. Len(t) - 1 /\ k \in 1 .. Len(s) + 1
        BY <1>1, <1>2
    <3>2. CASE k < i
        BY <1>2, <1>4, <3>1, <3>2
    <3>3. CASE ~(k < i)
      <4>1. /\ k + 1 \in 1 .. Len(s) + 1 /\ ~(k + 1 < i) /\ k + 1 # i
            /\ (k + 1) - 1 = k
        BY <1>1, <3>3
      <4>2. u[k] = t[k + 1]
        BY <1>4, <3>1, <3>3
      <4>3. t[k + 1] = s[(k + 1) - 1]
        BY <1>2, <4>1
      <4> QED
        BY <4>1, <4>2, <4>3
    <3> QED
        BY <3>2, <3>3
  <2> QED
    BY <2>1, <2>2
<1>6. u = s
    BY <1>4, <1>5, SeqEqual
<1> QED
    BY <1>6 DEF t, u

LEMMA TakenOutPutIn ==
    ASSUME NEW S, NEW s \in Seq(S), NEW i \in 1 .. Len(s)
    PROVE  InsertAt(RemoveAt(s, i), i, s[i]) = s
<1> DEFINE t == RemoveAt(s, i)
           e == s[i]
           u == InsertAt(t, i, e)
<1>1. Len(s) \in Nat /\ e \in S
    BY LenProperties, ElementOfSeq
<1>2. /\ t \in Seq(S) /\ Len(t) = Len(s) - 1
      /\ \A k \in 1 .. Len(s) - 1 : t[k] = IF k < i THEN s[k] ELSE s[k + 1]
    BY TakenOut
<1> HIDE DEF t, e
<1>3. i \in 1 .. Len(t) + 1
    BY <1>1, <1>2
<1>4. /\ u \in Seq(S) /\ Len(u) = Len(t) + 1
      /\ \A k \in 1 .. Len(t) + 1 :
            u[k] = IF k < i THEN t[k] ELSE IF k = i THEN e ELSE t[k - 1]
  <2>1. t \in Seq(S) /\ i \in 1 .. Len(t) + 1 /\ e \in S
    BY <1>1, <1>2, <1>3
  <2> QED
    BY ONLY <2>1, PutIn
<1> HIDE DEF u
<1>5. Len(u) = Len(s) /\ \A k \in 1 .. Len(u) : u[k] = s[k]
  <2>1. Len(u) = Len(s)
    BY <1>1, <1>2, <1>4
  <2>2. ASSUME NEW k \in 1 .. Len(s)
        PROVE  u[k] = s[k]
    <3>1. k \in 1 .. Len(t) + 1
        BY <1>1, <1>2
    <3>2. CASE k < i
      <4>1. k \in 1 .. Len(s) - 1
        BY <1>1, <3>2
      <4> QED
        BY <1>2, <1>4, <3>1, <3>2, <4>1
    <3>3. CASE k = i
        BY <1>4, <3>1, <3>3 DEF e
    <3>4. CASE k > i
      <4>1. /\ k - 1 \in 1 .. Len(s) - 1 /\ ~(k - 1 < i) /\ (k - 1) + 1 = k
            /\ ~(k < i) /\ k # i
        BY <1>1, <3>4
      <4>2. u[k] = t[k - 1]
        BY <1>4, <3>1, <4>1
      <4>3. t[k - 1] = s[(k - 1) + 1]
        BY <1>2, <4>1
      <4> QED
        BY <4>1, <4>2, <4>3
    <3> QED
        BY <3>2, <3>3, <3>4, <1>1
  <2> QED
    BY <2>1, <2>2
<1>6. u = s
    BY <1>4, <1>5, SeqEqual
<1> QED
    BY <1>6 DEF t, e, u

-----------------------------------------------------------------------------
(* Documents whose ids, of layers and of strokes, are among some.          *)

LayerOf(I) == [id : I, look : Look \union {0}, strokes : Seq(I)]

DocumentOf(I) ==
    {d \in [background : Paper, layers : Seq(LayerOf(I))] :
        \A i, j \in DOMAIN d.layers : d.layers[i].id = d.layers[j].id => i = j}

(* The document with these layers. *)
With(d, s) == [background |-> d.background, layers |-> s]

LEMMA DocumentParts ==
    ASSUME NEW I, NEW d \in DocumentOf(I)
    PROVE  /\ d.background \in Paper /\ d.layers \in Seq(LayerOf(I))
           /\ Len(d.layers) \in Nat /\ DOMAIN d.layers = 1 .. Len(d.layers)
           /\ \A i \in DOMAIN d.layers :
                 /\ d.layers[i] \in LayerOf(I) /\ d.layers[i].id \in I
                 /\ d.layers[i].look \in Look \union {0} /\ d.layers[i].strokes \in Seq(I)
           /\ \A i, j \in DOMAIN d.layers : d.layers[i].id = d.layers[j].id => i = j
           /\ With(d, d.layers) = d
           /\ \A s : [d EXCEPT !.layers = s] = With(d, s)
           /\ \A s : With(d, s).layers = s /\ With(d, s).background = d.background
           /\ \A s, t : With(With(d, s), t) = With(d, t)
<1>1. /\ d \in [background : Paper, layers : Seq(LayerOf(I))]
      /\ \A i, j \in DOMAIN d.layers : d.layers[i].id = d.layers[j].id => i = j
    BY DEF DocumentOf
<1>2. d.background \in Paper /\ d.layers \in Seq(LayerOf(I))
    BY <1>1
<1>3. Len(d.layers) \in Nat /\ DOMAIN d.layers = 1 .. Len(d.layers)
    BY <1>2, LenProperties
<1>4. \A i \in DOMAIN d.layers : d.layers[i] \in LayerOf(I)
    BY <1>2, <1>3, ElementOfSeq
<1>5. \A l \in LayerOf(I) : l.id \in I /\ l.look \in Look \union {0} /\ l.strokes \in Seq(I)
    BY DEF LayerOf
<1>6. /\ With(d, d.layers) = d
      /\ \A s : [d EXCEPT !.layers = s] = With(d, s)
      /\ \A s : With(d, s).layers = s /\ With(d, s).background = d.background
      /\ \A s, t : With(With(d, s), t) = With(d, t)
    BY <1>1 DEF With
<1> QED
    BY <1>1, <1>2, <1>3, <1>4, <1>5, <1>6

LEMMA DocumentWith ==
    ASSUME NEW I, NEW d \in DocumentOf(I), NEW J, NEW s \in Seq(LayerOf(J)),
           \A i, j \in 1 .. Len(s) : s[i].id = s[j].id => i = j
    PROVE  With(d, s) \in DocumentOf(J)
<1>1. DOMAIN s = 1 .. Len(s)
    BY LenProperties
<1>2. d.background \in Paper
    BY DocumentParts
<1> QED
    BY <1>1, <1>2 DEF With, DocumentOf

LEMMA MoreIds ==
    ASSUME NEW I, NEW J, I \subseteq J
    PROVE  LayerOf(I) \subseteq LayerOf(J) /\ DocumentOf(I) \subseteq DocumentOf(J)
<1>1. \A s \in Seq(I) : s \in Seq(J)
    BY SeqMonotonic
<1>2. LayerOf(I) \subseteq LayerOf(J)
    BY <1>1 DEF LayerOf
<1>3. \A s \in Seq(LayerOf(I)) : s \in Seq(LayerOf(J))
    BY <1>2, SeqMonotonic
<1> QED
    BY <1>2, <1>3 DEF DocumentOf

(* Where a layer is: no two layers of a document have the same id. *)
LEMMA PlaceOf ==
    ASSUME NEW I, NEW d \in DocumentOf(I), NEW i \in 1 .. Len(d.layers),
           NEW id, d.layers[i].id = id
    PROVE  IndexOf(d, id) = i /\ Has(d, id) /\ layerById(d, id) = d.layers[i]
<1> DEFINE found == {k \in 1 .. Len(d.layers) : d.layers[k].id = id}
<1>1. found = {i}
    BY DocumentParts
<1>2. Min({i}) = i
    BY DocumentParts DEF Min
<1>3. IndexOf(d, id) = IF found # {} THEN Min(found) ELSE 0
    BY DEF IndexOf, SelectInSeq
<1>4. IndexOf(d, id) = i
    BY <1>1, <1>2, <1>3
<1>5. i # 0
    BY DocumentParts
<1> QED
    BY <1>4, <1>5 DEF Has, layerById

LEMMA NoPlace ==
    ASSUME NEW d, NEW id, \A i \in 1 .. Len(d.layers) : d.layers[i].id # id
    PROVE  IndexOf(d, id) = 0 /\ ~Has(d, id)
<1> DEFINE found == {k \in 1 .. Len(d.layers) : d.layers[k].id = id}
<1>1. found = {}
    OBVIOUS
<1>2. IndexOf(d, id) = IF found # {} THEN Min(found) ELSE 0
    BY DEF IndexOf, SelectInSeq
<1> QED
    BY <1>1, <1>2 DEF Has

LEMMA Placed ==
    ASSUME NEW I, NEW d \in DocumentOf(I), NEW id, Has(d, id)
    PROVE  /\ IndexOf(d, id) \in 1 .. Len(d.layers)
           /\ layerById(d, id) = d.layers[IndexOf(d, id)]
           /\ layerById(d, id) \in LayerOf(I)
           /\ layerById(d, id).id = id
<1>1. PICK i \in 1 .. Len(d.layers) : d.layers[i].id = id
    BY NoPlace
<1> QED
    BY <1>1, PlaceOf, DocumentParts

-----------------------------------------------------------------------------
(* The steps commands are made of, and what takes them back.               *)

(* A layer of a new id spliced in is spliced out again. *)
LEMMA SplicedIn ==
    ASSUME NEW I, NEW d \in DocumentOf(I), NEW J, I \subseteq J,
           NEW l \in LayerOf(J), ~Has(d, l.id), NEW index \in Nat
    PROVE  /\ Spliced(d, l, index) \in DocumentOf(J)
           /\ Without(Spliced(d, l, index), l.id) = d
           /\ IndexOf(Spliced(d, l, index), l.id) = Clamp(index, Len(d.layers)) + 1
           /\ layerById(Spliced(d, l, index), l.id) = l
           /\ Has(Spliced(d, l, index), l.id)
<1> DEFINE s == d.layers
           i == Clamp(index, Len(s)) + 1
           t == InsertAt(s, i, l)
           e == With(d, t)
<1>1. /\ Len(s) \in Nat /\ i \in 1 .. Len(s) + 1 /\ s \in Seq(LayerOf(J))
      /\ \A k, m \in 1 .. Len(s) : s[k].id = s[m].id => k = m
      /\ \A k \in 1 .. Len(s) : s[k].id # l.id
  <2>1. Len(s) \in Nat /\ s \in Seq(LayerOf(I)) /\ DOMAIN s = 1 .. Len(s)
    BY DocumentParts
  <2>2. i \in 1 .. Len(s) + 1
    BY <2>1 DEF Clamp
  <2>3. s \in Seq(LayerOf(J))
    BY <2>1, MoreIds, SeqMonotonic
  <2>4. \A k \in 1 .. Len(s) : s[k].id # l.id
    BY PlaceOf
  <2>5. \A k, m \in 1 .. Len(s) : s[k].id = s[m].id => k = m
    BY <2>1, DocumentParts
  <2> QED
    BY <2>1, <2>2, <2>3, <2>4, <2>5
<1>2. Spliced(d, l, index) = e
    BY DocumentParts DEF Spliced
<1>3. e.layers = t
    BY DocumentParts
<1> HIDE DEF s, i
<1>4. /\ t \in Seq(LayerOf(J)) /\ Len(t) = Len(s) + 1
      /\ \A k \in 1 .. Len(s) + 1 :
            t[k] = IF k < i THEN s[k] ELSE IF k = i THEN l ELSE s[k - 1]
  <2>1. s \in Seq(LayerOf(J)) /\ i \in 1 .. Len(s) + 1 /\ l \in LayerOf(J)
    BY <1>1
  <2> QED
    BY ONLY <2>1, PutIn
<1>5. RemoveAt(t, i) = s
    BY <1>1, PutInTakenOut
<1> HIDE DEF t
<1>6. \A k, m \in 1 .. Len(t) : t[k].id = t[m].id => k = m
  <2>1. ASSUME NEW k \in 1 .. Len(t), k # i
        PROVE  \E a \in 1 .. Len(s) : t[k] = s[a] /\ a = IF k < i THEN k ELSE k - 1
    <3>1. CASE k < i
        BY <1>1, <1>4, <3>1
    <3>2. CASE k > i
        BY <1>1, <1>4, <3>2
    <3> QED
        BY <1>1, <1>4, <2>1, <3>1, <3>2
  <2>2. i \in 1 .. Len(t) /\ t[i] = l
    BY <1>1, <1>4
  <2>3. ASSUME NEW k \in 1 .. Len(t), NEW m \in 1 .. Len(t), t[k].id = t[m].id
        PROVE  k = m
    <3>1. CASE k = i \/ m = i
      <4>1. \A p \in 1 .. Len(t) : p # i => t[p].id # l.id
        <5>1. ASSUME NEW p \in 1 .. Len(t), p # i
              PROVE  \E a \in 1 .. Len(s) : t[p] = s[a]
          BY <2>1, <5>1
        <5> QED
          BY <1>1, <5>1
      <4> QED
        BY <2>2, <2>3, <3>1, <4>1
    <3>2. CASE k # i /\ m # i
      <4>1. PICK a \in 1 .. Len(s) : t[k] = s[a] /\ a = IF k < i THEN k ELSE k - 1
        BY <2>1, <3>2
      <4>2. PICK b \in 1 .. Len(s) : t[m] = s[b] /\ b = IF m < i THEN m ELSE m - 1
        BY <2>1, <3>2
      <4>3. a = b
        BY <1>1, <2>3, <4>1, <4>2
      <4> QED
        BY <1>1, <3>2, <4>1, <4>2, <4>3
    <3> QED
        BY <3>1, <3>2
  <2> QED
    BY <2>3
<1>7. e \in DocumentOf(J)
    BY <1>4, <1>6, DocumentWith
<1>8. IndexOf(e, l.id) = i /\ Has(e, l.id) /\ layerById(e, l.id) = l
  <2>1. i \in 1 .. Len(e.layers) /\ e.layers[i] = l
    BY <1>1, <1>3, <1>4
  <2> QED
    BY <1>7, <2>1, PlaceOf
<1>9. Without(e, l.id) = d
  <2>1. Without(e, l.id) = With(e, RemoveAt(e.layers, IndexOf(e, l.id)))
    BY <1>7, <1>8, DocumentParts DEF Without
  <2>2. Without(e, l.id) = With(e, s)
    BY <1>3, <1>5, <1>8, <2>1
  <2>3. With(e, s) = With(d, s)
    BY DocumentParts
  <2>4. With(d, s) = d
    BY DocumentParts DEF s
  <2> QED
    BY <2>2, <2>3, <2>4
<1> QED
    BY <1>2, <1>7, <1>8, <1>9 DEF i, s

(* A layer spliced out is spliced in again where it was. *)
LEMMA SplicedOut ==
    ASSUME NEW I, NEW d \in DocumentOf(I), NEW id, Has(d, id)
    PROVE  /\ Without(d, id) \in DocumentOf(I) /\ ~Has(Without(d, id), id)
           /\ Spliced(Without(d, id), layerById(d, id), IndexOf(d, id) - 1) = d
           /\ Len(Without(d, id).layers) = Len(d.layers) - 1
<1> DEFINE s == d.layers
           i == IndexOf(d, id)
           t == RemoveAt(s, i)
           e == With(d, t)
<1>1. /\ Len(s) \in Nat /\ i \in 1 .. Len(s) /\ s \in Seq(LayerOf(I)) /\ s[i].id = id
      /\ \A k, m \in 1 .. Len(s) : s[k].id = s[m].id => k = m
      /\ layerById(d, id) = s[i]
    BY DocumentParts, Placed
<1>2. Without(d, id) = e
    BY DocumentParts DEF Without
<1>3. e.layers = t
    BY DocumentParts
<1> HIDE DEF s, i
<1>4. /\ t \in Seq(LayerOf(I)) /\ Len(t) = Len(s) - 1
      /\ \A k \in 1 .. Len(s) - 1 : t[k] = IF k < i THEN s[k] ELSE s[k + 1]
    BY <1>1, TakenOut
<1>5. InsertAt(t, i, s[i]) = s
    BY <1>1, TakenOutPutIn
<1> HIDE DEF t
<1>6. ASSUME NEW k \in 1 .. Len(t)
      PROVE  \E a \in 1 .. Len(s) : /\ t[k] = s[a] /\ a # i
                                    /\ a = IF k < i THEN k ELSE k + 1
  <2>1. CASE k < i
    BY <1>1, <1>4, <2>1
  <2>2. CASE ~(k < i)
    BY <1>1, <1>4, <2>2
  <2> QED
    BY <2>1, <2>2
<1>7. \A k, m \in 1 .. Len(t) : t[k].id = t[m].id => k = m
  <2>1. ASSUME NEW k \in 1 .. Len(t), NEW m \in 1 .. Len(t), t[k].id = t[m].id
        PROVE  k = m
    <3>1. PICK a \in 1 .. Len(s) : t[k] = s[a] /\ a # i /\ a = IF k < i THEN k ELSE k + 1
      BY <1>6
    <3>2. PICK b \in 1 .. Len(s) : t[m] = s[b] /\ b # i /\ b = IF m < i THEN m ELSE m + 1
      BY <1>6
    <3>3. a = b
      BY <1>1, <2>1, <3>1, <3>2
    <3> QED
      BY <1>1, <1>4, <3>1, <3>2, <3>3
  <2> QED
    BY <2>1
<1>8. e \in DocumentOf(I)
    BY <1>4, <1>7, DocumentWith
<1>9. ~Has(e, id)
  <2>1. \A k \in 1 .. Len(e.layers) : e.layers[k].id # id
    BY <1>1, <1>3, <1>6
  <2> QED
    BY <2>1, NoPlace
<1>10. Spliced(e, layerById(d, id), i - 1) = d
  <2>1. Clamp(i - 1, Len(t)) + 1 = i
    BY <1>1, <1>4 DEF Clamp
  <2>2. Spliced(e, layerById(d, id), i - 1)
            = With(e, InsertAt(t, Clamp(i - 1, Len(t)) + 1, layerById(d, id)))
    BY <1>3, <1>8, DocumentParts DEF Spliced
  <2>3. Spliced(e, layerById(d, id), i - 1) = With(e, s)
    BY <1>1, <1>5, <2>1, <2>2
  <2>4. With(e, s) = With(d, s)
    BY DocumentParts
  <2>5. With(d, s) = d
    BY DocumentParts DEF s
  <2> QED
    BY <2>3, <2>4, <2>5
<1> QED
    BY <1>2, <1>3, <1>4, <1>8, <1>9, <1>10 DEF i, s

(* A layer changed is changed back. *)
LEMMA ChangedTo ==
    ASSUME NEW I, NEW d \in DocumentOf(I), NEW J, I \subseteq J,
           NEW id, Has(d, id), NEW l \in LayerOf(J), l.id = id
    PROVE  /\ Changed(d, id, l) \in DocumentOf(J)
           /\ Has(Changed(d, id, l), id)
           /\ layerById(Changed(d, id, l), id) = l
           /\ Changed(Changed(d, id, l), id, layerById(d, id)) = d
<1> DEFINE s == d.layers
           i == IndexOf(d, id)
           t == [s EXCEPT ![i] = l]
           e == With(d, t)
           back == [t EXCEPT ![i] = s[i]]
<1>1. /\ Len(s) \in Nat /\ i \in 1 .. Len(s) /\ s \in Seq(LayerOf(J)) /\ s[i].id = id
      /\ \A k, m \in 1 .. Len(s) : s[k].id = s[m].id => k = m
      /\ layerById(d, id) = s[i]
  <2>1. s \in Seq(LayerOf(J))
    BY DocumentParts, MoreIds, SeqMonotonic
  <2> QED
    BY <2>1, DocumentParts, Placed
<1>2. Changed(d, id, l) = e
  <2>1. Changed(d, id, l) = [d EXCEPT !.layers = [d.layers EXCEPT ![i] = l]]
    BY DEF Changed
  <2> QED
    BY <2>1, DocumentParts
<1>3. e.layers = t
    BY DocumentParts
<1> HIDE DEF s, i
<1>4. /\ t \in Seq(LayerOf(J)) /\ Len(t) = Len(s)
      /\ \A k \in 1 .. Len(s) : t[k] = IF k = i THEN l ELSE s[k]
    BY <1>1, ExceptSeq
<1>5. s[i] \in LayerOf(J)
    BY <1>1, ElementOfSeq
<1> HIDE DEF t
<1>6. /\ back \in Seq(LayerOf(J)) /\ Len(back) = Len(t)
      /\ \A k \in 1 .. Len(t) : back[k] = IF k = i THEN s[i] ELSE t[k]
  <2>1. i \in 1 .. Len(t)
    BY <1>1, <1>4
  <2> QED
    BY <1>4, <1>5, <2>1, ExceptSeq
<1> HIDE DEF back
<1>7. back = s
  <2>1. Len(back) = Len(s) /\ \A k \in 1 .. Len(back) : back[k] = s[k]
    BY <1>4, <1>6
  <2> QED
    BY <1>1, <1>6, <2>1, SeqEqual
<1>8. \A k, m \in 1 .. Len(t) : t[k].id = t[m].id => k = m
  <2>1. \A k \in 1 .. Len(t) : t[k].id = s[k].id
    BY <1>1, <1>4
  <2> QED
    BY <1>1, <1>4, <2>1
<1>9. e \in DocumentOf(J)
    BY <1>4, <1>8, DocumentWith
<1>10. Has(e, id) /\ layerById(e, id) = l /\ IndexOf(e, id) = i
  <2>1. i \in 1 .. Len(e.layers) /\ e.layers[i] = l
    BY <1>1, <1>3, <1>4
  <2> QED
    BY <1>9, <2>1, PlaceOf
<1>11. Changed(e, id, layerById(d, id)) = d
  <2>1. Changed(e, id, s[i]) = [e EXCEPT !.layers = [e.layers EXCEPT ![i] = s[i]]]
    BY <1>10 DEF Changed
  <2>2. Changed(e, id, s[i]) = With(e, back)
    <3>1. [e EXCEPT !.layers = back] = With(e, back)
        BY <1>9, DocumentParts
    <3>2. back = [e.layers EXCEPT ![i] = s[i]]
        BY <1>3 DEF back
    <3> HIDE DEF e
    <3> QED
        BY <2>1, <3>1, <3>2
  <2>3. With(e, s) = With(d, s)
    BY DocumentParts
  <2>4. With(d, s) = d
    BY DocumentParts DEF s
  <2> QED
    BY <1>1, <1>7, <2>2, <2>3, <2>4
<1> QED
    BY <1>2, <1>9, <1>10, <1>11

(* The stroke drawn last is the only one of its id. *)
LEMMA DrawnTakenBack ==
    ASSUME NEW I, NEW s \in Seq(I), NEW x, x \notin I
    PROVE  RemoveFirst(Append(s, x), x) = s
<1> DEFINE t == Append(s, x)
           n == Len(s) + 1
           found == {k \in 1 .. Len(t) : t[k] = x}
           u == RemoveAt(t, n)
           J == I \union {x}
<1>1. Len(s) \in Nat /\ s \in Seq(J) /\ \A k \in 1 .. Len(s) : s[k] # x
    BY LenProperties, ElementOfSeq, SeqMonotonic
<1>2. /\ t \in Seq(J) /\ Len(t) = n /\ t[n] = x
      /\ \A k \in 1 .. Len(s) : t[k] = s[k]
    BY <1>1
<1> HIDE DEF t
<1>3. n \in 1 .. Len(t) /\ n \in Nat
    BY <1>1, <1>2
<1>4. found = {n}
  <2>1. \A k \in 1 .. Len(t) : k \in 1 .. Len(s) \/ k = n
    BY <1>1, <1>2
  <2> QED
    BY <1>1, <1>2, <1>3, <2>1
<1>5. Min({n}) = n
    BY <1>3 DEF Min
<1>6. SelectInSeq(t, LAMBDA v : v = x) = IF found # {} THEN Min(found) ELSE 0
    BY DEF SelectInSeq
<1>7. SelectInSeq(t, LAMBDA v : v = x) = n
    BY <1>4, <1>5, <1>6
<1>8. RemoveFirst(t, x) = u
  <2>1. \E k \in 1 .. Len(t) : t[k] = x
    BY <1>2, <1>3
  <2> QED
    BY <1>7, <2>1 DEF RemoveFirst
<1>9. /\ u \in Seq(J) /\ Len(u) = Len(t) - 1
      /\ \A k \in 1 .. Len(t) - 1 : u[k] = IF k < n THEN t[k] ELSE t[k + 1]
    BY <1>2, <1>3, TakenOut
<1> HIDE DEF u
<1>10. Len(u) = Len(s) /\ \A k \in 1 .. Len(u) : u[k] = s[k]
    BY <1>1, <1>2, <1>9
<1>11. u = s
    BY <1>1, <1>9, <1>10, SeqEqual
<1> QED
    BY <1>8, <1>11 DEF t

-----------------------------------------------------------------------------
(* The commands.                                                           *)

(* A command built on this document, its stroke or its layer of the id x.  *)
Fits(c, d, x) ==
    \/ c = addStrokeCommand(c.id, x)
    \/ \E n \in Nat : c = addLayerCommand(NewLayer(x), n)
    \/ \E id : Has(d, id) /\ c = removeLayerCommand(d, id)
    \/ \E id : \E to \in Nat : Has(d, id) /\ c = moveLayerCommand(d, id, to)
    \/ \E id : \E look \in Look : Has(d, id) /\ c = setLookCommand(d, id, look)
    \/ \E paper \in Paper : c = setBackgroundCommand(d, paper)

(* "Commands are exact inverses" (history.ts:201).                         *)
THEOREM ExactCommand ==
    ASSUME NEW I, NEW d \in DocumentOf(I), NEW J, I \subseteq J,
           NEW x \in J, x \notin I, NEW c, Fits(c, d, x)
    PROVE  Apply(d, c) \in DocumentOf(J) /\ Invert(Apply(d, c), c) = d
<1>0. d \in DocumentOf(J)
    BY MoreIds
<1>1. CASE c = addStrokeCommand(c.id, x)
  <2>1. c.do = "stroke" /\ c.stroke = x
    BY <1>1 DEF addStrokeCommand
  <2>2. \A e : Apply(e, c) =
            Changed(e, c.id, [layerById(e, c.id) EXCEPT !.strokes = Append(@, x)])
    BY <2>1 DEF Apply
  <2>3. \A e : Invert(e, c) =
            Changed(e, c.id, [layerById(e, c.id) EXCEPT !.strokes = RemoveFirst(@, x)])
    BY <2>1 DEF Invert
  <2>4. CASE Has(d, c.id)
    <3> DEFINE l == layerById(d, c.id)
               drawn == [l EXCEPT !.strokes = Append(@, x)]
               e == Changed(d, c.id, drawn)
    <3>1. l \in LayerOf(I) /\ l.id = c.id
        BY <2>4, Placed
    <3>2. l.strokes \in Seq(I) /\ l.strokes \in Seq(J)
        BY <3>1, SeqMonotonic DEF LayerOf
    <3>3. drawn \in LayerOf(J) /\ drawn.id = c.id /\ drawn.strokes = Append(l.strokes, x)
        BY <3>1, <3>2 DEF LayerOf
    <3>4. [drawn EXCEPT !.strokes = l.strokes] = l
        BY <3>1 DEF LayerOf
    <3>5. RemoveFirst(drawn.strokes, x) = l.strokes
        BY <3>2, <3>3, DrawnTakenBack
    <3>6. [drawn EXCEPT !.strokes = RemoveFirst(@, x)] = l
        BY <3>4, <3>5
    <3> HIDE DEF drawn
    <3>7. /\ e \in DocumentOf(J) /\ layerById(e, c.id) = drawn
          /\ Changed(e, c.id, l) = d
        BY <2>4, <3>3, ChangedTo
    <3>8. Apply(d, c) = e
        BY <2>2 DEF drawn
    <3> HIDE DEF e, l
    <3>9. Invert(e, c) = d
        BY <2>3, <3>6, <3>7
    <3> QED
        BY <3>7, <3>8, <3>9
  <2>5. CASE ~Has(d, c.id)
    BY <1>0, <2>2, <2>3, <2>5 DEF Changed
  <2> QED
    BY <2>4, <2>5
<1>2. ASSUME NEW n \in Nat, c = addLayerCommand(NewLayer(x), n)
      PROVE  Apply(d, c) \in DocumentOf(J) /\ Invert(Apply(d, c), c) = d
  <2> DEFINE l == NewLayer(x)
  <2>1. c.do = "add" /\ c.layer = l /\ c.index = n
    BY <1>2 DEF addLayerCommand
  <2>2. Apply(d, c) = Spliced(d, l, n) /\ \A e : Invert(e, c) = Without(e, l.id)
    BY <2>1 DEF Apply, Invert
  <2>3. l \in LayerOf(J) /\ l.id = x
    BY EmptySeq DEF NewLayer, LayerOf
  <2>4. ~Has(d, l.id)
    <3>1. \A i \in 1 .. Len(d.layers) : d.layers[i].id # x
        BY DocumentParts
    <3> QED
        BY <2>3, <3>1, NoPlace
  <2> HIDE DEF l
  <2> QED
    BY <2>2, <2>3, <2>4, SplicedIn
<1>3. ASSUME NEW id, Has(d, id), c = removeLayerCommand(d, id)
      PROVE  Apply(d, c) \in DocumentOf(J) /\ Invert(Apply(d, c), c) = d
  <2>1. c.do = "remove" /\ c.layer = layerById(d, id) /\ c.index = IndexOf(d, id) - 1
    BY <1>3 DEF removeLayerCommand
  <2>2. c.layer.id = id
    BY <1>3, <2>1, Placed
  <2>3. /\ Apply(d, c) = Without(d, id)
        /\ \A e : Invert(e, c) = Spliced(e, layerById(d, id), IndexOf(d, id) - 1)
    BY <2>1, <2>2 DEF Apply, Invert
  <2> QED
    BY <1>0, <1>3, <2>3, SplicedOut
<1>4. ASSUME NEW id, NEW to \in Nat, Has(d, id), c = moveLayerCommand(d, id, to)
      PROVE  Apply(d, c) \in DocumentOf(J) /\ Invert(Apply(d, c), c) = d
  <2> DEFINE l == layerById(d, id)
             from == IndexOf(d, id) - 1
             rest == Without(d, id)
             e == Spliced(rest, l, to)
  <2>1. /\ c.do = "move" /\ c.id = id /\ c.to = to /\ c.from = from
    BY <1>4 DEF moveLayerCommand
  <2>2. Apply(d, c) = e /\ \A f : Invert(f, c) = moveLayerTo(f, id, from)
    BY <1>4, <2>1 DEF Apply, Invert, moveLayerTo
  <2>3. /\ rest \in DocumentOf(J) /\ ~Has(rest, id) /\ Spliced(rest, l, from) = d
        /\ l \in LayerOf(J) /\ l.id = id
    BY <1>0, <1>4, SplicedOut, Placed
  <2> HIDE DEF rest, l
  <2>4. /\ e \in DocumentOf(J) /\ Without(e, id) = rest
        /\ layerById(e, id) = l /\ Has(e, id)
    BY <2>3, SplicedIn
  <2> HIDE DEF e, from
  <2>5. moveLayerTo(e, id, from) = d
    BY <2>3, <2>4 DEF moveLayerTo
  <2> QED
    BY <2>2, <2>4, <2>5
<1>5. ASSUME NEW id, NEW look \in Look, Has(d, id), c = setLookCommand(d, id, look)
      PROVE  Apply(d, c) \in DocumentOf(J) /\ Invert(Apply(d, c), c) = d
  <2> DEFINE l == layerById(d, id)
             changed == [l EXCEPT !.look = look]
             e == Changed(d, id, changed)
  <2>1. c.do = "look" /\ c.id = id /\ c.look = look /\ c.previous = l.look
    BY <1>5 DEF setLookCommand
  <2>2. /\ Apply(d, c) = e
        /\ \A f : Invert(f, c) = Changed(f, id, [layerById(f, id) EXCEPT !.look = l.look])
    BY <2>1 DEF Apply, Invert
  <2>3. l \in LayerOf(J) /\ l.id = id
    BY <1>0, <1>5, Placed
  <2>4. changed \in LayerOf(J) /\ changed.id = id /\ [changed EXCEPT !.look = l.look] = l
    BY <2>3 DEF LayerOf
  <2> HIDE DEF changed
  <2>5. e \in DocumentOf(J) /\ layerById(e, id) = changed /\ Changed(e, id, l) = d
    BY <1>0, <1>5, <2>4, ChangedTo
  <2> HIDE DEF e, l
  <2> QED
    BY <2>2, <2>4, <2>5
<1>6. ASSUME NEW paper \in Paper, c = setBackgroundCommand(d, paper)
      PROVE  Apply(d, c) \in DocumentOf(J) /\ Invert(Apply(d, c), c) = d
  <2>1. c.do = "background" /\ c.background = paper /\ c.previous = d.background
    BY <1>6 DEF setBackgroundCommand
  <2>2. /\ Apply(d, c) = [d EXCEPT !.background = paper]
        /\ \A f : Invert(f, c) = [f EXCEPT !.background = d.background]
    BY <2>1 DEF Apply, Invert
  <2>3. d \in [background : Paper, layers : Seq(LayerOf(J))]
    BY <1>0 DEF DocumentOf
  <2>4. [d EXCEPT !.background = paper] \in DocumentOf(J)
    BY <1>0, <2>3 DEF DocumentOf
  <2>5. [[d EXCEPT !.background = paper] EXCEPT !.background = d.background] = d
    BY <2>3
  <2> QED
    BY <2>2, <2>4, <2>5
<1> QED
    BY <1>1, <1>2, <1>3, <1>4, <1>5, <1>6 DEF Fits

-----------------------------------------------------------------------------
(* What the folds of a history entry compute.                              *)

LEMMA Greatest ==
    ASSUME NEW n \in Nat, NEW s \in SUBSET (1 .. n), s # {}
    PROVE  Max(s) \in s /\ \A k \in s : k <= Max(s)
<1> DEFINE N == {n - k : k \in s}
<1>1. N \subseteq Nat /\ N # {}
  <2>1. \A k \in s : n - k \in Nat
    OBVIOUS
  <2> QED
    BY <2>1
<1>2. PICK m \in N : \A k \in N : m <= k
    BY <1>1, LeastNat
<1>3. n - m \in s /\ \A k \in s : k <= n - m
    BY <1>2
<1>4. \E x \in s : \A k \in s : x >= k
    BY <1>3
<1> QED
    BY <1>4 DEF Max

LEMMA GreatestOfInterval ==
    ASSUME NEW n \in Nat, n # 0
    PROVE  /\ (1 .. n) # {} /\ Max(1 .. n) = n
           /\ (1 .. n) \ {Max(1 .. n)} = 1 .. n - 1
<1>1. n \in 1 .. n
    OBVIOUS
<1>2. Max(1 .. n) = n
  <2>1. (1 .. n) \in SUBSET (1 .. n) /\ (1 .. n) # {}
    BY <1>1
  <2>2. Max(1 .. n) \in 1 .. n /\ \A k \in 1 .. n : k <= Max(1 .. n)
    BY <2>1, Greatest
  <2> QED
    BY <1>1, <2>2
<1> QED
    BY <1>1, <1>2

(* A command applied, or taken back; a layer left, or its removal added. *)
Do(way, d, c) ==
    IF way = "apply" THEN Apply(d, c)
    ELSE IF way = "invert" THEN Invert(d, c)
    ELSE IF c.id \in drawnInto THEN d
    ELSE Append(d, removeLayerCommand(doc, c.id))

OneDone(way, base, cs, it, s) ==
    IF s = {} THEN base ELSE Do(way, it[s \ {Max(s)}], cs[Max(s)])

Folding(way, base, cs, it) ==
    it = [s \in SUBSET DOMAIN cs |-> OneDone(way, base, cs, it, s)]

LEMMA FoldingExists ==
    ASSUME NEW way, NEW base, NEW cs, NEW n \in Nat, DOMAIN cs = 1 .. n
    PROVE  \E it : Folding(way, base, cs, it)
<1> DEFINE D == DOMAIN cs
           Upto(m, it) == /\ it \in [SUBSET D -> {it[s] : s \in SUBSET D}]
                          /\ \A s \in SUBSET D :
                                s \subseteq 1 .. m => it[s] = OneDone(way, base, cs, it, s)
           Bad == {m \in Nat : ~ \E it : Upto(m, it)}
<1>1. Bad = {}
  <2> SUFFICES ASSUME Bad # {} PROVE FALSE
    OBVIOUS
  <2>1. PICK m \in Bad : \A k \in Bad : m <= k
    BY LeastNat
  <2>2. CASE m = 0
    <3> DEFINE it == [s \in SUBSET D |-> base]
    <3>1. \A s \in SUBSET D : s \subseteq 1 .. 0 => s = {}
      OBVIOUS
    <3>2. Upto(0, it)
      BY <3>1 DEF OneDone
    <3> QED
      BY <2>2, <3>2
  <2>3. CASE m # 0
    <3>1. m \in Nat /\ m - 1 \in Nat /\ m - 1 \notin Bad
      <4> HIDE DEF Bad
      <4>1. m \in Nat
        BY DEF Bad
      <4> QED
        BY <2>1, <2>3, <4>1
    <3>2. PICK g : Upto(m - 1, g)
      BY <3>1
    <3> DEFINE it == [s \in SUBSET D |-> OneDone(way, base, cs, g, s)]
    <3>3. ASSUME NEW s \in SUBSET D, s \subseteq 1 .. m
          PROVE  it[s] = OneDone(way, base, cs, it, s)
      <4>1. it[s] = OneDone(way, base, cs, g, s)
        OBVIOUS
      <4>2. CASE s = {}
        BY <4>1, <4>2 DEF OneDone
      <4>3. CASE s # {}
        <5> DEFINE t == s \ {Max(s)}
        <5>1. t \in SUBSET D /\ t \subseteq 1 .. m - 1
          <6>1. s \in SUBSET (1 .. m)
            BY <3>3
          <6>2. Max(s) \in s /\ \A k \in s : k <= Max(s)
            BY <3>1, <4>3, <6>1, Greatest
          <6> QED
            BY <3>1, <6>1, <6>2
        <5>2. g[t] = OneDone(way, base, cs, g, t) /\ it[t] = OneDone(way, base, cs, g, t)
          BY <3>2, <5>1
        <5> HIDE DEF it
        <5> QED
          BY <4>1, <4>3, <5>2 DEF OneDone
      <4> QED
        BY <4>2, <4>3
    <3>4. Upto(m, it)
      BY <3>3
    <3> QED
      BY <3>4, <2>1
  <2> QED
    BY <2>2, <2>3
<1>2. PICK it : Upto(n, it)
    BY <1>1
<1>3. it = [s \in SUBSET D |-> OneDone(way, base, cs, it, s)]
    BY <1>2
<1> QED
    BY <1>3 DEF Folding

LEMMA ApplyFolds ==
    ASSUME NEW d, NEW cs, NEW n \in Nat, DOMAIN cs = 1 .. n
    PROVE  \E it : Folding("apply", d, cs, it) /\ FoldLeft(Apply, d, cs) = it[1 .. n]
<1> DEFINE it == CHOOSE i : i = [s \in SUBSET DOMAIN cs |->
                     IF s = {} THEN d ELSE Apply(i[s \ {Max(s)}], cs[Max(s)])]
<1>1. Folding("apply", d, cs, it)
  <2>1. \E i : i = [s \in SUBSET DOMAIN cs |->
                     IF s = {} THEN d ELSE Apply(i[s \ {Max(s)}], cs[Max(s)])]
    <3>1. PICK i : Folding("apply", d, cs, i)
      BY FoldingExists
    <3>2. i = [s \in SUBSET DOMAIN cs |->
                     IF s = {} THEN d ELSE Apply(i[s \ {Max(s)}], cs[Max(s)])]
      BY <3>1 DEF Folding, OneDone, Do
    <3> QED
      BY <3>2
  <2>2. it = [s \in SUBSET DOMAIN cs |->
                     IF s = {} THEN d ELSE Apply(it[s \ {Max(s)}], cs[Max(s)])]
    BY <2>1
  <2> HIDE DEF it
  <2> QED
    BY <2>2 DEF Folding, OneDone, Do
<1>2. FoldLeft(Apply, d, cs) = it[DOMAIN cs]
    BY DEF FoldLeft, MapThenFoldSet
<1> HIDE DEF it
<1> QED
    BY <1>1, <1>2

LEMMA InvertFolds ==
    ASSUME NEW d, NEW cs, NEW n \in Nat, DOMAIN cs = 1 .. n
    PROVE  \E it : Folding("invert", d, cs, it) /\ FoldLeft(Invert, d, cs) = it[1 .. n]
<1> DEFINE it == CHOOSE i : i = [s \in SUBSET DOMAIN cs |->
                     IF s = {} THEN d ELSE Invert(i[s \ {Max(s)}], cs[Max(s)])]
<1>1. Folding("invert", d, cs, it)
  <2>1. \E i : i = [s \in SUBSET DOMAIN cs |->
                     IF s = {} THEN d ELSE Invert(i[s \ {Max(s)}], cs[Max(s)])]
    <3>1. PICK i : Folding("invert", d, cs, i)
      BY FoldingExists
    <3>2. i = [s \in SUBSET DOMAIN cs |->
                     IF s = {} THEN d ELSE Invert(i[s \ {Max(s)}], cs[Max(s)])]
      BY <3>1 DEF Folding, OneDone, Do
    <3> QED
      BY <3>2
  <2>2. it = [s \in SUBSET DOMAIN cs |->
                     IF s = {} THEN d ELSE Invert(it[s \ {Max(s)}], cs[Max(s)])]
    BY <2>1
  <2> HIDE DEF it
  <2> QED
    BY <2>2 DEF Folding, OneDone, Do
<1>2. FoldLeft(Invert, d, cs) = it[DOMAIN cs]
    BY DEF FoldLeft, MapThenFoldSet
<1> HIDE DEF it
<1> QED
    BY <1>1, <1>2

(* The documents a run of commands passes through. *)
Run(way, d, cs, n, run) ==
    /\ DOMAIN run = 0 .. n /\ run[0] = d
    /\ \A i \in 1 .. n : run[i] = Do(way, run[i - 1], cs[i])

LEMMA FoldingRuns ==
    ASSUME NEW way, NEW d, NEW cs, NEW n \in Nat, DOMAIN cs = 1 .. n,
           NEW it, Folding(way, d, cs, it)
    PROVE  Run(way, d, cs, n, [i \in 0 .. n |-> it[1 .. i]])
<1> DEFINE run == [i \in 0 .. n |-> it[1 .. i]]
<1>1. \A s \in SUBSET (1 .. n) : it[s] = OneDone(way, d, cs, it, s)
    BY DEF Folding
<1>2. run[0] = d
  <2>1. (1 .. 0) = {} /\ (1 .. 0) \in SUBSET (1 .. n) /\ 0 \in 0 .. n
    OBVIOUS
  <2>2. it[1 .. 0] = OneDone(way, d, cs, it, 1 .. 0)
    BY <1>1, <2>1
  <2> QED
    BY <2>1, <2>2 DEF OneDone
<1>3. ASSUME NEW i \in 1 .. n
      PROVE  run[i] = Do(way, run[i - 1], cs[i])
  <2>1. /\ (1 .. i) # {} /\ Max(1 .. i) = i /\ (1 .. i) \ {Max(1 .. i)} = 1 .. i - 1
    <3>1. i \in Nat /\ i # 0
      OBVIOUS
    <3> QED
      BY <3>1, GreatestOfInterval
  <2>2. it[1 .. i] = OneDone(way, d, cs, it, 1 .. i)
    <3>1. (1 .. i) \in SUBSET (1 .. n)
      OBVIOUS
    <3> QED
      BY <1>1, <3>1
  <2>3. it[1 .. i] = Do(way, it[1 .. i - 1], cs[i])
    BY <2>1, <2>2 DEF OneDone
  <2>4. i \in 0 .. n /\ i - 1 \in 0 .. n
    OBVIOUS
  <2> QED
    BY <2>3, <2>4
<1> QED
    BY <1>2, <1>3 DEF Run

(* Taken back last first, a run ends where it began. *)
LEMMA RunBack ==
    ASSUME NEW e, NEW n \in Nat, DOMAIN e.children = 1 .. n, Len(e.children) = n,
           NEW d, NEW run, Run("apply", d, e.children, n, run),
           \A i \in 1 .. n : Invert(run[i], e.children[i]) = run[i - 1]
    PROVE  invertAll(run[n], e) = d
<1> DEFINE cs == e.children
           back == Reverse(cs)
<1>1. DOMAIN back = 1 .. n /\ \A i \in 1 .. n : back[i] = cs[n - i + 1]
    BY DEF Reverse
<1>2. PICK it : /\ Folding("invert", run[n], back, it)
                /\ FoldLeft(Invert, run[n], back) = it[1 .. n]
  <2> HIDE DEF back
  <2> QED
    BY <1>1, InvertFolds
<1> DEFINE undone == [i \in 0 .. n |-> it[1 .. i]]
<1>3. Run("invert", run[n], back, n, undone)
    BY <1>1, <1>2, FoldingRuns
<1>4. undone[n] = FoldLeft(Invert, run[n], back)
    BY <1>2
<1> HIDE DEF undone, back
<1> DEFINE Bad == {i \in 0 .. n : undone[i] # run[n - i]}
<1>5. Bad = {}
  <2> SUFFICES ASSUME Bad # {} PROVE FALSE
    OBVIOUS
  <2>0. Bad \subseteq Nat
    OBVIOUS
  <2>1. PICK i \in Bad : \A k \in Bad : i <= k
    BY <2>0, LeastNat
  <2>2. i \in 0 .. n /\ undone[i] # run[n - i]
    BY <2>1
  <2>3. i # 0
    BY <1>3, <2>2 DEF Run
  <2>4. i \in 1 .. n /\ i - 1 \in 0 .. n /\ n - (i - 1) = n - i + 1
        /\ n - i + 1 \in 1 .. n /\ (n - i + 1) - 1 = n - i
    BY <2>2, <2>3
  <2>5. undone[i - 1] = run[n - i + 1]
    BY <2>1, <2>4
  <2>6. undone[i] = Invert(undone[i - 1], cs[n - i + 1])
    BY <1>1, <1>3, <2>4 DEF Run, Do
  <2>7. Invert(run[n - i + 1], cs[n - i + 1]) = run[(n - i + 1) - 1]
    BY <2>4
  <2> QED
    BY <2>2, <2>4, <2>5, <2>6, <2>7
<1>6. undone[n] = run[0]
  <2>1. n \in 0 .. n /\ n - n = 0
    OBVIOUS
  <2> QED
    BY <1>5, <2>1
<1>7. run[0] = d
    BY DEF Run
<1> QED
    BY <1>4, <1>6, <1>7 DEF invertAll, back

(* The ids minted before the k-th of commit n. *)
Older(n, k) == {id \in Nat \X Nat : id[1] < n \/ (id[1] = n /\ id[2] < k)}

LEMMA OlderGrows ==
    ASSUME NEW n \in Nat, NEW k \in Nat
    PROVE  /\ Older(n, k) \subseteq Older(n, k + 1)
           /\ <<n, k>> \in Older(n, k + 1) /\ <<n, k>> \notin Older(n, k)
           /\ Older(n, k) \subseteq Older(n + 1, 1)
BY DEF Older

(* A batch in which every command fits the document it meets: the first    *)
(* that which was, a later one whatever the ones before it left.           *)
FitsAll(cs, d, n) ==
    \A k \in DOMAIN cs : \A f \in DocumentOf(Older(n, k)) :
        (k = 1 => f = d) => Fits(cs[k], f, <<n, k>>)

LEMMA BatchRuns ==
    ASSUME NEW n \in Nat, NEW d \in DocumentOf(Older(n, 1)), NEW e, NEW p \in Nat,
           DOMAIN e.children = 1 .. p, Len(e.children) = p, FitsAll(e.children, d, n)
    PROVE  \E run : /\ Run("apply", d, e.children, p, run)
                    /\ \A i \in 0 .. p : run[i] \in DocumentOf(Older(n, i + 1))
                    /\ \A i \in 1 .. p : Invert(run[i], e.children[i]) = run[i - 1]
                    /\ applyAll(d, e) = run[p]
<1> DEFINE cs == e.children
<1>1. PICK it : /\ Folding("apply", d, cs, it)
                /\ FoldLeft(Apply, d, cs) = it[1 .. p]
    BY ApplyFolds
<1> DEFINE run == [i \in 0 .. p |-> it[1 .. i]]
<1>2. Run("apply", d, cs, p, run)
    BY <1>1, FoldingRuns
<1>3. run[p] = applyAll(d, e)
    BY <1>1 DEF applyAll
<1> HIDE DEF run
<1>4. ASSUME NEW i \in 1 .. p, run[i - 1] \in DocumentOf(Older(n, i))
      PROVE  /\ run[i] \in DocumentOf(Older(n, i + 1))
             /\ Invert(run[i], cs[i]) = run[i - 1]
  <2>1. run[i] = Apply(run[i - 1], cs[i])
    BY <1>2 DEF Run, Do
  <2>2. i = 1 => run[i - 1] = d
    BY <1>2 DEF Run
  <2>3. Fits(cs[i], run[i - 1], <<n, i>>)
    BY <1>4, <2>2 DEF FitsAll
  <2>4. /\ Older(n, i) \subseteq Older(n, i + 1)
        /\ <<n, i>> \in Older(n, i + 1) /\ <<n, i>> \notin Older(n, i)
    BY OlderGrows
  <2> HIDE DEF cs
  <2>5. /\ Apply(run[i - 1], cs[i]) \in DocumentOf(Older(n, i + 1))
        /\ Invert(Apply(run[i - 1], cs[i]), cs[i]) = run[i - 1]
    BY <1>4, <2>3, <2>4, ExactCommand
  <2> QED
    BY <2>1, <2>5
<1> DEFINE Bad == {i \in 0 .. p : run[i] \notin DocumentOf(Older(n, i + 1))}
<1>5. Bad = {}
  <2> SUFFICES ASSUME Bad # {} PROVE FALSE
    OBVIOUS
  <2>0. Bad \subseteq Nat
    OBVIOUS
  <2>1. PICK i \in Bad : \A k \in Bad : i <= k
    BY <2>0, LeastNat
  <2>2. i \in 0 .. p /\ run[i] \notin DocumentOf(Older(n, i + 1))
    BY <2>1
  <2>3. i # 0
    BY <1>2, <2>2 DEF Run
  <2>4. i \in 1 .. p /\ i - 1 \in 0 .. p /\ (i - 1) + 1 = i
    BY <2>2, <2>3
  <2>5. run[i - 1] \in DocumentOf(Older(n, (i - 1) + 1))
    BY <2>1, <2>4
  <2>6. run[i - 1] \in DocumentOf(Older(n, i))
    BY <2>4, <2>5
  <2> QED
    BY <1>4, <2>2, <2>4, <2>6
<1>6. \A i \in 0 .. p : run[i] \in DocumentOf(Older(n, i + 1))
    BY <1>5
<1>7. ASSUME NEW i \in 1 .. p
      PROVE  Invert(run[i], cs[i]) = run[i - 1]
  <2>1. i - 1 \in 0 .. p /\ (i - 1) + 1 = i
    OBVIOUS
  <2>2. run[i - 1] \in DocumentOf(Older(n, (i - 1) + 1))
    BY <1>6, <2>1
  <2> QED
    BY <1>4, <2>1, <2>2
<1> QED
    BY <1>2, <1>3, <1>6, <1>7

(* An entry that takes d to f can be taken back and applied again.         *)
Applied(d, e, f) == f = applyAll(d, e) /\ d = invertAll(f, e)

LEMMA BatchExact ==
    ASSUME NEW n \in Nat, NEW d \in DocumentOf(Older(n, 1)), NEW e, NEW p \in Nat,
           DOMAIN e.children = 1 .. p, Len(e.children) = p, FitsAll(e.children, d, n)
    PROVE  /\ applyAll(d, e) \in DocumentOf(Older(n, p + 1))
           /\ Applied(d, e, applyAll(d, e))
<1>1. PICK run : /\ Run("apply", d, e.children, p, run)
                 /\ \A i \in 0 .. p : run[i] \in DocumentOf(Older(n, i + 1))
                 /\ \A i \in 1 .. p : Invert(run[i], e.children[i]) = run[i - 1]
                 /\ applyAll(d, e) = run[p]
    BY BatchRuns
<1>2. invertAll(run[p], e) = d
  <2>1. /\ p \in Nat /\ DOMAIN e.children = 1 .. p /\ Len(e.children) = p
        /\ Run("apply", d, e.children, p, run)
        /\ \A i \in 1 .. p : Invert(run[i], e.children[i]) = run[i - 1]
    BY <1>1
  <2> QED
    BY ONLY <2>1, RunBack
<1>3. p \in 0 .. p
    OBVIOUS
<1> QED
    BY <1>1, <1>2, <1>3 DEF Applied

-----------------------------------------------------------------------------
(* The history as it is told by at, the document each mark stands for:     *)
(* every entry of the two stacks leads from the document of the mark       *)
(* before it to that of its own, and can be taken back.                    *)

Documents(n) == DocumentOf(Older(n + 1, 1))

TokenAt(u, i) == IF i = 0 THEN 0 ELSE u[i].token

Told(at, u, r, d, n) ==
    /\ at \in [Nat -> Documents(n)]
    /\ \E S : u \in Seq(S) /\ r \in Seq(S)
    /\ d = at[TokenAt(u, Len(u))]
    /\ \A i \in 1 .. Len(u) :
          /\ u[i].token \in 1 .. n
          /\ Applied(at[TokenAt(u, i - 1)], u[i], at[u[i].token])
    /\ \A j \in 1 .. Len(r) :
          /\ r[j].token \in 1 .. n
          /\ Applied(at[IF j = Len(r) THEN TokenAt(u, Len(u)) ELSE r[j + 1].token],
                     r[j], at[r[j].token])

LEMMA DocumentsGrow ==
    ASSUME NEW n \in Nat, NEW m \in Nat, n <= m
    PROVE  Documents(n) \subseteq Documents(m)
<1>1. Older(n + 1, 1) \subseteq Older(m + 1, 1)
    BY DEF Older
<1> QED
    BY <1>1, MoreIds DEF Documents

LEMMA AllButLast ==
    ASSUME NEW S, NEW u \in Seq(S), u # <<>>
    PROVE  /\ Len(u) \in Nat /\ Len(u) # 0 /\ Last(u) = u[Len(u)] /\ Last(u) \in S
           /\ Front(u) \in Seq(S) /\ Len(Front(u)) = Len(u) - 1
           /\ \A i \in 1 .. Len(u) - 1 : Front(u)[i] = u[i]
<1>1. Len(u) \in Nat /\ Len(u) # 0 /\ \A i \in 1 .. Len(u) : u[i] \in S
    BY LenProperties, EmptySeq, ElementOfSeq
<1>2. Front(u) = SubSeq(u, 1, Len(u) - 1)
    BY DEF Front
<1>3. /\ SubSeq(u, 1, Len(u) - 1) \in Seq(S)
      /\ Len(SubSeq(u, 1, Len(u) - 1)) = Len(u) - 1
      /\ \A i \in 1 .. Len(u) - 1 : SubSeq(u, 1, Len(u) - 1)[i] = u[i]
  <2>1. /\ \A i \in 1 .. Len(u) - 1 : u[i] \in S
        /\ 1 \in Int /\ Len(u) - 1 \in Int
        /\ (IF 1 <= Len(u) - 1 THEN (Len(u) - 1) - 1 + 1 ELSE 0) = Len(u) - 1
        /\ (Len(u) - 1) - 1 + 1 = Len(u) - 1
        /\ \A i \in 1 .. Len(u) - 1 : 1 + i - 1 = i
    <3> DEFINE n == Len(u)
    <3>1. n \in Nat /\ n # 0
        BY <1>1
    <3> HIDE DEF n
    <3>2. /\ 1 \in Int /\ n - 1 \in Int
          /\ (IF 1 <= n - 1 THEN (n - 1) - 1 + 1 ELSE 0) = n - 1
          /\ (n - 1) - 1 + 1 = n - 1
          /\ \A i \in 1 .. n - 1 : 1 + i - 1 = i /\ i \in 1 .. n
        BY ONLY <3>1
    <3> QED
        BY ONLY <1>1, <3>2 DEF n
  <2>2. /\ SubSeq(u, 1, Len(u) - 1) \in Seq(S)
        /\ Len(SubSeq(u, 1, Len(u) - 1)) =
              (IF 1 <= Len(u) - 1 THEN (Len(u) - 1) - 1 + 1 ELSE 0)
        /\ \A i \in 1 .. (Len(u) - 1) - 1 + 1 :
              SubSeq(u, 1, Len(u) - 1)[i] = u[1 + i - 1]
    BY <2>1, SubSeqProperties
  <2> QED
    BY <2>1, <2>2
<1> QED
    BY <1>1, <1>2, <1>3 DEF Last

LEMMA ToldFresh ==
    ASSUME NEW n \in Nat, NEW at \in [Nat -> Documents(n)]
    PROVE  Told(at, <<>>, <<>>, at[0], n)
<1>1. <<>> \in Seq({}) /\ Len(<<>>) = 0
    BY EmptySeq
<1> QED
    BY <1>1 DEF Told, TokenAt

LEMMA ToldCommit ==
    ASSUME NEW n \in Nat, NEW at, NEW u, NEW r, NEW d, Told(at, u, r, d, n),
           NEW e, e.token = n + 1, NEW f \in Documents(n + 1), Applied(d, e, f)
    PROVE  /\ Told([at EXCEPT ![n + 1] = f], Append(u, e), <<>>, f, n + 1)
           /\ \A k \in 0 .. n : [at EXCEPT ![n + 1] = f][k] = at[k]
           /\ Last(Append(u, e)) = e /\ Len(Append(u, e)) = Len(u) + 1
<1> DEFINE b == [at EXCEPT ![n + 1] = f]
           v == Append(u, e)
<1>1. at \in [Nat -> Documents(n + 1)]
    BY DocumentsGrow DEF Told
<1>2. b \in [Nat -> Documents(n + 1)] /\ b[n + 1] = f /\ \A k \in 0 .. n : b[k] = at[k]
    BY <1>1
<1>3. PICK S : u \in Seq(S)
    BY DEF Told
<1>4. u \in Seq(S \union {e}) /\ Len(u) \in Nat
    BY <1>3, SeqMonotonic, LenProperties
<1>5. /\ v \in Seq(S \union {e}) /\ Len(v) = Len(u) + 1 /\ v[Len(u) + 1] = e
      /\ \A i \in 1 .. Len(u) : v[i] = u[i]
    BY <1>4
<1>6. <<>> \in Seq(S \union {e}) /\ Len(<<>>) = 0
    BY EmptySeq
<1> HIDE DEF b, v
<1>7. \A i \in 0 .. Len(u) : TokenAt(u, i) \in 0 .. n /\ TokenAt(v, i) = TokenAt(u, i)
    BY <1>5 DEF Told, TokenAt
<1>8. ASSUME NEW i \in 1 .. Len(v)
      PROVE  /\ v[i].token \in 1 .. n + 1
             /\ Applied(b[TokenAt(v, i - 1)], v[i], b[v[i].token])
  <2>1. CASE i = Len(u) + 1
    <3>1. TokenAt(v, i - 1) = TokenAt(u, Len(u)) /\ TokenAt(u, Len(u)) \in 0 .. n
        BY <1>4, <1>7, <2>1
    <3>2. b[TokenAt(v, i - 1)] = d
        BY <1>2, <3>1 DEF Told
    <3>3. v[i] = e /\ b[v[i].token] = f
        BY <1>2, <1>5, <2>1
    <3> QED
        BY <1>4, <3>2, <3>3
  <2>2. CASE i # Len(u) + 1
    <3>1. i \in 1 .. Len(u) /\ i - 1 \in 0 .. Len(u)
        BY <1>4, <1>5, <2>2
    <3>2. /\ v[i] = u[i] /\ u[i].token \in 1 .. n
          /\ Applied(at[TokenAt(u, i - 1)], u[i], at[u[i].token])
        BY <1>5, <3>1 DEF Told
    <3>3. b[TokenAt(v, i - 1)] = at[TokenAt(u, i - 1)]
        BY <1>2, <1>7, <3>1
    <3>4. b[u[i].token] = at[u[i].token]
        BY <1>2, <3>2
    <3> QED
        BY <3>2, <3>3, <3>4
  <2> QED
    BY <2>1, <2>2
<1>9. f = b[TokenAt(v, Len(v))]
    BY <1>2, <1>4, <1>5 DEF TokenAt
<1>10. Told(b, v, <<>>, f, n + 1)
    BY <1>2, <1>5, <1>6, <1>8, <1>9 DEF Told
<1> QED
    BY <1>2, <1>5, <1>10 DEF Last, b, v

LEMMA ToldUndo ==
    ASSUME NEW n \in Nat, NEW at, NEW u, NEW r, NEW d, Told(at, u, r, d, n), u # <<>>
    PROVE  /\ Told(at, Front(u), Append(r, Last(u)), invertAll(d, Last(u)), n)
           /\ Applied(invertAll(d, Last(u)), Last(u), d)
           /\ Last(Append(r, Last(u))) = Last(u)
           /\ Len(Append(r, Last(u))) = Len(r) + 1 /\ Len(Front(u)) = Len(u) - 1
<1> DEFINE e == Last(u)
           v == Front(u)
           s == Append(r, e)
           f == invertAll(d, e)
<1>1. PICK S : u \in Seq(S) /\ r \in Seq(S)
    BY DEF Told
<1>2. Len(u) \in Nat /\ Len(u) # 0 /\ Len(r) \in Nat /\ e = u[Len(u)] /\ e \in S
    BY <1>1, AllButLast, LenProperties
<1>3. /\ v \in Seq(S) /\ Len(v) = Len(u) - 1
      /\ \A i \in 1 .. Len(u) - 1 : v[i] = u[i]
    BY <1>1, AllButLast
<1> HIDE DEF v, e
<1>4. /\ s \in Seq(S) /\ Len(s) = Len(r) + 1 /\ s[Len(r) + 1] = e
      /\ \A j \in 1 .. Len(r) : s[j] = r[j]
    BY <1>1, <1>2
<1> HIDE DEF s
<1>5. \A i \in 0 .. Len(v) : TokenAt(v, i) = TokenAt(u, i)
    BY <1>2, <1>3 DEF TokenAt
<1>6. /\ TokenAt(u, Len(u)) = e.token /\ e.token \in 1 .. n
      /\ Applied(at[TokenAt(u, Len(u) - 1)], e, at[e.token]) /\ d = at[e.token]
  <2>1. Len(u) \in 1 .. Len(u)
    BY <1>2
  <2>2. /\ u[Len(u)].token \in 1 .. n
        /\ Applied(at[TokenAt(u, Len(u) - 1)], u[Len(u)], at[u[Len(u)].token])
        /\ d = at[TokenAt(u, Len(u))]
    BY <2>1 DEF Told
  <2> QED
    BY <1>2, <2>2 DEF TokenAt
<1>7. f = at[TokenAt(v, Len(v))]
  <2>1. TokenAt(v, Len(v)) = TokenAt(u, Len(u) - 1)
    BY <1>2, <1>3, <1>5
  <2> QED
    BY <1>6, <2>1 DEF Applied
<1>8. Applied(f, e, d)
    BY <1>2, <1>3, <1>5, <1>6, <1>7
<1> HIDE DEF f
<1>9. ASSUME NEW i \in 1 .. Len(v)
      PROVE  /\ v[i].token \in 1 .. n
             /\ Applied(at[TokenAt(v, i - 1)], v[i], at[v[i].token])
  <2>1. /\ i \in 1 .. Len(u) /\ v[i] = u[i]
        /\ TokenAt(v, i - 1) = TokenAt(u, i - 1)
    BY <1>2, <1>3, <1>5
  <2>2. u[i].token \in 1 .. n /\ Applied(at[TokenAt(u, i - 1)], u[i], at[u[i].token])
    BY <2>1 DEF Told
  <2> QED
    BY <2>1, <2>2
<1>10. ASSUME NEW j \in 1 .. Len(s)
       PROVE  /\ s[j].token \in 1 .. n
              /\ Applied(at[IF j = Len(s) THEN TokenAt(v, Len(v)) ELSE s[j + 1].token],
                         s[j], at[s[j].token])
  <2>1. CASE j = Len(s)
    BY <1>4, <1>6, <1>7, <1>8, <2>1
  <2>2. CASE j # Len(s)
    <3>1. j \in 1 .. Len(r) /\ j + 1 \in 1 .. Len(s) /\ s[j] = r[j]
        BY <1>2, <1>4, <2>2
    <3>2. s[j + 1].token = IF j = Len(r) THEN TokenAt(u, Len(u)) ELSE r[j + 1].token
        BY <1>2, <1>4, <1>6, <3>1
    <3>3. /\ r[j].token \in 1 .. n
          /\ Applied(at[IF j = Len(r) THEN TokenAt(u, Len(u)) ELSE r[j + 1].token],
                     r[j], at[r[j].token])
        BY <3>1 DEF Told
    <3> QED
        BY <2>2, <3>1, <3>2, <3>3
  <2> QED
    BY <2>1, <2>2
<1>11. Told(at, v, s, f, n)
    BY <1>3, <1>4, <1>7, <1>9, <1>10 DEF Told
<1> QED
    BY <1>3, <1>4, <1>8, <1>11 DEF Last, e, v, s, f

LEMMA ToldRedo ==
    ASSUME NEW n \in Nat, NEW at, NEW u, NEW r, NEW d, Told(at, u, r, d, n), r # <<>>
    PROVE  /\ Told(at, Append(u, Last(r)), Front(r), applyAll(d, Last(r)), n)
           /\ Applied(d, Last(r), applyAll(d, Last(r)))
           /\ Last(Append(u, Last(r))) = Last(r)
           /\ Len(Append(u, Last(r))) = Len(u) + 1 /\ Len(Front(r)) = Len(r) - 1
<1> DEFINE e == Last(r)
           s == Front(r)
           v == Append(u, e)
           f == applyAll(d, e)
<1>1. PICK S : u \in Seq(S) /\ r \in Seq(S)
    BY DEF Told
<1>2. Len(r) \in Nat /\ Len(r) # 0 /\ Len(u) \in Nat /\ e = r[Len(r)] /\ e \in S
    BY <1>1, AllButLast, LenProperties
<1>3. /\ s \in Seq(S) /\ Len(s) = Len(r) - 1
      /\ \A j \in 1 .. Len(r) - 1 : s[j] = r[j]
    BY <1>1, AllButLast
<1> HIDE DEF s, e
<1>4. /\ v \in Seq(S) /\ Len(v) = Len(u) + 1 /\ v[Len(u) + 1] = e
      /\ \A i \in 1 .. Len(u) : v[i] = u[i]
    BY <1>1, <1>2
<1> HIDE DEF v
<1>5. \A i \in 0 .. Len(u) : TokenAt(v, i) = TokenAt(u, i)
    BY <1>2, <1>4 DEF TokenAt
<1>6. e.token \in 1 .. n /\ Applied(at[TokenAt(u, Len(u))], e, at[e.token])
  <2>1. Len(r) \in 1 .. Len(r)
    BY <1>2
  <2>2. /\ r[Len(r)].token \in 1 .. n
        /\ Applied(at[TokenAt(u, Len(u))], r[Len(r)], at[r[Len(r)].token])
    BY <2>1 DEF Told
  <2> QED
    BY <1>2, <2>2
<1>7. f = at[e.token] /\ TokenAt(v, Len(v)) = e.token
    BY <1>2, <1>4, <1>6 DEF Told, TokenAt, Applied
<1>8. Applied(d, e, f)
    BY <1>6, <1>7 DEF Told
<1> HIDE DEF f
<1>9. ASSUME NEW i \in 1 .. Len(v)
      PROVE  /\ v[i].token \in 1 .. n
             /\ Applied(at[TokenAt(v, i - 1)], v[i], at[v[i].token])
  <2>1. CASE i = Len(v)
    BY <1>2, <1>4, <1>5, <1>6, <2>1
  <2>2. CASE i # Len(v)
    <3>1. i \in 1 .. Len(u) /\ v[i] = u[i] /\ TokenAt(v, i - 1) = TokenAt(u, i - 1)
        BY <1>2, <1>4, <1>5, <2>2
    <3> QED
        BY <3>1 DEF Told
  <2> QED
    BY <2>1, <2>2
<1>10. ASSUME NEW j \in 1 .. Len(s)
       PROVE  /\ s[j].token \in 1 .. n
              /\ Applied(at[IF j = Len(s) THEN TokenAt(v, Len(v)) ELSE s[j + 1].token],
                         s[j], at[s[j].token])
  <2>1. /\ j \in 1 .. Len(r) /\ j # Len(r) /\ s[j] = r[j]
        /\ (IF j = Len(s) THEN TokenAt(v, Len(v)) ELSE s[j + 1].token) = r[j + 1].token
    BY <1>2, <1>3, <1>7
  <2>2. /\ r[j].token \in 1 .. n
        /\ Applied(at[r[j + 1].token], r[j], at[r[j].token])
    BY <2>1 DEF Told
  <2> QED
    BY <2>1, <2>2
<1>11. Told(at, v, s, f, n)
    BY <1>3, <1>4, <1>7, <1>9, <1>10 DEF Told
<1> QED
    BY <1>3, <1>4, <1>8, <1>11 DEF Last, e, v, s, f

-----------------------------------------------------------------------------
(* The editor's steps.                                                     *)

Ops == Seq([kind : {"add_layer", "add_stroke"}, layer : Nat \X Nat])

(* Ops that draw only into layers of their own. *)
OwnLayers(ops) ==
    \A k \in DOMAIN ops : ops[k].kind = "add_stroke" =>
        \E i \in 1 .. k - 1 : ops[i].kind = "add_layer" /\ ops[i].layer = ops[k].layer

(* What a proposal must be for its entry to be taken back exactly: any     *)
(* ops, where no drawing is replaced; where drawings of up to three layers *)
(* are, ops that draw into layers of their own.                            *)
Proposed(ops) ==
    /\ ops \in Ops
    /\ MaxReplaced \in Nat
    /\ MaxReplaced = 0 \/ (MaxReplaced <= 3 /\ OwnLayers(ops))

Remembered(at) ==
    /\ made \in Nat
    /\ ghostOps = NoOps \/ Proposed(ghostOps)
    /\ Told(at, undoStack, redoStack, doc, made)

Exact ==
    /\ Len(undoStack') = Len(undoStack) + 1 => invertAll(doc', Last(undoStack')) = doc
    /\ Len(redoStack') = Len(redoStack) + 1 => applyAll(doc', Last(redoStack')) = doc

(* What every step but a load leaves of the history told by at. *)
Carried(at) ==
    /\ made' \in Nat /\ made <= made'
    /\ \E b : /\ Told(b, undoStack', redoStack', doc', made')
              /\ \A k \in 0 .. made : b[k] = at[k]
    /\ Exact

LEMMA StacksLong ==
    ASSUME NEW at, Told(at, undoStack, redoStack, doc, made)
    PROVE  Len(undoStack) \in Nat /\ Len(redoStack) \in Nat
BY LenProperties DEF Told

LEMMA StacksKept ==
    ASSUME NEW at, Remembered(at), UNCHANGED <<doc, undoStack, redoStack, made>>
    PROVE  Carried(at)
<1>1. Told(at, undoStack', redoStack', doc', made') /\ made' \in Nat /\ made <= made'
    BY DEF Remembered
<1>2. Exact
    BY StacksLong DEF Exact, Remembered
<1> QED
    BY <1>1, <1>2 DEF Carried

LEMMA EntryCarried ==
    ASSUME NEW at, Remembered(at), NEW children, commit(children),
           doc' \in Documents(made + 1),
           Applied(doc, compositeCommand(children, made + 1), doc')
    PROVE  Carried(at)
<1> DEFINE e == compositeCommand(children, made + 1)
<1>1. /\ undoStack' = Append(undoStack, e) /\ redoStack' = <<>> /\ made' = made + 1
    BY DEF commit
<1>2. e.token = made + 1 /\ made \in Nat
    BY DEF compositeCommand, Remembered
<1>3. /\ Told([at EXCEPT ![made + 1] = doc'], Append(undoStack, e), <<>>, doc', made + 1)
      /\ \A k \in 0 .. made : [at EXCEPT ![made + 1] = doc'][k] = at[k]
      /\ Last(Append(undoStack, e)) = e /\ Len(Append(undoStack, e)) = Len(undoStack) + 1
    BY <1>2, ToldCommit DEF Remembered
<1>4. invertAll(doc', Last(undoStack')) = doc
    BY <1>1, <1>3 DEF Applied
<1>5. Len(redoStack') # Len(redoStack) + 1
    BY <1>1, StacksLong, EmptySeq DEF Remembered
<1> HIDE DEF e
<1>6. Exact
    BY <1>4, <1>5 DEF Exact
<1>7. \E b : /\ Told(b, undoStack', redoStack', doc', made')
             /\ \A k \in 0 .. made : b[k] = at[k]
    BY <1>1, <1>3
<1> QED
    BY <1>1, <1>2, <1>6, <1>7 DEF Carried

LEMMA CommitCarried ==
    ASSUME NEW at, Remembered(at), NEW children, NEW p \in Nat,
           DOMAIN children = 1 .. p, Len(children) = p,
           FitsAll(children, doc, made + 1), commit(children)
    PROVE  Carried(at)
<1> DEFINE e == compositeCommand(children, made + 1)
<1>1. doc' = applyAll(doc, e) /\ e.children = children
    BY DEF commit, compositeCommand
<1>2. doc \in DocumentOf(Older(made + 1, 1)) /\ made \in Nat /\ made + 1 \in Nat
  <2>1. made \in Nat /\ Told(at, undoStack, redoStack, doc, made)
    BY DEF Remembered
  <2>2. TokenAt(undoStack, Len(undoStack)) \in Nat
    BY <2>1, StacksLong DEF Told, TokenAt
  <2> QED
    BY <2>1, <2>2 DEF Told, Documents
<1> HIDE DEF e
<1>3. /\ applyAll(doc, e) \in DocumentOf(Older(made + 1, p + 1))
      /\ Applied(doc, e, applyAll(doc, e))
    BY <1>1, <1>2, BatchExact
<1>4. Older(made + 1, p + 1) \subseteq Older(made + 1 + 1, 1)
    BY <1>2 DEF Older
<1>5. doc' \in Documents(made + 1)
  <2>1. DocumentOf(Older(made + 1, p + 1)) \subseteq Documents(made + 1)
    BY <1>4, MoreIds DEF Documents
  <2> QED
    BY <1>1, <1>3, <2>1
<1>6. Applied(doc, compositeCommand(children, made + 1), doc')
    BY <1>1, <1>3 DEF e
<1> QED
    BY <1>5, <1>6, EntryCarried

LEMMA OneCarried ==
    ASSUME NEW at, Remembered(at), NEW c, Fits(c, doc, newId(1)), commit(<<c>>)
    PROVE  Carried(at)
<1> DEFINE cs == <<c>>
<1>1. DOMAIN cs = 1 .. 1 /\ Len(cs) = 1 /\ cs[1] = c /\ 1 \in Nat
    OBVIOUS
<1>2. FitsAll(cs, doc, made + 1)
  <2>1. \A k \in DOMAIN cs : k = 1
    BY <1>1
  <2> HIDE DEF cs
  <2> QED
    BY <1>1, <2>1 DEF FitsAll, newId
<1>3. commit(cs)
    OBVIOUS
<1> HIDE DEF cs
<1> QED
    BY <1>1, <1>2, <1>3, CommitCarried

LEMMA LayersLie ==
    ASSUME NEW at, Remembered(at), NEW id \in Layers
    PROVE  Has(doc, id)
<1>1. doc \in Documents(made)
  <2>1. made \in Nat /\ Told(at, undoStack, redoStack, doc, made)
    BY DEF Remembered
  <2>2. TokenAt(undoStack, Len(undoStack)) \in Nat
    BY <2>1, StacksLong DEF Told, TokenAt
  <2> QED
    BY <2>1, <2>2 DEF Told
<1>2. PICK i \in DOMAIN doc.layers : doc.layers[i].id = id
    BY DEF Layers
<1> QED
    BY <1>1, <1>2, PlaceOf, DocumentParts DEF Documents

LEMMA AddedFinite ==
    ASSUME NEW k \in Nat
    PROVE  Cardinality(AddedBefore(k)) \in Nat
<1>1. IsFiniteSet(1 .. k - 1)
    BY FS_Interval
<1>2. AddedBefore(k) \subseteq 1 .. k - 1
    BY DEF AddedBefore
<1> QED
    BY <1>1, <1>2, FS_Subset, FS_CardinalityType

(* The commands of a proposal, whatever it draws into. *)
LEMMA OpsFit ==
    ASSUME NEW p \in Nat, Len(doc.layers) \in Nat
    PROVE  FitsAll([k \in 1 .. p |-> OpCommand(k)], doc, made + 1)
<1> SUFFICES ASSUME NEW k \in 1 .. p, NEW f
             PROVE  Fits(OpCommand(k), f, newId(k))
    BY DEF FitsAll, newId
<1>1. CASE ghostOps[k].kind = "add_layer"
  <2>1. Len(doc.layers) + Cardinality(AddedBefore(k)) \in Nat
    <3>1. k \in Nat
        OBVIOUS
    <3>2. Cardinality(AddedBefore(k)) \in Nat
        BY <3>1, AddedFinite
    <3> QED
        BY ONLY <3>2, Len(doc.layers) \in Nat
  <2> QED
    BY <1>1, <2>1 DEF OpCommand, Fits
<1>2. CASE ghostOps[k].kind # "add_layer"
  <2>1. OpCommand(k) = addStrokeCommand(Resolved(k), newId(k))
    BY <1>2 DEF OpCommand
  <2>2. OpCommand(k).id = Resolved(k)
    BY <2>1 DEF addStrokeCommand
  <2> QED
    BY <2>1, <2>2 DEF Fits
<1> QED
    BY <1>1, <1>2

LEMMA DocumentHeld ==
    ASSUME NEW at, Remembered(at)
    PROVE  /\ doc \in Documents(made) /\ Len(doc.layers) \in Nat
           /\ TokenAt(undoStack, Len(undoStack)) \in 0 .. made
           /\ doc = at[TokenAt(undoStack, Len(undoStack))]
<1>1. made \in Nat /\ Told(at, undoStack, redoStack, doc, made)
    BY DEF Remembered
<1>2. TokenAt(undoStack, Len(undoStack)) \in 0 .. made
    BY <1>1, StacksLong DEF Told, TokenAt
<1>3. doc \in Documents(made) /\ doc = at[TokenAt(undoStack, Len(undoStack))]
    BY <1>1, <1>2 DEF Told
<1> QED
    BY <1>2, <1>3, DocumentParts DEF Documents

LEMMA AddCarried ==
    ASSUME NEW at, Remembered(at), acceptOps("add")
    PROVE  Carried(at)
<1> DEFINE p == Len(ghostOps)
           cs == [k \in 1 .. p |-> OpCommand(k)]
<1>1. ghostOps \in Ops
    BY DEF acceptOps, Remembered, Proposed
<1>2. p \in Nat /\ DOMAIN ghostOps = 1 .. p
    BY <1>1, LenProperties DEF Ops
<1>3. commit(cs \o <<>>)
    BY <1>2 DEF acceptOps
<1>4. cs \in Seq({OpCommand(k) : k \in 1 .. p}) /\ Len(cs) = p /\ DOMAIN cs = 1 .. p
    BY <1>2
<1>5. cs \o <<>> = cs
    BY <1>4, ConcatEmptySeq
<1>6. FitsAll(cs, doc, made + 1)
    BY <1>2, DocumentHeld, OpsFit
<1> HIDE DEF cs, p
<1> QED
    BY <1>2, <1>3, <1>4, <1>5, <1>6, CommitCarried

-----------------------------------------------------------------------------
(* Where the other layers are when one is spliced in. *)
LEMMA PlacesIn ==
    ASSUME NEW I, NEW d \in DocumentOf(I), NEW l \in LayerOf(I), ~Has(d, l.id),
           NEW index \in Nat
    PROVE  LET e == Spliced(d, l, index)
               q == Clamp(index, Len(d.layers)) + 1
           IN  /\ Len(e.layers) = Len(d.layers) + 1
               /\ e.background = d.background
               /\ \A id : Has(d, id) =>
                     /\ Has(e, id) /\ layerById(e, id) = layerById(d, id)
                     /\ IndexOf(e, id) = IF IndexOf(d, id) < q THEN IndexOf(d, id)
                                         ELSE IndexOf(d, id) + 1
               /\ \A id : Has(e, id) => id = l.id \/ Has(d, id)
<1> DEFINE s == d.layers
           q == Clamp(index, Len(s)) + 1
           t == InsertAt(s, q, l)
           e == Spliced(d, l, index)
<1>1. Len(s) \in Nat /\ q \in 1 .. Len(s) + 1 /\ s \in Seq(LayerOf(I))
  <2>1. Len(s) \in Nat /\ s \in Seq(LayerOf(I))
    BY DocumentParts
  <2> QED
    BY <2>1 DEF Clamp
<1>2. e \in DocumentOf(I)
    BY SplicedIn
<1>3. e = With(d, t)
    BY DocumentParts DEF Spliced
<1>4. e.layers = t /\ e.background = d.background
    BY <1>3, DocumentParts
<1>5. /\ t \in Seq(LayerOf(I)) /\ Len(t) = Len(s) + 1
      /\ \A k \in 1 .. Len(s) + 1 :
            t[k] = IF k < q THEN s[k] ELSE IF k = q THEN l ELSE s[k - 1]
  <2> HIDE DEF s, q
  <2> QED
    BY <1>1, PutIn
<1> HIDE DEF t, e, q
<1>6. ASSUME NEW id, Has(d, id)
      PROVE  /\ Has(e, id) /\ layerById(e, id) = layerById(d, id)
             /\ IndexOf(e, id) = IF IndexOf(d, id) < q THEN IndexOf(d, id)
                                 ELSE IndexOf(d, id) + 1
  <2> DEFINE i == IndexOf(d, id)
             k == IF i < q THEN i ELSE i + 1
  <2>1. i \in 1 .. Len(s) /\ layerById(d, id) = s[i] /\ s[i].id = id
    BY <1>6, Placed
  <2> HIDE DEF i, s
  <2>2. k \in 1 .. Len(t) /\ t[k] = s[i]
    BY <1>1, <1>5, <2>1
  <2> HIDE DEF k
  <2>3. IndexOf(e, id) = k /\ Has(e, id) /\ layerById(e, id) = t[k]
    BY <1>2, <1>4, <2>1, <2>2, PlaceOf
  <2> QED
    BY <2>1, <2>2, <2>3 DEF i, k
<1>7. ASSUME NEW id, Has(e, id), id # l.id
      PROVE  Has(d, id)
  <2> DEFINE k == IndexOf(e, id)
             j == IF k < q THEN k ELSE k - 1
  <2>1. k \in 1 .. Len(t) /\ t[k].id = id
    BY <1>2, <1>4, <1>7, Placed
  <2> HIDE DEF k
  <2>2. j \in 1 .. Len(s) /\ s[j].id = id
    <3> HIDE DEF s
    <3> QED
      BY <1>1, <1>5, <1>7, <2>1
  <2> HIDE DEF j
  <2> QED
    BY <2>2, PlaceOf
<1> QED
    BY <1>4, <1>5, <1>6, <1>7 DEF e, q

(* Where they are when one is spliced out. *)
LEMMA PlacesOut ==
    ASSUME NEW I, NEW d \in DocumentOf(I), NEW gone, Has(d, gone)
    PROVE  LET e == Without(d, gone)
           IN  /\ e.background = d.background
               /\ \A id : Has(d, id) /\ id # gone =>
                     /\ Has(e, id) /\ layerById(e, id) = layerById(d, id)
                     /\ IndexOf(e, id) = IF IndexOf(d, id) < IndexOf(d, gone)
                                         THEN IndexOf(d, id) ELSE IndexOf(d, id) - 1
               /\ \A id : Has(e, id) => id # gone /\ Has(d, id)
<1> DEFINE s == d.layers
           q == IndexOf(d, gone)
           t == RemoveAt(s, q)
           e == Without(d, gone)
<1>1. /\ Len(s) \in Nat /\ q \in 1 .. Len(s) /\ s \in Seq(LayerOf(I)) /\ s[q].id = gone
    BY DocumentParts, Placed
<1>2. e \in DocumentOf(I) /\ ~Has(e, gone)
    BY SplicedOut
<1>3. e = With(d, t)
    BY DocumentParts DEF Without
<1>4. e.layers = t /\ e.background = d.background
    BY <1>3, DocumentParts
<1>5. /\ t \in Seq(LayerOf(I)) /\ Len(t) = Len(s) - 1
      /\ \A k \in 1 .. Len(s) - 1 : t[k] = IF k < q THEN s[k] ELSE s[k + 1]
  <2> HIDE DEF s, q
  <2> QED
    BY <1>1, TakenOut
<1> HIDE DEF t, e, q
<1>6. ASSUME NEW id, Has(d, id), id # gone
      PROVE  /\ Has(e, id) /\ layerById(e, id) = layerById(d, id)
             /\ IndexOf(e, id) = IF IndexOf(d, id) < q THEN IndexOf(d, id)
                                 ELSE IndexOf(d, id) - 1
  <2> DEFINE i == IndexOf(d, id)
             k == IF i < q THEN i ELSE i - 1
  <2>1. i \in 1 .. Len(s) /\ layerById(d, id) = s[i] /\ s[i].id = id
    BY <1>6, Placed
  <2> HIDE DEF i, s
  <2>2. i # q
    BY <1>1, <1>6, <2>1
  <2>3. k \in 1 .. Len(t) /\ t[k] = s[i]
    <3>1. CASE i < q
      BY <1>1, <1>5, <2>1, <3>1
    <3>2. CASE i > q
      BY <1>1, <1>5, <2>1, <3>2
    <3> QED
      BY <1>1, <2>1, <2>2, <3>1, <3>2
  <2> HIDE DEF k
  <2>4. IndexOf(e, id) = k /\ Has(e, id) /\ layerById(e, id) = t[k]
    BY <1>2, <1>4, <2>1, <2>3, PlaceOf
  <2> QED
    BY <2>1, <2>3, <2>4 DEF i, k
<1>7. ASSUME NEW id, Has(e, id)
      PROVE  id # gone /\ Has(d, id)
  <2> DEFINE k == IndexOf(e, id)
             j == IF k < q THEN k ELSE k + 1
  <2>1. k \in 1 .. Len(t) /\ t[k].id = id
    BY <1>2, <1>4, <1>7, Placed
  <2> HIDE DEF k
  <2>2. j \in 1 .. Len(s) /\ s[j].id = id
    <3> HIDE DEF s
    <3> QED
      BY <1>1, <1>5, <2>1
  <2> HIDE DEF j
  <2> QED
    BY <1>2, <1>7, <2>2, PlaceOf
<1> QED
    BY <1>4, <1>6, <1>7 DEF e, q

(* Where they are when one is changed. *)
LEMMA PlacesChanged ==
    ASSUME NEW I, NEW d \in DocumentOf(I), NEW x, Has(d, x), NEW l \in LayerOf(I), l.id = x
    PROVE  LET e == Changed(d, x, l)
           IN  /\ e.background = d.background
               /\ \A id : Has(d, id) =>
                     /\ Has(e, id) /\ IndexOf(e, id) = IndexOf(d, id)
                     /\ id # x => layerById(e, id) = layerById(d, id)
               /\ \A id : Has(e, id) => Has(d, id)
<1> DEFINE s == d.layers
           q == IndexOf(d, x)
           t == [s EXCEPT ![q] = l]
           e == Changed(d, x, l)
<1>1. /\ Len(s) \in Nat /\ q \in 1 .. Len(s) /\ s \in Seq(LayerOf(I)) /\ s[q].id = x
    BY DocumentParts, Placed
<1>2. e \in DocumentOf(I)
    BY ChangedTo
<1>3. e = With(d, t)
  <2>1. e = [d EXCEPT !.layers = t]
    BY DEF Changed
  <2> QED
    BY <2>1, DocumentParts
<1>4. e.layers = t /\ e.background = d.background
    BY <1>3, DocumentParts
<1>5. /\ t \in Seq(LayerOf(I)) /\ Len(t) = Len(s)
      /\ \A k \in 1 .. Len(s) : t[k] = IF k = q THEN l ELSE s[k]
  <2> HIDE DEF s, q
  <2> QED
    BY <1>1, ExceptSeq
<1> HIDE DEF t, e, q
<1>6. ASSUME NEW id, Has(d, id)
      PROVE  /\ Has(e, id) /\ IndexOf(e, id) = IndexOf(d, id)
             /\ id # x => layerById(e, id) = layerById(d, id)
  <2> DEFINE i == IndexOf(d, id)
  <2>1. i \in 1 .. Len(s) /\ layerById(d, id) = s[i] /\ s[i].id = id
    BY <1>6, Placed
  <2> HIDE DEF i, s
  <2>2. i \in 1 .. Len(t) /\ t[i].id = id /\ (id # x => t[i] = s[i])
    BY <1>1, <1>5, <2>1
  <2>3. IndexOf(e, id) = i /\ Has(e, id) /\ layerById(e, id) = t[i]
    BY <1>2, <1>4, <2>2, PlaceOf
  <2> QED
    BY <2>1, <2>2, <2>3 DEF i
<1>7. ASSUME NEW id, Has(e, id)
      PROVE  Has(d, id)
  <2> DEFINE k == IndexOf(e, id)
  <2>1. k \in 1 .. Len(t) /\ t[k].id = id
    BY <1>2, <1>4, <1>7, Placed
  <2> HIDE DEF k
  <2>2. k \in 1 .. Len(s) /\ s[k].id = id
    <3> HIDE DEF s
    <3> QED
      BY <1>1, <1>5, <2>1
  <2> QED
    BY <2>2, PlaceOf
<1> QED
    BY <1>4, <1>6, <1>7 DEF e, q

-----------------------------------------------------------------------------
(* A drawing replaced: the layers s that it had, from the i-th on, are     *)
(* still there in their order, and what else is there is among X.          *)
Keeps(e, s, i, X) ==
    /\ \A a \in i .. Len(s) : Has(e, s[a].id) /\ layerById(e, s[a].id) = s[a]
    /\ \A a, b \in i .. Len(s) : a < b => IndexOf(e, s[a].id) < IndexOf(e, s[b].id)
    /\ \A id : Has(e, id) => id \in X \/ \E a \in i .. Len(s) : id = s[a].id

LEMMA KeepsAdded ==
    ASSUME NEW I, NEW e \in DocumentOf(I), NEW l \in LayerOf(I), ~Has(e, l.id),
           NEW index \in Nat, NEW s, NEW i, NEW X, Keeps(e, s, i, X)
    PROVE  Keeps(Spliced(e, l, index), s, i, X \union {l.id})
<1> DEFINE f == Spliced(e, l, index)
           q == Clamp(index, Len(e.layers)) + 1
<1>0. q \in Nat
  <2>1. Len(e.layers) \in Nat
    BY DocumentParts
  <2> QED
    BY <2>1 DEF Clamp
<1>1. /\ \A id : Has(e, id) =>
            /\ Has(f, id) /\ layerById(f, id) = layerById(e, id)
            /\ IndexOf(f, id) = IF IndexOf(e, id) < q THEN IndexOf(e, id)
                                ELSE IndexOf(e, id) + 1
      /\ \A id : Has(f, id) => id = l.id \/ Has(e, id)
    BY PlacesIn
<1> HIDE DEF f, q
<1>2. \A a \in i .. Len(s) : Has(f, s[a].id) /\ layerById(f, s[a].id) = s[a]
    BY <1>1 DEF Keeps
<1>3. ASSUME NEW a \in i .. Len(s), NEW b \in i .. Len(s), a < b
      PROVE  IndexOf(f, s[a].id) < IndexOf(f, s[b].id)
  <2>1. /\ Has(e, s[a].id) /\ Has(e, s[b].id)
        /\ IndexOf(e, s[a].id) < IndexOf(e, s[b].id)
    BY <1>3 DEF Keeps
  <2>2. /\ IndexOf(f, s[a].id) = IF IndexOf(e, s[a].id) < q THEN IndexOf(e, s[a].id)
                                 ELSE IndexOf(e, s[a].id) + 1
        /\ IndexOf(f, s[b].id) = IF IndexOf(e, s[b].id) < q THEN IndexOf(e, s[b].id)
                                 ELSE IndexOf(e, s[b].id) + 1
    BY <1>1, <2>1
  <2>3. IndexOf(e, s[a].id) \in Int /\ IndexOf(e, s[b].id) \in Int
    BY <2>1, Placed
  <2> QED
    BY ONLY <1>0, <2>1, <2>2, <2>3
<1>4. \A id : Has(f, id) => id \in X \union {l.id} \/ \E a \in i .. Len(s) : id = s[a].id
    BY <1>1 DEF Keeps
<1> QED
    BY <1>2, <1>3, <1>4 DEF Keeps, f

(* A layer of X is taken out, if it is there. *)
LEMMA KeepsWithout ==
    ASSUME NEW I, NEW e \in DocumentOf(I), NEW s, NEW i, NEW X, Keeps(e, s, i, X),
           NEW x, \A a \in i .. Len(s) : s[a].id # x
    PROVE  Keeps(Without(e, x), s, i, X \ {x})
<1> DEFINE f == Without(e, x)
<1>1. CASE ~Has(e, x)
  <2>1. f = e
    BY <1>1 DEF Without
  <2> QED
    BY <1>1, <2>1 DEF Keeps
<1>2. CASE Has(e, x)
  <2>1. /\ \A id : Has(e, id) /\ id # x =>
              /\ Has(f, id) /\ layerById(f, id) = layerById(e, id)
              /\ IndexOf(f, id) = IF IndexOf(e, id) < IndexOf(e, x)
                                  THEN IndexOf(e, id) ELSE IndexOf(e, id) - 1
        /\ \A id : Has(f, id) => id # x /\ Has(e, id)
    BY <1>2, PlacesOut
  <2> HIDE DEF f
  <2>2. \A a \in i .. Len(s) : Has(f, s[a].id) /\ layerById(f, s[a].id) = s[a]
    BY <2>1 DEF Keeps
  <2>3. ASSUME NEW a \in i .. Len(s), NEW b \in i .. Len(s), a < b
        PROVE  IndexOf(f, s[a].id) < IndexOf(f, s[b].id)
    <3>1. /\ Has(e, s[a].id) /\ Has(e, s[b].id) /\ s[a].id # x /\ s[b].id # x
          /\ IndexOf(e, s[a].id) < IndexOf(e, s[b].id)
      BY <2>3 DEF Keeps
    <3>2. /\ IndexOf(f, s[a].id) = IF IndexOf(e, s[a].id) < IndexOf(e, x)
                                   THEN IndexOf(e, s[a].id) ELSE IndexOf(e, s[a].id) - 1
          /\ IndexOf(f, s[b].id) = IF IndexOf(e, s[b].id) < IndexOf(e, x)
                                   THEN IndexOf(e, s[b].id) ELSE IndexOf(e, s[b].id) - 1
      BY <2>1, <3>1
    <3>3. /\ IndexOf(e, s[a].id) \in Int /\ IndexOf(e, s[b].id) \in Int
          /\ IndexOf(e, x) \in Int
      BY <1>2, <3>1, Placed
    <3>4. IndexOf(e, s[a].id) # IndexOf(e, x) /\ IndexOf(e, s[b].id) # IndexOf(e, x)
      BY <1>2, <3>1, Placed
    <3> QED
      BY ONLY <3>1, <3>2, <3>3, <3>4
  <2>4. \A id : Has(f, id) => id \in X \ {x} \/ \E a \in i .. Len(s) : id = s[a].id
    BY <2>1 DEF Keeps
  <2> QED
    BY <2>2, <2>3, <2>4 DEF Keeps, f
<1> QED
    BY <1>1, <1>2

(* The next of s is taken out. *)
LEMMA KeepsRest ==
    ASSUME NEW I, NEW e \in DocumentOf(I), NEW d \in DocumentOf(I), NEW X,
           NEW i \in 1 .. Len(d.layers), Keeps(e, d.layers, i, X)
    PROVE  Keeps(Without(e, d.layers[i].id), d.layers, i + 1, X)
<1> DEFINE s == d.layers
           x == s[i].id
           Y == X \union {x}
<1>1. /\ Len(s) \in Nat /\ \A a \in i + 1 .. Len(s) : s[a].id # x /\ a \in i .. Len(s)
  <2>1. Len(s) \in Nat /\ \A a, b \in 1 .. Len(s) : s[a].id = s[b].id => a = b
    BY DocumentParts
  <2>2. \A a \in i + 1 .. Len(s) : a \in 1 .. Len(s) /\ a # i /\ a \in i .. Len(s)
    BY <2>1
  <2> QED
    BY <2>1, <2>2
<1>2. \A a \in i .. Len(s) : a = i \/ a \in i + 1 .. Len(s)
    BY <1>1
<1>3. Keeps(e, s, i + 1, Y)
  <2>1. Keeps(e, s, i, X)
    OBVIOUS
  <2> HIDE DEF s
  <2>2. /\ \A a \in i + 1 .. Len(s) : Has(e, s[a].id) /\ layerById(e, s[a].id) = s[a]
        /\ \A a, b \in i + 1 .. Len(s) :
              a < b => IndexOf(e, s[a].id) < IndexOf(e, s[b].id)
    BY <1>1, <2>1 DEF Keeps
  <2>3. ASSUME NEW id, Has(e, id)
        PROVE  id \in Y \/ \E a \in i + 1 .. Len(s) : id = s[a].id
    <3>1. id \in X \/ \E a \in i .. Len(s) : id = s[a].id
      BY <2>1, <2>3 DEF Keeps
    <3> QED
      BY <1>2, <3>1
  <2> HIDE DEF Y
  <2> QED
    BY <2>2, <2>3 DEF Keeps
<1> HIDE DEF s, x, Y
<1>4. Keeps(Without(e, x), s, i + 1, Y \ {x})
    BY <1>1, <1>3, KeepsWithout
<1>5. Keeps(Without(e, x), s, i + 1, X)
    BY <1>4 DEF Keeps, Y
<1> QED
    BY <1>5 DEF s, x

(* One of s is put back below the ones of s that are there. *)
LEMMA KeepsMore ==
    ASSUME NEW I, NEW e \in DocumentOf(I), NEW d \in DocumentOf(I), NEW X,
           NEW i \in 1 .. Len(d.layers), Keeps(e, d.layers, i + 1, X),
           ~Has(e, d.layers[i].id), NEW index \in Nat,
           \A a \in i + 1 .. Len(d.layers) :
              Clamp(index, Len(e.layers)) < IndexOf(e, d.layers[a].id)
    PROVE  Keeps(Spliced(e, d.layers[i], index), d.layers, i, X)
<1> DEFINE s == d.layers
           l == s[i]
           f == Spliced(e, l, index)
           q == Clamp(index, Len(e.layers)) + 1
<1>0. q \in Nat /\ Clamp(index, Len(e.layers)) = q - 1
  <2>1. Len(e.layers) \in Nat
    BY DocumentParts
  <2> QED
    BY <2>1 DEF Clamp
<1>1. l \in LayerOf(I) /\ Len(s) \in Nat
    BY DocumentParts
<1>2. /\ \A id : Has(e, id) =>
            /\ Has(f, id) /\ layerById(f, id) = layerById(e, id)
            /\ IndexOf(f, id) = IF IndexOf(e, id) < q THEN IndexOf(e, id)
                                ELSE IndexOf(e, id) + 1
      /\ \A id : Has(f, id) => id = l.id \/ Has(e, id)
    BY <1>1, PlacesIn
<1>3. /\ IndexOf(f, l.id) = q /\ layerById(f, l.id) = l /\ Has(f, l.id)
    BY <1>1, SplicedIn
<1>4. \A a \in i .. Len(s) : a = i \/ a \in i + 1 .. Len(s)
    BY <1>1
<1>5. i \in i .. Len(s) /\ \A a \in i + 1 .. Len(s) : a \in i .. Len(s) /\ ~(a < i) /\ i < a
    BY <1>1
<1> HIDE DEF f, q, s
<1>6. \A a \in i .. Len(s) : Has(f, s[a].id) /\ layerById(f, s[a].id) = s[a]
    BY <1>2, <1>3, <1>4 DEF Keeps, s
<1>7. ASSUME NEW a \in i .. Len(s), NEW b \in i .. Len(s), a < b
      PROVE  IndexOf(f, s[a].id) < IndexOf(f, s[b].id)
  <2>1. b \in i + 1 .. Len(s)
    BY <1>4, <1>5, <1>7
  <2>2. /\ Has(e, s[b].id) /\ q - 1 < IndexOf(e, s[b].id)
    BY <1>0, <2>1 DEF Keeps, s
  <2>3. IndexOf(e, s[b].id) \in Int
    BY <2>2, Placed
  <2>4. IndexOf(f, s[b].id) = IndexOf(e, s[b].id) + 1
    <3>1. ~(IndexOf(e, s[b].id) < q)
      BY ONLY <1>0, <2>2, <2>3
    <3> QED
      BY <1>2, <2>2, <3>1
  <2>5. CASE a = i
    <3>1. IndexOf(f, s[a].id) = q
      BY <1>3, <2>5
    <3> QED
      BY ONLY <3>1, <1>0, <2>2, <2>3, <2>4
  <2>6. CASE a \in i + 1 .. Len(s)
    <3>1. Has(e, s[a].id) /\ IndexOf(e, s[a].id) < IndexOf(e, s[b].id)
      BY <1>7, <2>1, <2>6 DEF Keeps, s
    <3>2. IndexOf(e, s[a].id) \in Int
      BY <3>1, Placed
    <3>3. IndexOf(f, s[a].id) = IndexOf(e, s[a].id) \/ IndexOf(f, s[a].id) = IndexOf(e, s[a].id) + 1
      BY <1>2, <3>1
    <3> QED
      BY ONLY <3>1, <3>2, <3>3, <2>3, <2>4
  <2> QED
    BY <1>4, <2>5, <2>6
<1>8. \A id : Has(f, id) => id \in X \/ \E a \in i .. Len(s) : id = s[a].id
    BY <1>2, <1>5 DEF Keeps, s
<1> QED
    BY <1>6, <1>7, <1>8 DEF Keeps, f, s

(* A layer that is not of s is drawn into, or what was drawn taken back. *)
LEMMA KeepsDrawn ==
    ASSUME NEW I, NEW e \in DocumentOf(I), NEW s, NEW i, NEW X, Keeps(e, s, i, X),
           NEW x, \A a \in i .. Len(s) : s[a].id # x,
           NEW l, Has(e, x) => l \in LayerOf(I) /\ l.id = x
    PROVE  Keeps(Changed(e, x, l), s, i, X) /\ Changed(e, x, l) \in DocumentOf(I)
<1> DEFINE f == Changed(e, x, l)
<1>1. CASE ~Has(e, x)
  <2>1. f = e
    BY <1>1 DEF Changed
  <2> QED
    BY <2>1
<1>2. CASE Has(e, x)
  <2>1. /\ \A id : Has(e, id) =>
              /\ Has(f, id) /\ IndexOf(f, id) = IndexOf(e, id)
              /\ id # x => layerById(f, id) = layerById(e, id)
        /\ \A id : Has(f, id) => Has(e, id)
    BY <1>2, PlacesChanged
  <2>2. f \in DocumentOf(I)
    BY <1>2, ChangedTo
  <2> HIDE DEF f
  <2> QED
    BY <2>1, <2>2 DEF Keeps, f
<1> QED
    BY <1>1, <1>2

(* All of s and nothing else is s. *)
LEMMA KeepsAll ==
    ASSUME NEW I, NEW e \in DocumentOf(I), NEW d \in DocumentOf(I),
           Keeps(e, d.layers, 1, {})
    PROVE  e.layers = d.layers
<1> DEFINE s == d.layers
           n == Len(s)
           t == e.layers
           m == Len(t)
           At(a) == IndexOf(e, s[a].id)
<1>1. /\ n \in Nat /\ m \in Nat /\ s \in Seq(LayerOf(I)) /\ t \in Seq(LayerOf(I))
    BY DocumentParts
<1>2. /\ \A a \in 1 .. n : At(a) \in 1 .. m /\ t[At(a)] = s[a]
      /\ \A a, b \in 1 .. n : a < b => At(a) < At(b)
  <2>1. \A a \in 1 .. n : Has(e, s[a].id) /\ layerById(e, s[a].id) = s[a]
    BY DEF Keeps
  <2>2. \A a \in 1 .. n : At(a) \in 1 .. m /\ layerById(e, s[a].id) = t[At(a)]
    BY <2>1, Placed
  <2>3. \A a, b \in 1 .. n : a < b => At(a) < At(b)
    BY DEF Keeps
  <2> QED
    BY <2>1, <2>2, <2>3
<1>3. ASSUME NEW k \in 1 .. m
      PROVE  \E b \in 1 .. n : At(b) = k
  <2>1. Has(e, t[k].id) /\ IndexOf(e, t[k].id) = k
    BY PlaceOf
  <2>2. PICK b \in 1 .. n : t[k].id = s[b].id
    BY <2>1 DEF Keeps
  <2> QED
    BY <2>1, <2>2
<1> HIDE DEF s, n, t, m, At
<1> DEFINE Bad == {a \in 1 .. n : At(a) # a}
<1>4. Bad = {}
  <2> SUFFICES ASSUME Bad # {} PROVE FALSE
    OBVIOUS
  <2>0. Bad \subseteq Nat
    BY <1>1
  <2>1. PICK a \in Bad : \A k \in Bad : a <= k
    BY <2>0, LeastNat
  <2>2. a \in 1 .. n /\ At(a) # a /\ At(a) \in 1 .. m
    BY <1>2, <2>1
  <2>3. \A b \in 1 .. n : b < a => At(b) = b
    BY <1>1, <2>1, <2>2
  <2>4. At(a) > a
    <3>1. CASE a = 1
      BY <1>1, <2>2, <3>1
    <3>2. CASE a # 1
      <4>1. a - 1 \in 1 .. n /\ a - 1 < a
        BY <1>1, <2>2, <3>2
      <4>2. At(a - 1) = a - 1 /\ At(a - 1) < At(a)
        BY <1>2, <2>2, <2>3, <4>1
      <4> QED
        BY <1>1, <2>2, <4>2
    <3> QED
      BY <3>1, <3>2
  <2>5. PICK b \in 1 .. n : At(b) = a
    <3>1. a \in 1 .. m
      BY <1>1, <2>2, <2>4
    <3> QED
      BY <1>3, <3>1
  <2>6. CASE b < a
    BY <1>1, <2>2, <2>3, <2>5, <2>6
  <2>7. CASE b = a
    BY <2>2, <2>5, <2>7
  <2>8. CASE b > a
    <3>1. At(a) < At(b)
      BY <1>2, <2>2, <2>8
    <3> QED
      BY <1>1, <2>2, <2>4, <2>5, <3>1
  <2> QED
    BY <1>1, <2>2, <2>6, <2>7, <2>8
<1>5. \A a \in 1 .. n : At(a) = a
    BY <1>4
<1>6. m = n
  <2>1. n <= m
    <3>1. n = 0 \/ n \in 1 .. n
      BY <1>1
    <3> QED
      BY <1>1, <1>2, <1>5, <3>1
  <2>2. m <= n
    <3>1. m = 0 \/ m \in 1 .. m
      BY <1>1
    <3>2. m \in 1 .. m => m \in 1 .. n
      BY <1>3, <1>5
    <3> QED
      BY <1>1, <3>1, <3>2
  <2> QED
    BY <1>1, <2>1, <2>2
<1>7. \A a \in 1 .. Len(t) : t[a] = s[a]
    BY <1>2, <1>5, <1>6 DEF m
<1>8. Len(t) = Len(s)
    BY <1>6 DEF m, n
<1>9. t = s
    BY <1>1, <1>7, <1>8, SeqEqual
<1> QED
    BY <1>9 DEF s, t

-----------------------------------------------------------------------------
(* A proposal that draws only into layers of its own.                      *)

Fresh(p) == {newId(k) : k \in {j \in 1 .. p : ghostOps[j].kind = "add_layer"}}

LEMMA OwnStrokes ==
    ASSUME ghostOps \in Ops, OwnLayers(ghostOps), NEW k \in Strokes
    PROVE  /\ k \in 1 .. Len(ghostOps)
           /\ \E i \in 1 .. k - 1 : ghostOps[i].kind = "add_layer" /\ Resolved(k) = newId(i)
<1>1. /\ Len(ghostOps) \in Nat /\ DOMAIN ghostOps = 1 .. Len(ghostOps)
      /\ k \in 1 .. Len(ghostOps) /\ ghostOps[k].kind = "add_stroke"
    BY LenProperties DEF Ops, Strokes
<1> DEFINE named == {i \in AddedBefore(k) : ghostOps[i].layer = ghostOps[k].layer}
<1>2. PICK i \in 1 .. k - 1 :
          ghostOps[i].kind = "add_layer" /\ ghostOps[i].layer = ghostOps[k].layer
    BY <1>1 DEF OwnLayers
<1>3. named # {}
    BY <1>2 DEF AddedBefore
<1>4. named \in SUBSET (1 .. k - 1) /\ k - 1 \in Nat
    BY <1>1 DEF AddedBefore
<1>5. Resolved(k) = newId(Max(named))
    BY <1>3 DEF Resolved
<1>6. Max(named) \in named
  <2> HIDE DEF named
  <2> QED
    BY <1>3, <1>4, Greatest
<1>7. Max(named) \in 1 .. k - 1 /\ ghostOps[Max(named)].kind = "add_layer"
    BY <1>6 DEF AddedBefore
<1> QED
    BY <1>1, <1>5, <1>7

(* None of the document's own layers is drawn into: all of them go. *)
LEMMA AllRemoved ==
    ASSUME NEW n \in Nat, doc.layers \in Seq(LayerOf(Older(made + 1, 1))),
           Len(doc.layers) = n, made \in Nat,
           ghostOps \in Ops, OwnLayers(ghostOps)
    PROVE  Removals = [i \in 1 .. n |-> removeLayerCommand(doc, doc.layers[i].id)]
<1> DEFINE s == doc.layers
           Step(commands, l) == IF l.id \in drawnInto THEN commands
                                ELSE Append(commands, removeLayerCommand(doc, l.id))
           it == CHOOSE i : i = [u \in SUBSET DOMAIN s |->
                     IF u = {} THEN <<>> ELSE Step(i[u \ {Max(u)}], s[Max(u)])]
           Out(k) == [i \in 1 .. k |-> removeLayerCommand(doc, s[i].id)]
<1>1. DOMAIN s = 1 .. n /\ \A i \in 1 .. n : s[i].id \notin drawnInto
  <2>1. DOMAIN s = 1 .. n
    BY LenProperties
  <2>2. ASSUME NEW i \in 1 .. n, s[i].id \in drawnInto
        PROVE  FALSE
    <3>1. s[i].id \in Older(made + 1, 1)
      <4>1. s[i] \in LayerOf(Older(made + 1, 1))
        BY ElementOfSeq
      <4> QED
        BY <4>1 DEF LayerOf
    <3>2. PICK k \in Strokes : s[i].id = Resolved(k)
      BY <2>2 DEF drawnInto
    <3>3. PICK j \in 1 .. k - 1 : Resolved(k) = newId(j)
      BY <3>2, OwnStrokes
    <3>4. k \in 1 .. Len(ghostOps) /\ Len(ghostOps) \in Nat
      BY OwnStrokes, LenProperties DEF Ops
    <3>5. s[i].id = <<made + 1, j>> /\ j \in Nat /\ ~(j < 1)
      BY <3>2, <3>3, <3>4 DEF newId
    <3> QED
      BY <3>1, <3>5 DEF Older
  <2> QED
    BY <2>1, <2>2
<1>2. FoldLeft(Step, <<>>, s) = it[DOMAIN s]
    BY DEF FoldLeft, MapThenFoldSet
<1>3. Removals = FoldLeft(Step, <<>>, s)
    BY DEF Removals
<1>4. Folding("remove", <<>>, s, it)
  <2>1. \E i : i = [u \in SUBSET DOMAIN s |->
                     IF u = {} THEN <<>> ELSE Step(i[u \ {Max(u)}], s[Max(u)])]
    <3>1. PICK i : Folding("remove", <<>>, s, i)
      <4> HIDE DEF s
      <4> QED
        BY <1>1, FoldingExists
    <3>2. i = [u \in SUBSET DOMAIN s |->
                     IF u = {} THEN <<>> ELSE Step(i[u \ {Max(u)}], s[Max(u)])]
      BY <3>1 DEF Folding, OneDone, Do
    <3> QED
      BY <3>2
  <2>2. it = [u \in SUBSET DOMAIN s |->
                     IF u = {} THEN <<>> ELSE Step(it[u \ {Max(u)}], s[Max(u)])]
    BY <2>1
  <2> HIDE DEF it
  <2> QED
    BY <2>2 DEF Folding, OneDone, Do
<1> HIDE DEF it
<1> DEFINE run == [i \in 0 .. n |-> it[1 .. i]]
<1>5. Run("remove", <<>>, s, n, run)
  <2> HIDE DEF s
  <2> QED
    BY <1>1, <1>4, FoldingRuns
<1>6. Removals = run[n]
  <2>1. n \in 0 .. n
    OBVIOUS
  <2>2. run[n] = it[1 .. n]
    BY <2>1
  <2> HIDE DEF run, s
  <2> QED
    BY <1>1, <1>2, <1>3, <2>2
<1> HIDE DEF run, s
<1> DEFINE Bad == {k \in 0 .. n : run[k] # Out(k)}
<1>7. Bad = {}
  <2> SUFFICES ASSUME Bad # {} PROVE FALSE
    OBVIOUS
  <2>0. Bad \subseteq Nat
    OBVIOUS
  <2>1. PICK k \in Bad : \A j \in Bad : k <= j
    BY <2>0, LeastNat
  <2>2. k \in 0 .. n /\ run[k] # Out(k)
    BY <2>1
  <2>3. CASE k = 0
    <3>1. Out(0) = <<>>
      OBVIOUS
    <3>2. run[0] = <<>>
      BY <1>5 DEF Run
    <3> QED
      BY <2>2, <2>3, <3>1, <3>2
  <2>4. CASE k # 0
    <3>1. k \in 1 .. n /\ k - 1 \in 0 .. n
      BY <2>2, <2>4
    <3>2. run[k - 1] = Out(k - 1)
      BY <2>1, <3>1
    <3>3. run[k] = Append(Out(k - 1), removeLayerCommand(doc, s[k].id))
      BY <1>1, <1>5, <3>1, <3>2 DEF Run, Do
    <3>4. Append(Out(k - 1), removeLayerCommand(doc, s[k].id)) = Out(k)
      <4> DEFINE F(i) == removeLayerCommand(doc, s[i].id)
      <4> HIDE DEF F
      <4>1. k \in Nat /\ k # 0
        BY <3>1
      <4>2. Append([i \in 1 .. k - 1 |-> F(i)], F(k)) = [i \in 1 .. k |-> F(i)]
        BY ONLY <4>1
      <4> QED
        BY <4>2 DEF F
    <3> QED
      BY <2>2, <3>3, <3>4
  <2> QED
    BY <2>3, <2>4
<1>8. run[n] = Out(n)
  <2>1. n \in 0 .. n
    OBVIOUS
  <2> QED
    BY <1>7, <2>1
<1> QED
    BY <1>6, <1>8 DEF s

LEMMA LeftTakenOut ==
    ASSUME NEW S, NEW s \in Seq(S), NEW x
    PROVE  RemoveFirst(s, x) \in Seq(S)
<1> DEFINE found == {k \in 1 .. Len(s) : s[k] = x}
<1>1. CASE \E k \in 1 .. Len(s) : s[k] = x
  <2>1. found # {} /\ found \subseteq Nat
    BY <1>1
  <2>2. PICK m \in found : \A k \in found : m <= k
    BY <2>1, LeastNat
  <2>3. Min(found) \in found
    BY <2>2 DEF Min
  <2>4. SelectInSeq(s, LAMBDA v : v = x) = IF found # {} THEN Min(found) ELSE 0
    BY DEF SelectInSeq
  <2>5. SelectInSeq(s, LAMBDA v : v = x) = Min(found) /\ Min(found) \in 1 .. Len(s)
    BY <2>1, <2>3, <2>4
  <2>6. RemoveFirst(s, x) = RemoveAt(s, Min(found))
    BY <1>1, <2>5 DEF RemoveFirst
  <2> HIDE DEF found
  <2> QED
    BY <2>5, <2>6, TakenOut
<1>2. CASE ~ \E k \in 1 .. Len(s) : s[k] = x
    BY <1>2 DEF RemoveFirst
<1> QED
    BY <1>1, <1>2

(* A replacement of doc is under way; Ids are those there are after it. *)
Replacing ==
    /\ made \in Nat /\ doc \in Documents(made)
    /\ ghostOps \in Ops /\ OwnLayers(ghostOps) /\ ghostOps # NoOps

Ids == Older(made + 1 + 1, 1)

LEMMA ReplacingIds ==
    ASSUME Replacing
    PROVE  /\ Len(ghostOps) \in Nat /\ 1 \in 1 .. Len(ghostOps)
           /\ ghostOps[1].kind = "add_layer"
           /\ \A k \in 1 .. Len(ghostOps) : ghostOps[k].kind \in {"add_layer", "add_stroke"}
           /\ doc \in DocumentOf(Ids) /\ Len(doc.layers) \in Nat
           /\ doc.layers \in Seq(LayerOf(Older(made + 1, 1)))
           /\ \A k \in Nat : newId(k) \in Ids
           /\ \A a \in 1 .. Len(doc.layers) : \A k \in Nat : k # 0 => doc.layers[a].id # newId(k)
           /\ \A j, k \in Nat : newId(j) = newId(k) => j = k
<1>1. Len(ghostOps) \in Nat /\ DOMAIN ghostOps = 1 .. Len(ghostOps) /\ Len(ghostOps) # 0
    BY LenProperties, EmptySeq DEF Replacing, Ops, NoOps
<1>2. 1 \in 1 .. Len(ghostOps)
    BY <1>1
<1>3. \A k \in 1 .. Len(ghostOps) : ghostOps[k].kind \in {"add_layer", "add_stroke"}
  <2>1. ASSUME NEW k \in 1 .. Len(ghostOps)
        PROVE  ghostOps[k] \in [kind : {"add_layer", "add_stroke"}, layer : Nat \X Nat]
    BY ElementOfSeq DEF Replacing, Ops
  <2> QED
    BY <2>1
<1>4. ghostOps[1].kind = "add_layer"
  <2>1. ghostOps[1].kind # "add_stroke"
    BY <1>1, <1>2 DEF Replacing, OwnLayers
  <2> QED
    BY <1>2, <1>3, <2>1
<1>5. doc \in DocumentOf(Ids) /\ made \in Nat
  <2>1. made \in Nat /\ made + 1 \in Nat /\ made <= made + 1
    BY DEF Replacing
  <2> QED
    BY <2>1, DocumentsGrow DEF Replacing, Documents, Ids
<1>6. doc \in DocumentOf(Older(made + 1, 1))
    BY DEF Replacing, Documents
<1>7. /\ Len(doc.layers) \in Nat /\ doc.layers \in Seq(LayerOf(Older(made + 1, 1)))
      /\ \A a \in 1 .. Len(doc.layers) : doc.layers[a].id \in Older(made + 1, 1)
    BY <1>6, DocumentParts
<1>8. /\ \A k \in Nat : newId(k) \in Ids
      /\ \A k \in Nat : k # 0 => newId(k) \notin Older(made + 1, 1)
      /\ \A j, k \in Nat : newId(j) = newId(k) => j = k
    BY <1>5 DEF newId, Ids, Older
<1>9. \A a \in 1 .. Len(doc.layers) : \A k \in Nat : k # 0 => doc.layers[a].id # newId(k)
    BY <1>7, <1>8
<1> QED
    BY <1>1, <1>2, <1>3, <1>4, <1>5, <1>7, <1>8, <1>9

(* An op of it, done: the document's own layers are left alone. *)
LEMMA OpDone ==
    ASSUME Replacing, NEW k \in 1 .. Len(ghostOps), NEW e \in DocumentOf(Ids),
           Keeps(e, doc.layers, 1, Fresh(k - 1))
    PROVE  /\ Apply(e, OpCommand(k)) \in DocumentOf(Ids)
           /\ Apply(e, OpCommand(k)).background = e.background
           /\ Keeps(Apply(e, OpCommand(k)), doc.layers, 1, Fresh(k))
           /\ k = 1 \/ Has(e, newId(1)) => Has(Apply(e, OpCommand(k)), newId(1))
<1> DEFINE s == doc.layers
           c == OpCommand(k)
           f == Apply(e, c)
<1>1. k \in Nat /\ k # 0 /\ k - 1 \in Nat
    BY ReplacingIds
<1>2. CASE ghostOps[k].kind = "add_layer"
  <2> DEFINE l == NewLayer(newId(k))
             index == Len(doc.layers) + Cardinality(AddedBefore(k))
  <2>1. index \in Nat
    <3>1. Len(doc.layers) \in Nat /\ Cardinality(AddedBefore(k)) \in Nat
      BY <1>1, AddedFinite, ReplacingIds
    <3> QED
      BY ONLY <3>1
  <2>2. c = addLayerCommand(l, index)
    BY <1>2 DEF OpCommand
  <2> HIDE DEF index, c
  <2>3. f = Spliced(e, l, index)
    BY <2>2 DEF addLayerCommand, Apply
  <2>4. l.id = newId(k) /\ l \in LayerOf(Ids)
    BY <1>1, ReplacingIds, EmptySeq DEF NewLayer, LayerOf
  <2> HIDE DEF l
  <2>5. ~Has(e, l.id)
    <3>1. newId(k) \notin Fresh(k - 1)
      BY <1>1, ReplacingIds DEF Fresh
    <3>2. \A a \in 1 .. Len(s) : s[a].id # newId(k)
      BY <1>1, ReplacingIds
    <3> QED
      BY <2>4, <3>1, <3>2 DEF Keeps
  <2>6. f \in DocumentOf(Ids) /\ Has(f, l.id)
    BY <2>1, <2>3, <2>4, <2>5, SplicedIn
  <2>7. f.background = e.background /\ \A id : Has(e, id) => Has(f, id)
    BY <2>1, <2>3, <2>4, <2>5, PlacesIn
  <2>8. Keeps(f, s, 1, Fresh(k - 1) \union {newId(k)})
    BY <2>1, <2>3, <2>4, <2>5, KeepsAdded
  <2>9. Fresh(k - 1) \union {newId(k)} = Fresh(k)
    BY <1>1, <1>2 DEF Fresh
  <2> QED
    BY <2>4, <2>6, <2>7, <2>8, <2>9 DEF c
<1>3. CASE ghostOps[k].kind = "add_stroke"
  <2> DEFINE x == Resolved(k)
             drawn == [layerById(e, x) EXCEPT !.strokes = Append(@, newId(k))]
  <2>1. c = addStrokeCommand(x, newId(k))
    BY <1>3 DEF OpCommand
  <2> HIDE DEF c
  <2>2. f = Changed(e, x, drawn)
    BY <2>1 DEF addStrokeCommand, Apply
  <2>3. PICK i \in 1 .. k - 1 : x = newId(i)
    <3>1. k \in Strokes
      BY <1>3, LenProperties DEF Strokes, Replacing, Ops
    <3> QED
      BY <3>1, OwnStrokes DEF Replacing
  <2>4. \A a \in 1 .. Len(s) : s[a].id # x
    BY <1>1, <2>3, ReplacingIds
  <2>5. Has(e, x) => drawn \in LayerOf(Ids) /\ drawn.id = x
    <3> SUFFICES ASSUME Has(e, x) PROVE drawn \in LayerOf(Ids) /\ drawn.id = x
      OBVIOUS
    <3>1. layerById(e, x) \in LayerOf(Ids) /\ layerById(e, x).id = x
      BY Placed
    <3>2. layerById(e, x).strokes \in Seq(Ids) /\ newId(k) \in Ids
      BY <1>1, <3>1, ReplacingIds DEF LayerOf
    <3>3. Append(layerById(e, x).strokes, newId(k)) \in Seq(Ids)
      BY <3>2
    <3> QED
      BY <3>1, <3>3 DEF LayerOf
  <2> HIDE DEF drawn, x
  <2>6. Keeps(f, s, 1, Fresh(k - 1)) /\ f \in DocumentOf(Ids)
    BY <2>2, <2>4, <2>5, KeepsDrawn
  <2>7. f.background = e.background /\ \A id : Has(e, id) => Has(f, id)
    <3>1. CASE Has(e, x)
      BY <2>2, <2>5, <3>1, PlacesChanged
    <3>2. CASE ~Has(e, x)
      BY <2>2, <3>2 DEF Changed
    <3> QED
      BY <3>1, <3>2
  <2>8. Fresh(k - 1) = Fresh(k)
    <3>1. \A j \in 1 .. k : ghostOps[j].kind = "add_layer" => j \in 1 .. k - 1
      BY <1>1, <1>3
    <3> QED
      BY <1>1, <3>1 DEF Fresh
  <2>9. k # 1
    BY <1>3, ReplacingIds
  <2> QED
    BY <2>6, <2>7, <2>8, <2>9 DEF c
<1> QED
    BY <1>2, <1>3, ReplacingIds

(* An op of it, taken back. *)
LEMMA OpUndone ==
    ASSUME Replacing, NEW k \in 1 .. Len(ghostOps), NEW e \in DocumentOf(Ids),
           Keeps(e, doc.layers, 1, Fresh(k))
    PROVE  /\ Invert(e, OpCommand(k)) \in DocumentOf(Ids)
           /\ Invert(e, OpCommand(k)).background = e.background
           /\ Keeps(Invert(e, OpCommand(k)), doc.layers, 1, Fresh(k - 1))
<1> DEFINE s == doc.layers
           c == OpCommand(k)
           f == Invert(e, c)
<1>1. k \in Nat /\ k # 0 /\ k - 1 \in Nat
    BY ReplacingIds
<1>2. CASE ghostOps[k].kind = "add_layer"
  <2> DEFINE x == newId(k)
             index == Len(doc.layers) + Cardinality(AddedBefore(k))
  <2>1. c = addLayerCommand(NewLayer(x), index)
    BY <1>2 DEF OpCommand
  <2> HIDE DEF index, c
  <2>2. f = Without(e, x)
    BY <2>1 DEF addLayerCommand, Invert, NewLayer
  <2>3. \A a \in 1 .. Len(s) : s[a].id # x
    BY <1>1, ReplacingIds
  <2> HIDE DEF x
  <2>4. Keeps(f, s, 1, Fresh(k) \ {x})
    BY <2>2, <2>3, KeepsWithout
  <2>5. f \in DocumentOf(Ids) /\ f.background = e.background
    <3>1. CASE Has(e, x)
      BY <2>2, <3>1, SplicedOut, PlacesOut
    <3>2. CASE ~Has(e, x)
      BY <2>2, <3>2 DEF Without
    <3> QED
      BY <3>1, <3>2
  <2>6. Fresh(k) \ {x} = Fresh(k - 1)
    <3>1. \A j \in 1 .. k : j = k \/ j \in 1 .. k - 1
      BY <1>1
    <3>2. \A j \in 1 .. k - 1 : j \in 1 .. k /\ newId(j) # x
      BY <1>1, ReplacingIds DEF x
    <3> QED
      BY <3>1, <3>2 DEF Fresh, x
  <2> QED
    BY <2>4, <2>5, <2>6 DEF c
<1>3. CASE ghostOps[k].kind = "add_stroke"
  <2> DEFINE x == Resolved(k)
             rest == [layerById(e, x) EXCEPT !.strokes = RemoveFirst(@, newId(k))]
  <2>1. c = addStrokeCommand(x, newId(k))
    BY <1>3 DEF OpCommand
  <2> HIDE DEF c
  <2>2. f = Changed(e, x, rest)
    BY <2>1 DEF addStrokeCommand, Invert
  <2>3. PICK i \in 1 .. k - 1 : x = newId(i)
    <3>1. k \in Strokes
      BY <1>3, LenProperties DEF Strokes, Replacing, Ops
    <3> QED
      BY <3>1, OwnStrokes DEF Replacing
  <2>4. \A a \in 1 .. Len(s) : s[a].id # x
    BY <1>1, <2>3, ReplacingIds
  <2>5. Has(e, x) => rest \in LayerOf(Ids) /\ rest.id = x
    <3> SUFFICES ASSUME Has(e, x) PROVE rest \in LayerOf(Ids) /\ rest.id = x
      OBVIOUS
    <3>1. layerById(e, x) \in LayerOf(Ids) /\ layerById(e, x).id = x
      BY Placed
    <3>2. layerById(e, x).strokes \in Seq(Ids)
      BY <3>1 DEF LayerOf
    <3>3. RemoveFirst(layerById(e, x).strokes, newId(k)) \in Seq(Ids)
      BY <3>2, LeftTakenOut
    <3> QED
      BY <3>1, <3>3 DEF LayerOf
  <2> HIDE DEF rest, x
  <2>6. Keeps(f, s, 1, Fresh(k)) /\ f \in DocumentOf(Ids)
    BY <2>2, <2>4, <2>5, KeepsDrawn
  <2>7. f.background = e.background
    <3>1. CASE Has(e, x)
      BY <2>2, <2>5, <3>1, PlacesChanged
    <3>2. CASE ~Has(e, x)
      BY <2>2, <3>2 DEF Changed
    <3> QED
      BY <3>1, <3>2
  <2>8. Fresh(k - 1) = Fresh(k)
    <3>1. \A j \in 1 .. k : ghostOps[j].kind = "add_layer" => j \in 1 .. k - 1
      BY <1>1, <1>3
    <3> QED
      BY <1>1, <3>1 DEF Fresh
  <2> QED
    BY <2>6, <2>7, <2>8 DEF c
<1> QED
    BY <1>2, <1>3, ReplacingIds

(* The command that takes away the document's j-th layer. *)
LEMMA RemovalOf ==
    ASSUME Replacing, NEW j \in 1 .. Len(doc.layers)
    PROVE  LET c == removeLayerCommand(doc, doc.layers[j].id)
           IN  /\ \A e : Apply(e, c) = Without(e, doc.layers[j].id)
               /\ \A e : Invert(e, c) = Spliced(e, doc.layers[j], j - 1)
<1> DEFINE l == doc.layers[j]
           c == removeLayerCommand(doc, l.id)
<1>1. IndexOf(doc, l.id) = j /\ layerById(doc, l.id) = l
    BY ReplacingIds, PlaceOf
<1>2. c.do = "remove" /\ c.layer = l /\ c.index = j - 1
    BY <1>1 DEF removeLayerCommand
<1> HIDE DEF c, l
<1>3. \A e : Apply(e, c) = Without(e, l.id) /\ Invert(e, c) = Spliced(e, l, j - 1)
    BY <1>2 DEF Apply, Invert
<1> QED
    BY <1>3 DEF c, l

LEMMA RemovalDone ==
    ASSUME Replacing, NEW j \in 1 .. Len(doc.layers), NEW e \in DocumentOf(Ids),
           NEW X, Keeps(e, doc.layers, j, X)
    PROVE  LET f == Apply(e, removeLayerCommand(doc, doc.layers[j].id))
           IN  /\ f \in DocumentOf(Ids) /\ f.background = e.background
               /\ Keeps(f, doc.layers, j + 1, X)
               /\ Has(e, newId(1)) => Has(f, newId(1))
<1> DEFINE x == doc.layers[j].id
           f == Without(e, x)
<1>1. Apply(e, removeLayerCommand(doc, x)) = f
    BY RemovalOf
<1>2. Keeps(f, doc.layers, j + 1, X)
    BY ReplacingIds, KeepsRest
<1>3. Has(e, x) /\ newId(1) # x
  <2>1. j \in j .. Len(doc.layers)
    BY ReplacingIds
  <2> QED
    BY <2>1, ReplacingIds DEF Keeps
<1> HIDE DEF f
<1>4. /\ f \in DocumentOf(Ids) /\ f.background = e.background
      /\ Has(e, newId(1)) => Has(f, newId(1))
    BY <1>3, SplicedOut, PlacesOut DEF f
<1> QED
    BY <1>1, <1>2, <1>4

(* Put back in the reverse order, each of up to three layers goes below    *)
(* the ones above it that are back already.                                *)
LEMMA RemovalUndone ==
    ASSUME Replacing, Len(doc.layers) <= 3, NEW j \in 1 .. Len(doc.layers),
           NEW e \in DocumentOf(Ids), Keeps(e, doc.layers, j + 1, Fresh(Len(ghostOps))),
           Has(e, newId(1)),
           j < Len(doc.layers) => IndexOf(e, doc.layers[j + 1].id) >= j
    PROVE  LET f == Invert(e, removeLayerCommand(doc, doc.layers[j].id))
           IN  /\ f \in DocumentOf(Ids) /\ f.background = e.background
               /\ Keeps(f, doc.layers, j, Fresh(Len(ghostOps)))
               /\ Has(f, newId(1))
               /\ IndexOf(f, doc.layers[j].id) >= j - 1
<1> DEFINE s == doc.layers
           n == Len(s)
           l == s[j]
           X == Fresh(Len(ghostOps))
           q == Clamp(j - 1, Len(e.layers)) + 1
           f == Spliced(e, l, j - 1)
<1>0. n \in Nat /\ j \in Nat /\ j # 0 /\ j - 1 \in Nat /\ j <= n /\ n <= 3
    BY ReplacingIds
<1>1. Invert(e, removeLayerCommand(doc, l.id)) = f
    BY RemovalOf
<1>2. l \in LayerOf(Ids) /\ \A a, b \in 1 .. n : s[a].id = s[b].id => a = b
    BY ReplacingIds, DocumentParts
<1>3. ~Has(e, l.id)
  <2>1. l.id \notin X
    <3>1. \A k \in 1 .. Len(ghostOps) : k \in Nat /\ k # 0
      BY ReplacingIds
    <3> QED
      BY <3>1, ReplacingIds DEF Fresh
  <2>2. \A a \in j + 1 .. n : l.id # s[a].id
    <3>1. \A a \in j + 1 .. n : a \in 1 .. n /\ a # j
      BY <1>0
    <3> QED
      BY <1>2, <3>1
  <2> QED
    BY <2>1, <2>2 DEF Keeps
<1>4. Len(e.layers) \in Nat /\ Len(e.layers) # 0
  <2>1. IndexOf(e, newId(1)) \in 1 .. Len(e.layers)
    BY Placed
  <2> QED
    BY <2>1, DocumentParts
<1>5. q \in Nat /\ q <= j /\ q >= j - 1 /\ Clamp(j - 1, Len(e.layers)) = q - 1
  <2> DEFINE m == Len(e.layers)
  <2> HIDE DEF m, n
  <2>1. m \in Nat /\ m # 0
    BY <1>4 DEF m
  <2> QED
    BY <1>0, <2>1 DEF Clamp, m
<1>6. ASSUME NEW a \in j + 1 .. n
      PROVE  Clamp(j - 1, Len(e.layers)) < IndexOf(e, s[a].id)
  <2>1. /\ j + 1 \in j + 1 .. n /\ (j + 1 < a \/ a = j + 1) /\ j < n
    BY <1>0
  <2>2. Has(e, s[a].id) /\ Has(e, s[j + 1].id)
    BY <2>1 DEF Keeps
  <2>3. IndexOf(e, s[a].id) \in Int /\ IndexOf(e, s[j + 1].id) \in Int
    BY <2>2, Placed
  <2>4. IndexOf(e, s[j + 1].id) <= IndexOf(e, s[a].id)
    <3>1. CASE a = j + 1
      BY <2>3, <3>1
    <3>2. CASE j + 1 < a
      <4>1. IndexOf(e, s[j + 1].id) < IndexOf(e, s[a].id)
        BY <2>1, <3>2 DEF Keeps
      <4> QED
        BY <2>3, <4>1
    <3> QED
      BY <2>1, <3>1, <3>2
  <2>5. IndexOf(e, s[j + 1].id) >= j
    BY <2>1
  <2> QED
    BY ONLY <1>0, <1>5, <2>3, <2>4, <2>5
<1>7. Keeps(f, s, j, X)
    BY <1>0, <1>3, <1>6, ReplacingIds, KeepsMore
<1>8. f \in DocumentOf(Ids) /\ IndexOf(f, l.id) = q
    BY <1>0, <1>2, <1>3, SplicedIn
<1>9. f.background = e.background /\ Has(f, newId(1))
    BY <1>0, <1>2, <1>3, PlacesIn
<1> HIDE DEF f, X, q
<1> QED
    BY <1>1, <1>5, <1>7, <1>8, <1>9 DEF X

-----------------------------------------------------------------------------
(* The whole replacement, forth and back.                                  *)

(* The commands in their order, and what each of them leaves. *)
Replacement(k) ==
    IF k <= Len(ghostOps) THEN OpCommand(k)
    ELSE removeLayerCommand(doc, doc.layers[k - Len(ghostOps)].id)

Stage(e, k) ==
    /\ e \in DocumentOf(Ids) /\ e.background = doc.background
    /\ k <= Len(ghostOps) => Keeps(e, doc.layers, 1, Fresh(k))
    /\ k >= Len(ghostOps) =>
          Keeps(e, doc.layers, k - Len(ghostOps) + 1, Fresh(Len(ghostOps)))

LEMMA StageDone ==
    ASSUME Replacing, NEW k \in 1 .. Len(ghostOps) + Len(doc.layers),
           NEW e, Stage(e, k - 1), k # 1 => Has(e, newId(1))
    PROVE  Stage(Apply(e, Replacement(k)), k) /\ Has(Apply(e, Replacement(k)), newId(1))
<1> DEFINE p == Len(ghostOps)
           n == Len(doc.layers)
           f == Apply(e, Replacement(k))
<1>0. p \in Nat /\ n \in Nat /\ k \in Nat /\ k # 0 /\ k <= p + n /\ p # 0
    BY ReplacingIds
<1> HIDE DEF p, n
<1>1. CASE k <= p
  <2>1. Replacement(k) = OpCommand(k) /\ k \in 1 .. p
    BY <1>0, <1>1 DEF Replacement, p
  <2>2. Keeps(e, doc.layers, 1, Fresh(k - 1)) /\ e \in DocumentOf(Ids)
    BY <1>0, <1>1 DEF Stage, p
  <2>3. /\ f \in DocumentOf(Ids) /\ f.background = e.background
        /\ Keeps(f, doc.layers, 1, Fresh(k)) /\ Has(f, newId(1))
    BY <2>1, <2>2, OpDone DEF p
  <2>4. k >= p => k = p /\ k - p + 1 = 1
    BY <1>0, <1>1
  <2> HIDE DEF f
  <2> QED
    BY <2>3, <2>4 DEF Stage, f, p
<1>2. CASE k > p
  <2> DEFINE j == k - p
  <2>1. /\ Replacement(k) = removeLayerCommand(doc, doc.layers[j].id) /\ j \in 1 .. n
        /\ ~(k <= p) /\ k - 1 >= p /\ (k - 1) - p + 1 = j /\ j + 1 = k - p + 1 /\ k # 1
    BY <1>0, <1>2 DEF Replacement, p, n
  <2>2. Keeps(e, doc.layers, j, Fresh(p)) /\ e \in DocumentOf(Ids)
    BY <2>1 DEF Stage, p
  <2> HIDE DEF j
  <2>3. /\ f \in DocumentOf(Ids) /\ f.background = e.background
        /\ Keeps(f, doc.layers, j + 1, Fresh(p)) /\ Has(f, newId(1))
    BY <2>1, <2>2, RemovalDone DEF n
  <2> HIDE DEF f
  <2> QED
    BY <2>1, <2>3 DEF Stage, f, p
<1> QED
    BY <1>0, <1>1, <1>2

(* On the way back: while layers are put back, the first of the proposal's *)
(* is there, and the one put back last is no lower than this.              *)
BackStage(e, k) ==
    /\ Stage(e, k)
    /\ k >= Len(ghostOps) => Has(e, newId(1))
    /\ k >= Len(ghostOps) /\ k < Len(ghostOps) + Len(doc.layers) =>
          IndexOf(e, doc.layers[k - Len(ghostOps) + 1].id) >= k - Len(ghostOps)

LEMMA StageUndone ==
    ASSUME Replacing, Len(doc.layers) <= 3,
           NEW k \in 1 .. Len(ghostOps) + Len(doc.layers), NEW e, BackStage(e, k)
    PROVE  BackStage(Invert(e, Replacement(k)), k - 1)
<1> DEFINE p == Len(ghostOps)
           n == Len(doc.layers)
           f == Invert(e, Replacement(k))
<1>0. p \in Nat /\ n \in Nat /\ k \in Nat /\ k # 0 /\ k <= p + n /\ p # 0
    BY ReplacingIds
<1> HIDE DEF p, n
<1>1. CASE k <= p
  <2>1. Replacement(k) = OpCommand(k) /\ k \in 1 .. p
    BY <1>0, <1>1 DEF Replacement, p
  <2>2. Keeps(e, doc.layers, 1, Fresh(k)) /\ e \in DocumentOf(Ids)
    BY <1>0, <1>1 DEF BackStage, Stage, p
  <2>3. /\ f \in DocumentOf(Ids) /\ f.background = e.background
        /\ Keeps(f, doc.layers, 1, Fresh(k - 1))
    BY <2>1, <2>2, OpUndone DEF p
  <2>4. ~(k - 1 >= p)
    BY <1>0, <1>1
  <2> HIDE DEF f
  <2> QED
    BY <2>3, <2>4 DEF BackStage, Stage, f, p
<1>2. CASE k > p
  <2> DEFINE j == k - p
  <2>1. /\ Replacement(k) = removeLayerCommand(doc, doc.layers[j].id) /\ j \in 1 .. n
        /\ k >= p /\ k - 1 >= p /\ (k - 1) - p + 1 = j /\ k - p + 1 = j + 1
        /\ (k - 1) - p = j - 1 /\ k - p = j
        /\ (j < n => k < p + n)
        /\ (k - 1 <= p => k - 1 = p /\ j = 1)
    BY <1>0, <1>2 DEF Replacement, p, n
  <2>2. /\ Keeps(e, doc.layers, j + 1, Fresh(p)) /\ e \in DocumentOf(Ids)
        /\ Has(e, newId(1)) /\ (j < n => IndexOf(e, doc.layers[j + 1].id) >= j)
    <3> HIDE DEF j
    <3> QED
      BY <2>1 DEF BackStage, Stage, p, n
  <2> HIDE DEF j
  <2>3. /\ f \in DocumentOf(Ids) /\ f.background = e.background
        /\ Keeps(f, doc.layers, j, Fresh(p)) /\ Has(f, newId(1))
        /\ IndexOf(f, doc.layers[j].id) >= j - 1
    BY <2>1, <2>2, RemovalUndone DEF n, p
  <2> HIDE DEF f
  <2>4. Stage(f, k - 1)
    <3>1. f.background = doc.background
      BY <2>3 DEF BackStage, Stage
    <3> QED
      BY <2>1, <2>3, <3>1 DEF Stage, p
  <2> QED
    BY <2>1, <2>3, <2>4 DEF BackStage, f, p, n
<1> QED
    BY <1>0, <1>1, <1>2

LEMMA StageFirst ==
    ASSUME Replacing
    PROVE  Stage(doc, 0)
<1>1. Keeps(doc, doc.layers, 1, Fresh(0))
  <2>1. doc \in DocumentOf(Ids)
    BY ReplacingIds
  <2>2. \A a \in 1 .. Len(doc.layers) :
            /\ Has(doc, doc.layers[a].id) /\ layerById(doc, doc.layers[a].id) = doc.layers[a]
            /\ IndexOf(doc, doc.layers[a].id) = a
    BY <2>1, PlaceOf
  <2>3. ASSUME NEW id, Has(doc, id)
        PROVE  \E a \in 1 .. Len(doc.layers) : id = doc.layers[a].id
    BY <2>3, NoPlace
  <2> QED
    BY <2>2, <2>3 DEF Keeps
<1>2. ~(0 >= Len(ghostOps)) /\ doc \in DocumentOf(Ids)
    BY ReplacingIds
<1> QED
    BY <1>1, <1>2 DEF Stage

LEMMA StageBack ==
    ASSUME Replacing, NEW e, Stage(e, 0)
    PROVE  e = doc
<1>1. Keeps(e, doc.layers, 1, Fresh(0)) /\ e \in DocumentOf(Ids) /\ e.background = doc.background
    BY ReplacingIds DEF Stage
<1>2. Fresh(0) = {}
    BY DEF Fresh
<1>3. e.layers = doc.layers
  <2>1. e \in DocumentOf(Ids) /\ doc \in DocumentOf(Ids) /\ Keeps(e, doc.layers, 1, {})
    BY <1>1, <1>2, ReplacingIds
  <2> QED
    BY ONLY <2>1, KeepsAll
<1>4. With(e, e.layers) = e /\ With(doc, doc.layers) = doc
    BY <1>1, ReplacingIds, DocumentParts
<1> QED
    BY <1>1, <1>3, <1>4 DEF With

(* A drawing of up to three layers, replaced by a proposal that draws only *)
(* into layers of its own, comes back as it was (editor.ts:363), although  *)
(* the removals were not built on the documents they meet.                 *)
THEOREM ReplaceExact ==
    ASSUME Replacing, Len(doc.layers) <= 3, NEW e,
           NEW m \in Nat, m = Len(ghostOps) + Len(doc.layers),
           DOMAIN e.children = 1 .. m, Len(e.children) = m,
           \A k \in 1 .. m : e.children[k] = Replacement(k)
    PROVE  applyAll(doc, e) \in DocumentOf(Ids) /\ Applied(doc, e, applyAll(doc, e))
<1> DEFINE cs == e.children
           back == Reverse(cs)
<1>1. PICK it : Folding("apply", doc, cs, it) /\ FoldLeft(Apply, doc, cs) = it[1 .. m]
    BY ApplyFolds
<1> DEFINE run == [i \in 0 .. m |-> it[1 .. i]]
<1>2. Run("apply", doc, cs, m, run)
    BY <1>1, FoldingRuns
<1>3. run[m] = applyAll(doc, e)
    BY <1>1 DEF applyAll
<1> HIDE DEF run
<1> DEFINE There(i) == Stage(run[i], i) /\ (i # 0 => Has(run[i], newId(1)))
           Bad == {i \in 0 .. m : ~There(i)}
<1>4. Bad = {}
  <2> SUFFICES ASSUME Bad # {} PROVE FALSE
    OBVIOUS
  <2>0. Bad \subseteq Nat
    OBVIOUS
  <2>1. PICK i \in Bad : \A k \in Bad : i <= k
    BY <2>0, LeastNat
  <2>2. i \in 0 .. m /\ ~There(i)
    BY <2>1
  <2>3. i # 0
    BY <1>2, <2>2, StageFirst DEF Run
  <2>4. i \in 1 .. m /\ i - 1 \in 0 .. m /\ (i # 1 => i - 1 # 0)
    BY <2>2, <2>3
  <2>5. There(i - 1)
    BY <2>1, <2>4
  <2>6. run[i] = Apply(run[i - 1], Replacement(i))
    BY <1>2, <2>4 DEF Run, Do
  <2> QED
    BY <2>2, <2>4, <2>5, <2>6, StageDone
<1>5. Stage(run[m], m) /\ Has(run[m], newId(1))
  <2>1. m \in 0 .. m /\ m # 0
    BY ReplacingIds
  <2> QED
    BY <1>4, <2>1
<1>6. BackStage(run[m], m)
    BY <1>5 DEF BackStage
<1> HIDE DEF There
<1>7. DOMAIN back = 1 .. m /\ \A i \in 1 .. m : back[i] = Replacement(m - i + 1)
  <2>1. DOMAIN back = 1 .. m /\ \A i \in 1 .. m : back[i] = cs[m - i + 1]
    BY DEF Reverse
  <2>2. \A i \in 1 .. m : m - i + 1 \in 1 .. m
    OBVIOUS
  <2> QED
    BY <2>1, <2>2
<1> HIDE DEF back
<1>8. PICK ti : /\ Folding("invert", run[m], back, ti)
                /\ FoldLeft(Invert, run[m], back) = ti[1 .. m]
  <2> DEFINE start == run[m]
  <2>1. m \in Nat /\ DOMAIN back = 1 .. m
    BY <1>7
  <2> HIDE DEF start
  <2>2. \E ti : Folding("invert", start, back, ti) /\ FoldLeft(Invert, start, back) = ti[1 .. m]
    BY ONLY <2>1, InvertFolds
  <2> QED
    BY <2>2 DEF start
<1> DEFINE undone == [i \in 0 .. m |-> ti[1 .. i]]
<1>9. Run("invert", run[m], back, m, undone)
    BY <1>7, <1>8, FoldingRuns
<1>10. undone[m] = invertAll(run[m], e)
    BY <1>8 DEF invertAll, back
<1> HIDE DEF undone
<1> DEFINE Off == {i \in 0 .. m : ~BackStage(undone[i], m - i)}
<1>11. Off = {}
  <2> SUFFICES ASSUME Off # {} PROVE FALSE
    OBVIOUS
  <2>0. Off \subseteq Nat
    OBVIOUS
  <2>1. PICK i \in Off : \A k \in Off : i <= k
    BY <2>0, LeastNat
  <2>2. i \in 0 .. m /\ ~BackStage(undone[i], m - i)
    BY <2>1
  <2>3. i # 0
    <3>1. undone[0] = run[m] /\ m - 0 = m
      BY <1>9 DEF Run
    <3> QED
      BY <1>6, <2>2, <3>1
  <2>4. /\ i \in 1 .. m /\ i - 1 \in 0 .. m /\ m - (i - 1) = m - i + 1
        /\ m - i + 1 \in 1 .. m /\ (m - i + 1) - 1 = m - i
    BY <2>2, <2>3
  <2>5. BackStage(undone[i - 1], m - i + 1)
    <3>1. BackStage(undone[i - 1], m - (i - 1))
      BY <2>1, <2>4
    <3> QED
      BY <2>4, <3>1
  <2>6. undone[i] = Invert(undone[i - 1], Replacement(m - i + 1))
    BY <1>7, <1>9, <2>4 DEF Run, Do
  <2> DEFINE k == m - i + 1
  <2>7. k \in 1 .. Len(ghostOps) + Len(doc.layers) /\ k - 1 = m - i
    BY <2>4
  <2>8. BackStage(undone[i - 1], k) /\ undone[i] = Invert(undone[i - 1], Replacement(k))
    BY <2>5, <2>6
  <2> HIDE DEF k
  <2>9. BackStage(undone[i], k - 1)
    BY <2>7, <2>8, StageUndone
  <2> QED
    BY <2>2, <2>7, <2>9
<1>12. undone[m] = doc
  <2>1. m \in 0 .. m /\ m - m = 0
    OBVIOUS
  <2>2. BackStage(undone[m], 0)
    BY <1>11, <2>1
  <2> QED
    BY <2>2, StageBack DEF BackStage
<1> QED
    BY <1>3, <1>5, <1>10, <1>12 DEF Stage, Applied

LEMMA ReplaceCarried ==
    ASSUME NEW at, Remembered(at), acceptOps("replace")
    PROVE  Carried(at)
<1> DEFINE p == Len(ghostOps)
           n == Len(doc.layers)
           m == p + n
           ops == [k \in 1 .. p |-> OpCommand(k)]
           gone == [i \in 1 .. n |-> removeLayerCommand(doc, doc.layers[i].id)]
           cs == ops \o gone
           entry == compositeCommand(cs, made + 1)
<1>1. /\ Proposed(ghostOps) /\ ghostOps # NoOps /\ ~isEmpty /\ n <= MaxReplaced
      /\ n \in Nat /\ doc \in Documents(made)
    BY DocumentHeld DEF acceptOps, Remembered
<1>2. n # 0
  <2>1. DOMAIN doc.layers = 1 .. n
    BY <1>1, DocumentParts DEF Documents
  <2> QED
    BY <1>1, <2>1 DEF isEmpty
<1>3. MaxReplaced <= 3 /\ n <= 3 /\ OwnLayers(ghostOps)
  <2> HIDE DEF n
  <2> QED
    BY <1>1, <1>2 DEF Proposed
<1>4. Replacing
    BY <1>1, <1>3 DEF Replacing, Remembered, Proposed
<1>5. p \in Nat /\ DOMAIN ghostOps = 1 .. p /\ p # 0
    BY <1>4, ReplacingIds, LenProperties DEF Replacing, Ops
<1>6. Removals = gone
    BY <1>1, <1>4, AllRemoved, ReplacingIds DEF Replacing
<1>7. commit(cs)
    BY <1>5, <1>6 DEF acceptOps
<1>8. m \in Nat /\ DOMAIN cs = 1 .. m /\ Len(cs) = m /\ \A k \in 1 .. m : cs[k] = Replacement(k)
  <2> DEFINE S == {OpCommand(k) : k \in 1 .. p}
             \union {removeLayerCommand(doc, doc.layers[i].id) : i \in 1 .. n}
  <2>1. ops \in Seq(S) /\ Len(ops) = p /\ gone \in Seq(S) /\ Len(gone) = n
    BY <1>1, <1>5
  <2>2. /\ \A k \in 1 .. p : ops[k] = OpCommand(k)
        /\ \A i \in 1 .. n : gone[i] = removeLayerCommand(doc, doc.layers[i].id)
    OBVIOUS
  <2> HIDE DEF S, ops, gone, n, p
  <2>3. /\ cs \in Seq(S) /\ Len(cs) = p + n
        /\ \A k \in 1 .. p + n : cs[k] = IF k <= p THEN ops[k] ELSE gone[k - p]
    BY <2>1, ConcatProperties
  <2>4. DOMAIN cs = 1 .. m
    BY <2>3, LenProperties
  <2>5. ASSUME NEW k \in 1 .. m
        PROVE  cs[k] = Replacement(k)
    <3>1. (k <= p => k \in 1 .. p) /\ (~(k <= p) => k - p \in 1 .. n)
      BY <1>1, <1>5
    <3> QED
      BY <2>2, <2>3, <3>1 DEF Replacement, p, n
  <2>6. m \in Nat
    BY <1>1, <1>5
  <2> QED
    BY <2>3, <2>4, <2>5, <2>6
<1>9. entry.children = cs
    BY DEF compositeCommand
<1> HIDE DEF entry, cs
<1>10. applyAll(doc, entry) \in DocumentOf(Ids) /\ Applied(doc, entry, applyAll(doc, entry))
    BY <1>3, <1>4, <1>8, <1>9, ReplaceExact
<1>11. doc' = applyAll(doc, entry)
    BY <1>7 DEF commit, entry
<1>12. doc' \in Documents(made + 1)
    BY <1>10, <1>11 DEF Documents, Ids
<1> QED
    BY <1>7, <1>10, <1>11, <1>12, EntryCarried DEF entry

-----------------------------------------------------------------------------
(* Every edit.                                                             *)

(* What the assistants may propose for a drawing. *)
ProposalsFit == \A d \in DocumentOf(Nat \X Nat) : \A ops \in Proposals(d) : Proposed(ops)

(* A layer and a stroke on it, as the server's assistants answer, fit.     *)
LEMMA OwnLayerFits ==
    ASSUME NEW id \in Nat \X Nat, MaxReplaced \in 0 .. 3
    PROVE  Proposed(<< [kind |-> "add_layer", layer |-> id],
                       [kind |-> "add_stroke", layer |-> id] >>)
<1> DEFINE ops == << [kind |-> "add_layer", layer |-> id],
                     [kind |-> "add_stroke", layer |-> id] >>
<1>1. ops \in Ops
    BY DEF Ops
<1>2. /\ DOMAIN ops = 1 .. 2 /\ ops[1].kind = "add_layer" /\ ops[1].layer = id
      /\ ops[2].layer = id
    OBVIOUS
<1> HIDE DEF ops
<1>3. OwnLayers(ops)
  <2>1. ASSUME NEW k \in 1 .. 2, ops[k].kind = "add_stroke"
        PROVE  \E i \in 1 .. k - 1 : ops[i].kind = "add_layer" /\ ops[i].layer = ops[k].layer
    <3>1. k = 2 /\ 1 \in 1 .. k - 1
      BY <1>2, <2>1
    <3> QED
      BY <1>2, <3>1
  <2> QED
    BY <1>2, <2>1 DEF OwnLayers
<1> QED
    BY <1>1, <1>3 DEF Proposed, ops

LEMMA UndoCarried ==
    ASSUME NEW at, Remembered(at), undo
    PROVE  Carried(at)
<1>1. made \in Nat /\ Told(at, undoStack, redoStack, doc, made) /\ undoStack # <<>>
    BY DEF Remembered, undo
<1>2. /\ Told(at, undoStack', redoStack', doc', made) /\ Applied(doc', Last(redoStack'), doc)
      /\ Len(redoStack') = Len(redoStack) + 1 /\ Len(undoStack') = Len(undoStack) - 1
      /\ made' = made
    BY <1>1, ToldUndo DEF undo
<1>3. Exact
    BY <1>1, <1>2, StacksLong DEF Exact, Applied
<1> QED
    BY <1>1, <1>2, <1>3 DEF Carried

LEMMA RedoCarried ==
    ASSUME NEW at, Remembered(at), redo
    PROVE  Carried(at)
<1>1. made \in Nat /\ Told(at, undoStack, redoStack, doc, made) /\ redoStack # <<>>
    BY DEF Remembered, redo
<1>2. /\ Told(at, undoStack', redoStack', doc', made) /\ Applied(doc, Last(undoStack'), doc')
      /\ Len(undoStack') = Len(undoStack) + 1 /\ Len(redoStack') = Len(redoStack) - 1
      /\ made' = made
    BY <1>1, ToldRedo DEF redo
<1>3. Exact
    BY <1>1, <1>2, StacksLong DEF Exact, Applied
<1> QED
    BY <1>1, <1>2, <1>3 DEF Carried

LEMMA EditCarried ==
    ASSUME NEW at, Remembered(at), ProposalsFit, Edit
    PROVE  Carried(at) /\ (ghostOps' = NoOps \/ Proposed(ghostOps'))
<1>1. doc \in Documents(made) /\ Len(doc.layers) \in Nat
    BY DocumentHeld
<1>2. ghostOps = NoOps \/ Proposed(ghostOps)
    BY DEF Remembered
<1>3. CASE finishGesture
  <2> DEFINE c == addStrokeCommand(activeLayerId, newId(1))
  <2>1. commit(<<c>>) /\ UNCHANGED ghostOps
    BY <1>3 DEF finishGesture
  <2>2. c = addStrokeCommand(c.id, newId(1))
    BY DEF addStrokeCommand
  <2> HIDE DEF c
  <2> QED
    BY <1>2, <2>1, <2>2, OneCarried DEF Fits, Proposed, OwnLayers
<1>4. CASE addLayer
  <2>1. /\ commit(<<addLayerCommand(NewLayer(newId(1)), Len(doc.layers))>>)
        /\ UNCHANGED ghostOps
    BY <1>4 DEF addLayer
  <2>2. Fits(addLayerCommand(NewLayer(newId(1)), Len(doc.layers)), doc, newId(1))
    BY <1>1 DEF Fits
  <2> QED
    BY <1>2, <2>1, <2>2, OneCarried DEF Proposed, OwnLayers
<1>5. ASSUME NEW id \in Layers, setActiveLayer(id)
      PROVE  Carried(at) /\ UNCHANGED ghostOps
    BY <1>5, StacksKept DEF setActiveLayer
<1>6. ASSUME NEW id \in Layers, removeLayer(id)
      PROVE  Carried(at) /\ UNCHANGED ghostOps
  <2>1. commit(<<removeLayerCommand(doc, id)>>) /\ UNCHANGED ghostOps
    BY <1>6 DEF removeLayer
  <2>2. Fits(removeLayerCommand(doc, id), doc, newId(1))
    BY LayersLie DEF Fits
  <2> QED
    BY <2>1, <2>2, OneCarried
<1>7. ASSUME NEW id \in Layers, NEW to \in 0 .. maxLayers - 1, moveLayer(id, to)
      PROVE  Carried(at) /\ UNCHANGED ghostOps
  <2>1. commit(<<moveLayerCommand(doc, id, to)>>) /\ UNCHANGED ghostOps
    BY <1>7 DEF moveLayer
  <2>2. Fits(moveLayerCommand(doc, id, to), doc, newId(1))
    <3>1. to \in Nat
      BY <1>1, <1>7 DEF moveLayer
    <3> QED
      BY <3>1, LayersLie DEF Fits
  <2> QED
    BY <2>1, <2>2, OneCarried
<1>8. ASSUME NEW id \in Layers, NEW look \in Look, setLook(id, look)
      PROVE  Carried(at) /\ UNCHANGED ghostOps
  <2>1. commit(<<setLookCommand(doc, id, look)>>) /\ UNCHANGED ghostOps
    BY <1>8 DEF setLook
  <2>2. Fits(setLookCommand(doc, id, look), doc, newId(1))
    BY LayersLie DEF Fits
  <2> QED
    BY <2>1, <2>2, OneCarried
<1>9. ASSUME NEW paper \in Paper, setBackground(paper)
      PROVE  Carried(at) /\ UNCHANGED ghostOps
  <2>1. commit(<<setBackgroundCommand(doc, paper)>>) /\ UNCHANGED ghostOps
    BY <1>9 DEF setBackground
  <2>2. Fits(setBackgroundCommand(doc, paper), doc, newId(1))
    BY DEF Fits
  <2> QED
    BY <2>1, <2>2, OneCarried
<1>10. ASSUME NEW ops \in Proposals(doc), previewOps(ops)
       PROVE  Carried(at) /\ ghostOps' = ops /\ Proposed(ops)
  <2>1. doc \in DocumentOf(Nat \X Nat)
    <3>1. Older(made + 1, 1) \subseteq Nat \X Nat
      BY DEF Older
    <3> QED
      BY <1>1, <3>1, MoreIds DEF Documents
  <2>2. Proposed(ops)
    BY <2>1 DEF ProposalsFit
  <2> QED
    BY <1>10, <2>2, StacksKept DEF previewOps
<1>11. CASE rejectOps
    BY <1>11, StacksKept DEF rejectOps
<1>12. ASSUME NEW mode \in {"add", "replace"}, acceptOps(mode)
       PROVE  Carried(at) /\ ghostOps' = NoOps
  <2>1. ghostOps' = NoOps
    BY <1>12 DEF acceptOps
  <2> QED
    BY <1>12, <2>1, AddCarried, ReplaceCarried
<1>13. CASE undo
  <2>1. UNCHANGED ghostOps
    BY <1>13 DEF undo
  <2> QED
    BY <1>2, <1>13, <2>1, UndoCarried DEF Proposed, OwnLayers
<1>14. CASE redo
  <2>1. UNCHANGED ghostOps
    BY <1>14 DEF redo
  <2> QED
    BY <1>2, <1>14, <2>1, RedoCarried DEF Proposed, OwnLayers
<1>15. UNCHANGED ghostOps => ghostOps' = NoOps \/ Proposed(ghostOps')
    BY <1>2
<1> QED
    BY <1>3, <1>4, <1>5, <1>6, <1>7, <1>8, <1>9, <1>10, <1>11, <1>12, <1>13, <1>14, <1>15
    DEF Edit

(* A document that is not of this history: a new one, or one loaded. *)
LEMMA LoadTold ==
    ASSUME NEW n \in Nat, NEW m \in Nat, n <= m, NEW at \in [Nat -> Documents(n)],
           NEW new \in Documents(m), loadDocument(new)
    PROVE  /\ Told([at EXCEPT ![0] = new], undoStack', redoStack', doc', m)
           /\ Len(undoStack') = 0 /\ Len(redoStack') = 0
<1>1. at \in [Nat -> Documents(m)]
    BY DocumentsGrow
<1>2. [at EXCEPT ![0] = new] \in [Nat -> Documents(m)] /\ [at EXCEPT ![0] = new][0] = new
    BY <1>1
<1>3. Told([at EXCEPT ![0] = new], <<>>, <<>>, new, m)
    BY <1>2, ToldFresh
<1> QED
    BY <1>3, EmptySeq DEF loadDocument

LEMMA BlankDocument ==
    ASSUME NEW n \in Nat, NEW paper \in Paper
    PROVE  blankDocument(paper, n) \in Documents(n)
<1> DEFINE l == NewLayer(<<n, 1>>)
           s == <<l>>
<1>1. l \in LayerOf(Older(n + 1, 1))
  <2>1. <<n, 1>> \in Older(n + 1, 1)
    BY DEF Older
  <2> QED
    BY <2>1, EmptySeq DEF NewLayer, LayerOf
<1> HIDE DEF l
<1>2. s \in Seq(LayerOf(Older(n + 1, 1))) /\ DOMAIN s = 1 .. 1
    BY <1>1
<1>3. \A i, j \in DOMAIN s : s[i].id = s[j].id => i = j
    BY <1>2
<1> HIDE DEF s
<1>4. blankDocument(paper, n) = [background |-> paper, layers |-> s]
    BY DEF blankDocument, s, l
<1> QED
    BY <1>2, <1>3, <1>4 DEF Documents, DocumentOf

LEMMA NewTold ==
    ASSUME NEW at, Remembered(at), NewDocument
    PROVE  /\ \E new : Told([at EXCEPT ![0] = new], undoStack', redoStack', doc', made')
           /\ made' = made + 1 /\ made \in Nat /\ Exact /\ ghostOps' = NoOps
<1>1. /\ made \in Nat /\ made + 1 \in Nat /\ made <= made + 1 /\ made' = made + 1
      /\ at \in [Nat -> Documents(made)]
    BY DEF Remembered, Told, NewDocument
<1>2. PICK paper \in Paper : loadDocument(blankDocument(paper, made + 1))
    BY DEF NewDocument
<1>3. blankDocument(paper, made + 1) \in Documents(made + 1)
    BY <1>1, BlankDocument
<1>4. /\ Told([at EXCEPT ![0] = blankDocument(paper, made + 1)],
              undoStack', redoStack', doc', made + 1)
      /\ Len(undoStack') = 0 /\ Len(redoStack') = 0
    BY <1>1, <1>2, <1>3, LoadTold
<1>5. Exact
    BY <1>4, StacksLong DEF Exact, Remembered
<1> QED
    BY <1>1, <1>2, <1>4, <1>5 DEF loadDocument

(* There is a document for every mark. *)
EditorInv == \E at : Remembered(at)

LEMMA EditorStarts ==
    ASSUME EditorInit
    PROVE  EditorInv
<1>1. PICK paper \in Paper : doc = blankDocument(paper, 0)
    BY DEF EditorInit
<1> DEFINE at == [k \in Nat |-> doc]
<1>2. doc \in Documents(0)
    BY <1>1, BlankDocument
<1>3. Told(at, <<>>, <<>>, at[0], 0)
    BY <1>2, ToldFresh
<1>4. Remembered(at)
    BY <1>3 DEF EditorInit, Remembered
<1> QED
    BY <1>4 DEF EditorInv

LEMMA EditorSteps ==
    ASSUME ProposalsFit, EditorInv, [EditorNext]_editor
    PROVE  EditorInv' /\ (EditorNext => Exact)
<1> PICK at : Remembered(at)
    BY DEF EditorInv
<1>1. CASE Edit
  <2>1. Carried(at) /\ (ghostOps' = NoOps \/ Proposed(ghostOps'))
    BY <1>1, EditCarried
  <2>2. PICK b : Told(b, undoStack', redoStack', doc', made')
    BY <2>1 DEF Carried
  <2>3. Remembered(b)'
    BY <2>1, <2>2 DEF Carried, Remembered
  <2> QED
    BY <2>1, <2>3 DEF EditorInv, Carried
<1>2. CASE NewDocument
  <2>1. PICK new : Told([at EXCEPT ![0] = new], undoStack', redoStack', doc', made')
    BY <1>2, NewTold
  <2>2. made' \in Nat /\ Exact /\ ghostOps' = NoOps
    BY <1>2, NewTold
  <2> QED
    BY <2>1, <2>2 DEF EditorInv, Remembered
<1>3. CASE UNCHANGED editor
  <2>1. UNCHANGED <<doc, undoStack, redoStack, made, ghostOps>>
    BY <1>3 DEF editor
  <2>2. Remembered(at)'
    BY <2>1 DEF Remembered
  <2>3. Exact
    BY <2>1, StacksLong DEF Exact, Remembered
  <2> QED
    BY <2>2, <2>3 DEF EditorInv
<1> QED
    BY <1>1, <1>2, <1>3 DEF EditorNext

(* "Commands are exact inverses" (history.ts:201), in the editor: after    *)
(* any edits, batches of the assistants, replacements of drawings of up to *)
(* three layers, and new documents.                                        *)
THEOREM UndoIsExact ==
    ASSUME ProposalsFit
    PROVE  EditorSpec => ExactInverses
<1>1. EditorInit => EditorInv
    BY EditorStarts
<1>2. EditorInv /\ [EditorNext]_editor => EditorInv'
    BY EditorSteps
<1>3. EditorInv /\ [EditorNext]_editor =>
      [ LET done == Last(undoStack')  undone == Last(redoStack')
        IN  /\ Len(undoStack') = Len(undoStack) + 1 => invertAll(doc', done) = doc
            /\ Len(redoStack') = Len(redoStack) + 1 => applyAll(doc', undone) = doc ]_editor
    BY EditorSteps DEF Exact
<1> QED
    BY <1>1, <1>2, <1>3, PTL DEF EditorSpec, ExactInverses

-----------------------------------------------------------------------------
(* The drawing file.                                                       *)

Account == User \union {NoUser}

RowId == DrawingId \union {0}

Empty(d) == \A i \in DOMAIN d.layers : d.layers[i].strokes = <<>>

(* The row of id holds d, or what is known of it is out of date: its last  *)
(* save went unheard, or the reply of a later one is on its way.           *)
Matched(id, owner, d) ==
    \/ Empty(d)
    \/ rows[id] = [owner |-> owner, doc |-> d]
    \/ id \in unheard
    \/ \E r \in requests : r.kind = "save" /\ r.id = id /\ ~r.stale /\ r.reply = "ok"

Requests(n) ==
    [kind : {"save", "open"}, id : RowId, as : Account, doc : Documents(n), mark : 0 .. n,
     stale : BOOLEAN, reply : {"none", "ok", "failed", "expired"}]

Row(n) == [owner : Account, doc : Documents(n)]

(* A request under way: what it was sent with is what its mark stands for, *)
(* and the row of one that was answered is as the answer says, unless a    *)
(* save of a page that was left was written since.                         *)
Sent(at, r) ==
    /\ r \in Requests(made)
    /\ r.kind = "open" => r.id \in DrawingId
    /\ r.reply = "ok" =>
          r.id \in DrawingId /\ (rows[r.id] = [owner |-> r.as, doc |-> r.doc] \/ r.id \in unheard)
    /\ r.kind = "save" /\ ~r.stale => at[r.mark] = r.doc \/ Empty(at[r.mark])
    /\ r.kind = "open" \/ r.stale => saved.id = 0

(* One thing at a time: a request, a name being asked for, or an action    *)
(* that waits for a session; a canvas about to be opened over is unbound.  *)
OneAtATime ==
    /\ \A q, r \in requests : q = r
    /\ gate \in [for : {"nothing", "save", "open", "again"}, id : RowId]
    /\ nameOpen \in BOOLEAN
    /\ gate.for \in {"save", "open"} => requests = {} /\ ~nameOpen
    /\ nameOpen => requests = {} /\ gate = Nothing
    /\ gate.for = "open" => saved.id = 0 /\ gate.id \in DrawingId

Filed(at) ==
    /\ user \in Account
    /\ rows \in [DrawingId -> Row(made) \union {NoRow}]
    /\ saved \in [id : RowId, owner : Account] /\ savedMark \in 0 .. made
    /\ saved.id # 0 => Matched(saved.id, saved.owner, at[savedMark])
    /\ \A r \in requests : Sent(at, r)
    /\ left \subseteq Requests(made)
    /\ OneAtATime

FileInv == \E at : Remembered(at) /\ Filed(at)

(* The canvas as it is now may be sent, and its mark stands for it. *)
LEMMA MarkHeld ==
    ASSUME NEW at, Remembered(at)
    PROVE  mark \in 0 .. made /\ at[mark] = doc /\ doc \in Documents(made) /\ made \in Nat
<1>1. mark = TokenAt(undoStack, Len(undoStack))
  <2>1. PICK S : undoStack \in Seq(S)
    BY DEF Remembered, Told
  <2>2. CASE undoStack = <<>>
    BY <2>2, EmptySeq DEF mark, TokenAt
  <2>3. CASE undoStack # <<>>
    BY <2>1, <2>3, AllButLast DEF mark, TokenAt
  <2> QED
    BY <2>2, <2>3
<1> QED
    BY <1>1, DocumentHeld DEF Remembered

(* What the property asks follows. *)
LEMMA FiledIsSaved ==
    ASSUME NEW at, Remembered(at), Filed(at)
    PROVE  CleanIsSaved
<1> SUFFICES ASSUME ~dirty, ~isEmpty
             PROVE  \/ rows[savedId] = [owner |-> user, doc |-> doc]
                    \/ savedId \in unheard
                    \/ \E r \in requests : r.kind = "save" /\ r.id = savedId /\ ~r.stale
    BY DEF CleanIsSaved
<1>1. savedId # 0 /\ mark = savedMark
    BY DEF dirty
<1>2. saved.owner = user /\ savedId = saved.id
    BY <1>1 DEF savedId
<1>3. at[savedMark] = doc
    BY <1>1, MarkHeld
<1>4. ~Empty(doc)
    BY DEF Empty, isEmpty
<1>5. Matched(saved.id, user, doc)
    BY <1>1, <1>2, <1>3 DEF Filed
<1> QED
    BY <1>2, <1>4, <1>5 DEF Matched

LEMMA FileStarts ==
    ASSUME Init
    PROVE  FileInv
<1>1. PICK at : Remembered(at)
    BY EditorStarts DEF Init, EditorInv
<1>2. made = 0
    BY DEF Init, EditorInit
<1>3. user \in Account /\ rows \in [DrawingId -> Row(made) \union {NoRow}]
    BY DEF Init, Account
<1>4. /\ saved \in [id : RowId, owner : Account] /\ saved.id = 0
      /\ savedMark \in 0 .. made /\ requests = {} /\ left = {}
    BY <1>2 DEF Init, NotSaved, Account, RowId
<1>5. OneAtATime
    BY DEF Init, OneAtATime, Nothing, RowId
<1>6. Filed(at)
    BY <1>3, <1>4, <1>5 DEF Filed
<1> QED
    BY <1>1, <1>6 DEF FileInv

(* Drawing on keeps what the marks stand for. *)
LEMMA DrawFiled ==
    ASSUME NEW at, Remembered(at), Filed(at), ProposalsFit, Draw
    PROVE  FileInv'
<1>1. Carried(at) /\ (ghostOps' = NoOps \/ Proposed(ghostOps'))
    BY EditCarried DEF Draw
<1>2. PICK b : /\ Told(b, undoStack', redoStack', doc', made')
               /\ \A k \in 0 .. made : b[k] = at[k]
    BY <1>1 DEF Carried
<1>3. made \in Nat /\ made' \in Nat /\ made <= made'
    BY <1>1 DEF Carried, Remembered
<1>4. Documents(made) \subseteq Documents(made') /\ 0 .. made \subseteq 0 .. made'
    BY <1>3, DocumentsGrow
<1>5. Remembered(b)'
    BY <1>1, <1>2, <1>3 DEF Remembered
<1>6. UNCHANGED <<rows, user, saved, savedMark, gate, nameOpen, requests, left, failures, unheard>>
    BY DEF Draw, file, mishaps
<1>7. Requests(made) \subseteq Requests(made') /\ Row(made) \subseteq Row(made')
    BY <1>4 DEF Requests, Row
<1>8. \A r \in requests : Sent(b, r)'
  <2>1. SUFFICES ASSUME NEW r \in requests
                 PROVE  Sent(b, r)'
    BY <1>6
  <2>2. Sent(at, r) /\ r.mark \in 0 .. made
    BY DEF Filed, Sent, Requests
  <2>3. b[r.mark] = at[r.mark] /\ r \in Requests(made')
    BY <1>2, <1>7, <2>2 DEF Sent
  <2> QED
    BY <1>6, <2>2, <2>3 DEF Sent, Empty
<1>9. rows' \in [DrawingId -> Row(made') \union {NoRow}]
    BY <1>6, <1>7 DEF Filed
<1>10. savedMark \in 0 .. made /\ savedMark' \in 0 .. made' /\ b[savedMark] = at[savedMark]
    BY <1>2, <1>4, <1>6 DEF Filed
<1>11. saved'.id # 0 => Matched(saved.id, saved.owner, b[savedMark])'
    BY <1>6, <1>10 DEF Filed, Matched, Empty
<1>12. OneAtATime'
    BY <1>6 DEF Filed, OneAtATime, Nothing
<1>13. left' \subseteq Requests(made')
    BY <1>6, <1>7 DEF Filed
<1>14. Filed(b)'
    BY <1>6, <1>8, <1>9, <1>10, <1>11, <1>12, <1>13 DEF Filed
<1> QED
    BY <1>5, <1>14 DEF FileInv

(* Steps that leave the canvas as it is. *)
LEMMA CanvasKept ==
    ASSUME NEW at, Remembered(at), UNCHANGED editor
    PROVE  Remembered(at)' /\ made' = made
<1>1. UNCHANGED <<doc, undoStack, redoStack, made, ghostOps>>
    BY DEF editor
<1> QED
    BY <1>1 DEF Remembered

(* A request is sent with the canvas, from the account that is signed in. *)
LEMMA SendFiled ==
    ASSUME NEW at, Remembered(at), Filed(at),
           UNCHANGED <<editor, rows, user, saved, savedMark, left, mishaps>>,
           NEW kind \in {"save", "open"}, NEW id \in RowId,
           kind = "open" => id \in DrawingId /\ saved.id = 0,
           requests = {}, Send(kind, id), gate' = Nothing, nameOpen' = FALSE
    PROVE  Filed(at)'
<1>1. PICK r : /\ requests' = {r}
               /\ r = [kind |-> kind, id |-> id, as |-> user, doc |-> doc, mark |-> mark,
                       stale |-> FALSE, reply |-> "none"]
    BY DEF Send
<1>2. r \in Requests(made) /\ at[r.mark] = r.doc
    BY <1>1, MarkHeld DEF Requests, Filed
<1>3. UNCHANGED <<rows, user, saved, savedMark, left, made, unheard>>
    BY DEF mishaps, editor
<1>4. Sent(at, r)'
    BY <1>1, <1>2, <1>3 DEF Sent
<1>5. Matched(saved.id, saved.owner, at[savedMark]) =>
          Matched(saved.id, saved.owner, at[savedMark])'
    BY <1>3 DEF Matched, Empty
<1>6. OneAtATime'
    BY <1>1 DEF OneAtATime, Nothing, RowId
<1>7. \A q \in requests' : Sent(at, q)'
    BY <1>1, <1>4
<1> QED
    BY <1>3, <1>5, <1>6, <1>7 DEF Filed

LEMMA saveFiled ==
    ASSUME NEW at, Filed(at), save
    PROVE  Filed(at)'
<1>1. UNCHANGED <<rows, user, saved, savedMark, made, unheard, requests, left, nameOpen>>
    BY DEF save, mishaps, editor
<1>2. OneAtATime'
    BY <1>1 DEF save, busy, Filed, OneAtATime, RowId, Nothing
<1>3. \A r \in requests : Sent(at, r)'
    BY <1>1 DEF Filed, Sent, Empty
<1>4. Matched(saved.id, saved.owner, at[savedMark]) =>
          Matched(saved.id, saved.owner, at[savedMark])'
    BY <1>1 DEF Matched, Empty
<1> QED
    BY <1>1, <1>2, <1>3, <1>4 DEF Filed

(* Steps that only close a dialog, or change who is signed in. *)
LEMMA RestFiled ==
    ASSUME NEW at, Filed(at),
           UNCHANGED <<editor, rows, saved, savedMark, requests, left, mishaps>>,
           user' \in Account, OneAtATime'
    PROVE  Filed(at)'
<1>1. UNCHANGED <<rows, saved, savedMark, made, unheard, requests, left>>
    BY DEF mishaps, editor
<1>2. \A r \in requests : Sent(at, r)'
    BY <1>1 DEF Filed, Sent, Empty
<1>3. Matched(saved.id, saved.owner, at[savedMark]) =>
          Matched(saved.id, saved.owner, at[savedMark])'
    BY <1>1 DEF Matched, Empty
<1> QED
    BY <1>1, <1>2, <1>3 DEF Filed

LEMMA AdmittedFiled ==
    ASSUME NEW at, Remembered(at), Filed(at), Admitted
    PROVE  Filed(at)'
<1>1. /\ gate # Nothing /\ gate' = Nothing
      /\ UNCHANGED <<editor, rows, user, saved, savedMark, left, mishaps>>
    BY DEF Admitted
<1>2. OneAtATime /\ saved.id \in RowId /\ savedId \in RowId /\ user \in Account
    BY DEF Filed, savedId, RowId
<1>3. ~nameOpen /\ nameOpen \in BOOLEAN
    BY <1>1, <1>2 DEF OneAtATime
<1>4. CASE gate.for = "save" /\ savedId # 0
  <2>1. write /\ UNCHANGED nameOpen
    BY <1>4 DEF Admitted
  <2>2. requests = {}
    BY <1>2, <1>4 DEF OneAtATime
  <2> QED
    BY <1>1, <1>2, <1>3, <2>1, <2>2, SendFiled DEF write
<1>5. CASE gate.for = "save" /\ savedId = 0
  <2>1. nameOpen' = TRUE /\ UNCHANGED requests
    BY <1>5 DEF Admitted
  <2>2. requests = {}
    BY <1>2, <1>5 DEF OneAtATime
  <2>3. OneAtATime'
    BY <1>1, <2>1, <2>2 DEF OneAtATime, Nothing, RowId
  <2> QED
    BY <1>1, <1>2, <2>1, <2>3, RestFiled
<1>6. CASE gate.for = "open"
  <2>1. Send("open", gate.id) /\ UNCHANGED nameOpen
    BY <1>6 DEF Admitted
  <2>2. requests = {} /\ gate.id \in DrawingId /\ saved.id = 0
    BY <1>2, <1>6 DEF OneAtATime
  <2> QED
    BY <1>1, <1>2, <1>3, <2>1, <2>2, SendFiled DEF RowId
<1>7. CASE gate.for \notin {"save", "open"}
  <2>1. UNCHANGED <<requests, nameOpen>>
    BY <1>7 DEF Admitted
  <2>2. OneAtATime'
    BY <1>1, <1>2, <1>3, <2>1 DEF OneAtATime, Nothing, RowId
  <2> QED
    BY <1>1, <1>2, <2>1, <2>2, RestFiled
<1> QED
    BY <1>4, <1>5, <1>6, <1>7

LEMMA confirmNameFiled ==
    ASSUME NEW at, Remembered(at), Filed(at), confirmName
    PROVE  Filed(at)'
<1>1. /\ nameOpen /\ nameOpen' = FALSE /\ write
      /\ UNCHANGED <<editor, rows, user, saved, savedMark, left, mishaps, gate>>
    BY DEF confirmName
<1>2. requests = {} /\ gate = Nothing /\ savedId \in RowId
    BY <1>1 DEF Filed, OneAtATime, savedId, RowId
<1> QED
    BY <1>1, <1>2, SendFiled DEF write

LEMMA DialogFiled ==
    ASSUME NEW at, Filed(at), Dismissed \/ cancelName \/ \E u \in User : SignIn(u)
    PROVE  Filed(at)'
<1>1. OneAtATime /\ user \in Account
    BY DEF Filed
<1>2. CASE Dismissed
  <2>1. OneAtATime'
    BY <1>1, <1>2 DEF Dismissed, OneAtATime, Nothing, RowId
  <2> QED
    BY <1>1, <1>2, <2>1, RestFiled DEF Dismissed
<1>3. CASE cancelName
  <2>1. OneAtATime'
    BY <1>1, <1>3 DEF cancelName, OneAtATime, Nothing, RowId
  <2> QED
    BY <1>1, <1>3, <2>1, RestFiled DEF cancelName
<1>4. ASSUME NEW u \in User, SignIn(u)
      PROVE  Filed(at)'
  <2>1. OneAtATime' /\ user' \in Account
    BY <1>1, <1>4 DEF SignIn, OneAtATime, file, Nothing, RowId, Account
  <2> QED
    BY <1>4, <2>1, RestFiled DEF SignIn, file
<1> QED
    BY <1>2, <1>3, <1>4

LEMMA Alone ==
    ASSUME NEW at, Filed(at), NEW r \in requests
    PROVE  /\ requests = {r} /\ ~nameOpen /\ gate.for \notin {"save", "open"}
           /\ Sent(at, r) /\ r \in Requests(made)
BY DEF Filed, OneAtATime, Sent

(* The server's step on the one request. *)
LEMMA AnsweredFiled ==
    ASSUME NEW at, Filed(at), NEW r \in requests, UNCHANGED <<editor, user, file, left>>,
           NEW reply, NEW id, NEW content, Reply(r, reply, id, content),
           rows' \in [DrawingId -> Row(made) \union {NoRow}],
           \A q : q = [r EXCEPT !.reply = reply, !.id = id, !.doc = content] =>
              /\ requests' = {q} /\ saved.id # 0 =>
                    Matched(saved.id, saved.owner, at[savedMark])'
              /\ Sent(at, q)'
    PROVE  Filed(at)'
<1>1. requests = {r} /\ ~nameOpen /\ gate.for \notin {"save", "open"}
    BY Alone
<1>2. PICK q : q = [r EXCEPT !.reply = reply, !.id = id, !.doc = content]
    OBVIOUS
<1>3. requests' = {q}
    BY <1>1, <1>2 DEF Reply
<1>4. UNCHANGED <<made, user, saved, savedMark, gate, nameOpen, left>>
    BY DEF editor, file
<1>5. OneAtATime'
    BY <1>1, <1>3, <1>4 DEF Filed, OneAtATime, Nothing, RowId
<1>6. saved'.id # 0 => Matched(saved.id, saved.owner, at[savedMark])'
    BY <1>2, <1>3, <1>4
<1>7. \A s \in requests' : Sent(at, s)'
    BY <1>2, <1>3
<1> QED
    BY <1>4, <1>5, <1>6, <1>7 DEF Filed

(* A request that fails; a save whose reply is lost has gone unheard. *)
LEMMA FailedFiled ==
    ASSUME NEW at, Filed(at), NEW r \in requests, UNCHANGED <<editor, user, file, left, rows>>,
           NEW reply \in {"failed", "expired"}, Reply(r, reply, r.id, r.doc),
           unheard \subseteq unheard', r.kind = "save" /\ r.reply = "ok" => r.id \in unheard'
    PROVE  Filed(at)'
<1>1. UNCHANGED <<saved, savedMark, made>>
    BY DEF editor, file
<1>2. requests = {r} /\ Sent(at, r) /\ r \in Requests(made)
    BY Alone
<1>3. rows' \in [DrawingId -> Row(made) \union {NoRow}]
    BY DEF Filed
<1>4. ASSUME NEW q, q = [r EXCEPT !.reply = reply, !.id = r.id, !.doc = r.doc]
      PROVE  /\ requests' = {q} /\ saved.id # 0 =>
                   Matched(saved.id, saved.owner, at[savedMark])'
             /\ Sent(at, q)'
  <2>1. /\ q \in Requests(made) /\ q.kind = r.kind /\ q.reply = reply /\ q.id = r.id
        /\ q.doc = r.doc /\ q.mark = r.mark /\ q.stale = r.stale
    BY <1>2, <1>4 DEF Requests
  <2>2. Sent(at, q)'
    BY <1>1, <1>2, <2>1 DEF Sent, Empty
  <2>3. ASSUME saved.id # 0
        PROVE  Matched(saved.id, saved.owner, at[savedMark])'
    <3>1. Matched(saved.id, saved.owner, at[savedMark])
      BY <2>3 DEF Filed
    <3>2. (\E s \in requests : s.kind = "save" /\ s.id = saved.id /\ s.reply = "ok")
            => saved.id \in unheard'
      BY <1>2
    <3> QED
      BY <1>1, <3>1, <3>2 DEF Matched, Empty
  <2> QED
    BY <2>2, <2>3
<1> QED
    BY <1>1, <1>3, <1>4, AnsweredFiled

LEMMA ServeSaveFiled ==
    ASSUME NEW at, Remembered(at), Filed(at), NEW r \in requests, ServeSave(r)
    PROVE  Filed(at)'
<1>1. /\ r.kind = "save" /\ r.reply = "none" /\ r.as # NoUser
      /\ UNCHANGED <<editor, user, file, left>> /\ UNCHANGED <<saved, savedMark, made>>
    BY DEF ServeSave, editor, file
<1>2. requests = {r} /\ Sent(at, r) /\ r \in Requests(made)
    BY Alone
<1>3. /\ r.as \in Account /\ r.doc \in Documents(made) /\ r.id \in RowId
      /\ r.stale \in BOOLEAN /\ (r.stale => saved.id = 0)
      /\ (~r.stale => at[r.mark] = r.doc \/ Empty(at[r.mark]))
      /\ rows \in [DrawingId -> Row(made) \union {NoRow}]
      /\ saved.id \in RowId
    BY <1>1, <1>2 DEF Sent, Requests, Filed
<1>4. ASSUME NEW id \in DrawingId, rows' = [rows EXCEPT ![id] = [owner |-> r.as, doc |-> r.doc]],
             Reply(r, "ok", id, r.doc), unheard' = unheard \ {id}
      PROVE  Filed(at)'
  <2>1. rows' \in [DrawingId -> Row(made) \union {NoRow}]
    BY <1>3, <1>4 DEF Row
  <2>2. ASSUME NEW q, q = [r EXCEPT !.reply = "ok", !.id = id, !.doc = r.doc]
        PROVE  /\ requests' = {q} /\ saved.id # 0 =>
                     Matched(saved.id, saved.owner, at[savedMark])'
               /\ Sent(at, q)'
    <3>1. /\ q \in Requests(made) /\ q.kind = "save" /\ q.id = id /\ q.reply = "ok"
          /\ q.doc = r.doc /\ q.as = r.as /\ q.mark = r.mark /\ q.stale = r.stale
      BY <1>1, <1>2, <1>3, <2>2 DEF Requests, RowId
    <3>2. rows'[id] = [owner |-> r.as, doc |-> r.doc]
      BY <1>3, <1>4
    <3>3. Sent(at, q)'
      BY <1>1, <1>3, <3>1, <3>2 DEF Sent, Empty
    <3>4. ASSUME requests' = {q}, saved.id # 0
          PROVE  Matched(saved.id, saved.owner, at[savedMark])'
      <4>1. CASE saved.id = id
        <5>1. ~q.stale
          BY <1>3, <3>1, <3>4
        <5> QED
          BY <1>1, <3>1, <3>4, <4>1, <5>1 DEF Matched
      <4>2. CASE saved.id # id
        <5>1. rows'[saved.id] = rows[saved.id]
          BY <1>3, <1>4, <3>4, <4>2 DEF RowId
        <5>2. Matched(saved.id, saved.owner, at[savedMark])
          BY <3>4 DEF Filed
        <5>3. saved.id \in unheard => saved.id \in unheard'
          BY <1>4, <4>2
        <5>4. ~ \E s \in requests : s.reply = "ok"
          BY <1>1, <1>2
        <5> QED
          BY <1>1, <5>1, <5>2, <5>3, <5>4 DEF Matched, Empty
      <4> QED
        BY <4>1, <4>2
    <3> QED
      BY <3>3, <3>4
  <2> QED
    BY <1>1, <1>4, <2>1, <2>2, AnsweredFiled
<1>5. ASSUME NEW id \in DrawingId, Stored(r, id), Reply(r, "ok", id, r.doc),
             unheard' = unheard \ {id}
      PROVE  Filed(at)'
    BY <1>4, <1>5 DEF Stored
<1>6. ASSUME Reply(r, "failed", r.id, r.doc), UNCHANGED <<rows, unheard>>
      PROVE  Filed(at)'
    BY <1>1, <1>6, FailedFiled
<1> QED
    BY <1>5, <1>6 DEF ServeSave

LEMMA ServeOpenFiled ==
    ASSUME NEW at, Remembered(at), Filed(at), NEW r \in requests, ServeOpen(r)
    PROVE  Filed(at)'
<1>1. /\ r.kind = "open" /\ r.reply = "none" /\ r.as # NoUser
      /\ UNCHANGED <<editor, user, file, left>> /\ UNCHANGED <<saved, savedMark, made, rows>>
    BY DEF ServeOpen, editor, file
<1>2. requests = {r} /\ Sent(at, r) /\ r \in Requests(made)
    BY Alone
<1>3. /\ r.as \in Account /\ r.doc \in Documents(made) /\ r.id \in DrawingId
      /\ r.stale \in BOOLEAN /\ saved.id = 0
      /\ rows \in [DrawingId -> Row(made) \union {NoRow}]
    BY <1>1, <1>2 DEF Sent, Requests, Filed
<1>4. rows' \in [DrawingId -> Row(made) \union {NoRow}]
    BY <1>1, <1>3
<1>5. CASE rows[r.id].owner = r.as
  <2>1. Reply(r, "ok", r.id, rows[r.id].doc)
    BY <1>5 DEF ServeOpen
  <2>2. rows[r.id] \in Row(made)
    BY <1>1, <1>3, <1>5 DEF NoRow
  <2>3. rows[r.id] = [owner |-> r.as, doc |-> rows[r.id].doc] /\ rows[r.id].doc \in Documents(made)
    BY <1>5, <2>2 DEF Row
  <2>4. ASSUME NEW q, q = [r EXCEPT !.reply = "ok", !.id = r.id, !.doc = rows[r.id].doc]
        PROVE  Sent(at, q)'
    <3>1. /\ q \in Requests(made) /\ q.kind = "open" /\ q.id = r.id /\ q.reply = "ok"
          /\ q.doc = rows[r.id].doc /\ q.as = r.as
      BY <1>1, <1>2, <1>3, <2>3, <2>4 DEF Requests, RowId
    <3> QED
      BY <1>1, <1>3, <2>3, <3>1 DEF Sent
  <2> QED
    BY <1>1, <1>3, <1>4, <2>1, <2>4, AnsweredFiled
<1>6. CASE rows[r.id].owner # r.as
  <2>1. Reply(r, "failed", r.id, r.doc)
    BY <1>6 DEF ServeOpen
  <2>2. UNCHANGED unheard
    BY <1>6 DEF ServeOpen
  <2> QED
    BY <1>1, <2>1, <2>2, FailedFiled
<1> QED
    BY <1>5, <1>6

LEMMA UnansweredFiled ==
    ASSUME NEW at, Filed(at), NEW r \in requests, Refuse(r) \/ LoseReply(r)
    PROVE  Filed(at)'
<1>1. CASE Refuse(r)
  <2>1. PICK reply \in {"failed", "expired"} : Reply(r, reply, r.id, r.doc)
    BY <1>1 DEF Refuse
  <2> QED
    BY <1>1, <2>1, FailedFiled DEF Refuse
<1>2. CASE LoseReply(r)
  <2>1. /\ Reply(r, "failed", r.id, r.doc) /\ unheard' = unheard \union {r.id}
        /\ UNCHANGED <<editor, rows, user, file, left>>
    BY <1>2 DEF LoseReply
  <2> QED
    BY <2>1, FailedFiled
<1> QED
    BY <1>1, <1>2

LEMMA SaveLandsFiled ==
    ASSUME NEW at, Remembered(at), Filed(at), NEW r \in requests, SaveLands(r)
    PROVE  Filed(at)'
<1>1. /\ r.kind = "save" /\ r.reply = "ok" /\ Landed(r)
      /\ UNCHANGED <<user, rows, made, gate, nameOpen, left, unheard>>
    BY DEF SaveLands, editor, mishaps
<1>2. requests = {r} /\ Sent(at, r) /\ r \in Requests(made)
    BY Alone
<1>3. requests' = {}
    BY <1>1, <1>2 DEF Landed
<1>4. OneAtATime'
    BY <1>1, <1>2, <1>3 DEF Filed, OneAtATime, Nothing, RowId, Sent
<1>5. CASE r.stale
  <2>1. UNCHANGED <<saved, savedMark>> /\ saved.id = 0
    BY <1>2, <1>5 DEF SaveLands, Sent
  <2> QED
    BY <1>1, <1>3, <1>4, <2>1 DEF Filed
<1>6. CASE ~r.stale
  <2>1. saved' = [id |-> r.id, owner |-> r.as] /\ savedMark' = r.mark
    BY <1>6 DEF SaveLands, Bind
  <2>2. /\ rows[r.id] = [owner |-> r.as, doc |-> r.doc] \/ r.id \in unheard
        /\ r.mark \in 0 .. made
        /\ at[r.mark] = r.doc \/ Empty(at[r.mark])
        /\ r.id \in RowId /\ r.as \in Account
    BY <1>1, <1>2, <1>6 DEF Sent, Requests
  <2>3. Matched(saved.id, saved.owner, at[savedMark])'
    BY <1>1, <2>1, <2>2 DEF Matched, Empty
  <2> QED
    BY <1>1, <1>3, <1>4, <2>1, <2>2, <2>3 DEF Filed
<1> QED
    BY <1>5, <1>6

LEMMA ErrorLandsFiled ==
    ASSUME NEW at, Remembered(at), Filed(at), NEW r \in requests, ErrorLands(r)
    PROVE  Filed(at)'
<1>1. /\ r.reply \in {"failed", "expired"} /\ Landed(r)
      /\ UNCHANGED <<rows, saved, savedMark, made, nameOpen, left, unheard>>
    BY DEF ErrorLands, editor, mishaps
<1>2. requests = {r} /\ ~nameOpen /\ gate.for \notin {"save", "open"}
    BY Alone
<1>3. requests' = {}
    BY <1>1, <1>2 DEF Landed
<1>4. user' \in Account /\ (gate' = gate \/ gate' = [for |-> "again", id |-> 0])
    BY DEF ErrorLands, Filed, Account
<1>5. OneAtATime'
    BY <1>1, <1>2, <1>3, <1>4 DEF Filed, OneAtATime, Nothing, RowId
<1>6. Matched(saved.id, saved.owner, at[savedMark]) =>
          Matched(saved.id, saved.owner, at[savedMark])'
    BY <1>1, <1>2 DEF Matched, Empty
<1> QED
    BY <1>1, <1>3, <1>4, <1>5, <1>6 DEF Filed

(* Another document on the canvas: only mark 0 is of it. *)
LEMMA clearFiled ==
    ASSUME NEW at, Remembered(at), Filed(at), clear
    PROVE  FileInv'
<1>1. /\ NewDocument /\ saved' = [id |-> 0, owner |-> NoUser] /\ savedMark' = 0
      /\ requests' = Outdated /\ UNCHANGED <<rows, user, gate, nameOpen, left, unheard>>
    BY DEF clear, Bind, mishaps
<1>2. PICK new : Told([at EXCEPT ![0] = new], undoStack', redoStack', doc', made')
    BY <1>1, NewTold
<1>3. made' = made + 1 /\ made \in Nat /\ ghostOps' = NoOps
    BY <1>1, NewTold
<1> DEFINE b == [at EXCEPT ![0] = new]
<1>4. Remembered(b)'
    BY <1>2, <1>3 DEF Remembered
<1> HIDE DEF b
<1>5. made + 1 \in Nat /\ Documents(made) \subseteq Documents(made') /\ 0 .. made \subseteq 0 .. made'
    BY <1>3, DocumentsGrow
<1>6. Requests(made) \subseteq Requests(made') /\ Row(made) \subseteq Row(made')
    BY <1>5 DEF Requests, Row
<1>7. ASSUME NEW q \in requests'
      PROVE  Sent(b, q)'
  <2>1. PICK r \in requests : q = [r EXCEPT !.stale = TRUE]
    BY <1>1, <1>7 DEF Outdated
  <2>2. Sent(at, r) /\ r \in Requests(made)
    BY DEF Filed, Sent
  <2>3. /\ q \in Requests(made) /\ q.kind = r.kind /\ q.id = r.id /\ q.as = r.as /\ q.doc = r.doc
        /\ q.reply = r.reply /\ q.stale
    BY <2>1, <2>2 DEF Requests
  <2>4. q \in Requests(made')
    BY <1>6, <2>3
  <2> QED
    BY <1>1, <2>2, <2>3, <2>4 DEF Sent
<1>8. OneAtATime'
  <2>1. ASSUME NEW q \in requests', NEW r \in requests'
        PROVE  q = r
    <3>1. PICK a \in requests : q = [a EXCEPT !.stale = TRUE]
      BY <1>1 DEF Outdated
    <3>2. PICK b1 \in requests : r = [b1 EXCEPT !.stale = TRUE]
      BY <1>1 DEF Outdated
    <3>3. a = b1
      BY DEF Filed, OneAtATime
    <3> QED
      BY <3>1, <3>2, <3>3
  <2>2. requests = {} => requests' = {}
    BY <1>1 DEF Outdated
  <2> QED
    BY <1>1, <2>1, <2>2 DEF Filed, OneAtATime, Nothing, RowId
<1>9. rows' \in [DrawingId -> Row(made') \union {NoRow}]
    BY <1>1, <1>6 DEF Filed
<1>10. saved' \in [id : RowId, owner : Account] /\ savedMark' \in 0 .. made' /\ saved'.id = 0
    BY <1>1, <1>3 DEF RowId, Account
<1>11. left' \subseteq Requests(made')
    BY <1>1, <1>6 DEF Filed
<1>12. Filed(b)'
    BY <1>1, <1>7, <1>8, <1>9, <1>10, <1>11 DEF Filed
<1> QED
    BY <1>4, <1>12 DEF FileInv

LEMMA VisitFiled ==
    ASSUME NEW at, Remembered(at), Filed(at), NEW id \in RowId, Visit(id)
    PROVE  FileInv'
<1>1. /\ NewDocument /\ saved' = [id |-> 0, owner |-> NoUser] /\ savedMark' = 0
      /\ requests' = {} /\ gate' = IF id = 0 THEN Nothing ELSE [for |-> "open", id |-> id]
      /\ left' \subseteq left \union requests
      /\ nameOpen' = FALSE /\ UNCHANGED <<rows, user, unheard>>
    BY DEF Visit, Bind, mishaps
<1>2. PICK new : Told([at EXCEPT ![0] = new], undoStack', redoStack', doc', made')
    BY <1>1, NewTold
<1>3. made' = made + 1 /\ made \in Nat /\ ghostOps' = NoOps
    BY <1>1, NewTold
<1> DEFINE b == [at EXCEPT ![0] = new]
<1>4. Remembered(b)'
    BY <1>2, <1>3 DEF Remembered
<1> HIDE DEF b
<1>5. /\ made + 1 \in Nat /\ Documents(made) \subseteq Documents(made')
      /\ 0 .. made \subseteq 0 .. made'
    BY <1>3, DocumentsGrow
<1>6. rows' \in [DrawingId -> Row(made') \union {NoRow}]
  <2>1. Row(made) \subseteq Row(made')
    BY <1>5 DEF Row
  <2> QED
    BY <1>1, <2>1 DEF Filed
<1>7. saved' \in [id : RowId, owner : Account] /\ savedMark' \in 0 .. made' /\ saved'.id = 0
    BY <1>1, <1>3 DEF RowId, Account
<1>8. OneAtATime'
    BY <1>1, <1>7 DEF OneAtATime, Nothing, RowId
<1>9. left' \subseteq Requests(made')
  <2>1. Requests(made) \subseteq Requests(made')
    BY <1>5 DEF Requests
  <2>2. left \union requests \subseteq Requests(made)
    BY DEF Filed, Sent
  <2> QED
    BY <1>1, <2>1, <2>2
<1>10. Filed(b)'
    BY <1>1, <1>6, <1>7, <1>8, <1>9 DEF Filed
<1> QED
    BY <1>4, <1>10 DEF FileInv

LEMMA followThemeFiled ==
    ASSUME NEW at, Remembered(at), Filed(at), NEW paper \in Paper, followTheme(paper)
    PROVE  FileInv'
<1> DEFINE new == [doc EXCEPT !.background = paper]
           b == [at EXCEPT ![0] = new]
<1>1. /\ isEmpty /\ loadDocument(new)
      /\ UNCHANGED <<made, rows, user, saved, savedMark, gate, nameOpen, requests, left, unheard>>
    BY DEF followTheme, file, mishaps
<1>2. made \in Nat /\ at \in [Nat -> Documents(made)] /\ made <= made
    BY DEF Remembered, Told
<1>3. new \in Documents(made) /\ Empty(new)
  <2>1. doc \in DocumentOf(Older(made + 1, 1))
    BY DocumentHeld DEF Documents
  <2>2. new \in DocumentOf(Older(made + 1, 1)) /\ new.layers = doc.layers
    BY <2>1 DEF DocumentOf
  <2> HIDE DEF new
  <2> QED
    BY <1>1, <2>2 DEF Documents, Empty, isEmpty
<1>4. PICK d : d = new
    OBVIOUS
<1>5. PICK c : c = [at EXCEPT ![0] = d]
    OBVIOUS
<1> HIDE DEF new
<1>6. Told(c, undoStack', redoStack', doc', made)
    BY <1>1, <1>2, <1>3, <1>4, <1>5, LoadTold
<1>7. ghostOps' = NoOps
    BY <1>1 DEF loadDocument
<1>8. Remembered(c)'
    BY <1>1, <1>2, <1>6, <1>7 DEF Remembered
<1>9. \A k \in Nat : c[k] = at[k] \/ Empty(c[k])
    BY <1>2, <1>3, <1>4, <1>5
<1>10. ASSUME NEW r \in requests
       PROVE  Sent(c, r)'
  <2>1. Sent(at, r) /\ r.mark \in Nat
    BY <1>2 DEF Filed, Sent, Requests
  <2> QED
    BY <1>1, <1>9, <2>1 DEF Sent, Empty
<1>11. saved.id # 0 => Matched(saved.id, saved.owner, c[savedMark])'
  <2>1. savedMark \in Nat
    BY <1>2 DEF Filed
  <2> QED
    BY <1>1, <1>9, <2>1 DEF Filed, Matched, Empty
<1>12. OneAtATime'
    BY <1>1 DEF Filed, OneAtATime, Nothing
<1>13. Filed(c)'
    BY <1>1, <1>10, <1>11, <1>12 DEF Filed
<1> QED
    BY <1>8, <1>13 DEF FileInv

LEMMA OpenLandsFiled ==
    ASSUME NEW at, Remembered(at), Filed(at), NEW r \in requests, OpenLands(r)
    PROVE  FileInv'
<1>1. /\ r.kind = "open" /\ r.reply = "ok"
      /\ UNCHANGED <<rows, user, gate, nameOpen, left, unheard>>
    BY DEF OpenLands, mishaps
<1>2. requests = {r} /\ Sent(at, r) /\ r \in Requests(made)
    BY Alone
<1>3. /\ saved.id = 0 /\ r.doc \in Documents(made) /\ r.id \in DrawingId /\ r.as \in Account
      /\ rows[r.id] = [owner |-> r.as, doc |-> r.doc] \/ r.id \in unheard
    BY <1>1, <1>2 DEF Sent, Requests
<1>4. CASE r.stale \/ ~isEmpty
  <2>1. requests' = {} /\ UNCHANGED <<saved, savedMark>> /\ UNCHANGED editor
    BY <1>2, <1>4 DEF OpenLands, Landed
  <2>2. Remembered(at)' /\ made' = made
    BY <2>1, CanvasKept
  <2>3. OneAtATime'
    BY <1>1, <1>3, <2>1 DEF Filed, OneAtATime, Nothing, RowId
  <2>4. Filed(at)'
    BY <1>1, <1>3, <2>1, <2>2, <2>3 DEF Filed
  <2> QED
    BY <2>2, <2>4 DEF FileInv
<1>5. CASE ~(r.stale \/ ~isEmpty)
  <2>1. /\ loadDocument(r.doc) /\ made' = made /\ savedMark' = 0
        /\ saved' = [id |-> r.id, owner |-> r.as]
        /\ requests' = Outdated \ {[r EXCEPT !.stale = TRUE]}
    BY <1>5 DEF OpenLands, Bind
  <2>2. requests' = {}
    BY <1>2, <2>1 DEF Outdated
  <2>3. made \in Nat /\ at \in [Nat -> Documents(made)] /\ made <= made
    BY DEF Remembered, Told
  <2>4. PICK c : c = [at EXCEPT ![0] = r.doc]
    OBVIOUS
  <2>5. Told(c, undoStack', redoStack', doc', made)
    BY <1>3, <2>1, <2>3, <2>4, LoadTold
  <2>6. ghostOps' = NoOps
    BY <2>1 DEF loadDocument
  <2>7. Remembered(c)'
    BY <2>1, <2>3, <2>5, <2>6 DEF Remembered
  <2>8. c[0] = r.doc
    BY <2>3, <2>4
  <2>9. Matched(saved.id, saved.owner, c[savedMark])'
    BY <1>1, <1>3, <2>1, <2>8 DEF Matched
  <2>10. gate.for # "open"
    BY <1>2 DEF Filed, OneAtATime
  <2>11. OneAtATime'
    BY <1>1, <2>2, <2>10 DEF Filed, OneAtATime, Nothing, RowId
  <2>12. saved' \in [id : RowId, owner : Account] /\ savedMark' \in 0 .. made'
    BY <1>3, <2>1, <2>3 DEF RowId
  <2>13. Filed(c)'
    BY <1>1, <2>1, <2>2, <2>9, <2>11, <2>12 DEF Filed
  <2> QED
    BY <2>7, <2>13 DEF FileInv
<1> QED
    BY <1>4, <1>5

(* What is left writes its row behind the canvas. *)
LEMMA EndLeftFiled ==
    ASSUME NEW at, Filed(at), NEW r \in left, EndLeft(r)
    PROVE  Filed(at)'
<1>1. /\ UNCHANGED <<saved, savedMark, gate, nameOpen, requests, made>>
      /\ left' \subseteq left
    BY DEF EndLeft, editor, file
<1>2. OneAtATime'
    BY <1>1 DEF Filed, OneAtATime, Nothing
<1>3. r \in Requests(made) /\ left' \subseteq Requests(made')
    BY <1>1 DEF Filed
<1>4. ASSUME NEW id \in DrawingId, Stored(r, id), unheard' = unheard \union {id}, user' = user
      PROVE  Filed(at)'
  <2>1. rows' = [rows EXCEPT ![id] = [owner |-> r.as, doc |-> r.doc]]
    BY <1>4 DEF Stored
  <2>2. rows \in [DrawingId -> Row(made) \union {NoRow}] /\ saved.id \in RowId
    BY DEF Filed
  <2>3. rows' \in [DrawingId -> Row(made) \union {NoRow}]
    BY <1>3, <2>1, <2>2 DEF Requests, Row
  <2>4. \A i \in DrawingId : rows'[i] = rows[i] \/ i \in unheard'
    BY <1>4, <2>1, <2>2
  <2>5. ASSUME NEW q \in requests
        PROVE  Sent(at, q)'
    <3>1. Sent(at, q)
      BY DEF Filed
    <3> QED
      BY <1>1, <1>4, <2>4, <3>1 DEF Sent, Empty
  <2>6. ASSUME saved.id # 0
        PROVE  Matched(saved.id, saved.owner, at[savedMark])'
    <3>1. Matched(saved.id, saved.owner, at[savedMark]) /\ saved.id \in DrawingId
      BY <2>2, <2>6 DEF Filed, RowId
    <3> QED
      BY <1>1, <1>4, <2>4, <3>1 DEF Matched, Empty
  <2> QED
    BY <1>1, <1>2, <1>3, <1>4, <2>3, <2>5, <2>6 DEF Filed
<1>5. ASSUME UNCHANGED <<rows, unheard>>, user' \in Account
      PROVE  Filed(at)'
  <2>1. \A q \in requests : Sent(at, q)'
    BY <1>1, <1>5 DEF Filed, Sent, Empty
  <2>2. Matched(saved.id, saved.owner, at[savedMark]) =>
            Matched(saved.id, saved.owner, at[savedMark])'
    BY <1>1, <1>5 DEF Matched, Empty
  <2> QED
    BY <1>1, <1>2, <1>3, <1>5, <2>1, <2>2 DEF Filed
<1>6. user \in Account /\ NoUser \in Account
    BY DEF Filed, Account
<1> QED
    BY <1>4, <1>5, <1>6 DEF EndLeft

LEMMA FileSteps ==
    ASSUME ProposalsFit, FileInv, [Next]_vars
    PROVE  FileInv'
<1> PICK at : Remembered(at) /\ Filed(at)
    BY DEF FileInv
<1>1. ASSUME UNCHANGED editor, Filed(at)'
      PROVE  FileInv'
  <2>1. Remembered(at)'
    BY <1>1, CanvasKept
  <2> QED
    BY <1>1, <2>1 DEF FileInv
<1>2. CASE Draw
    BY <1>2, DrawFiled
<1>3. CASE save
  <2>1. UNCHANGED editor
    BY <1>3 DEF save
  <2> QED
    BY <1>1, <1>3, <2>1, saveFiled
<1>4. CASE Admitted
  <2>1. UNCHANGED editor
    BY <1>4 DEF Admitted
  <2> QED
    BY <1>1, <1>4, <2>1, AdmittedFiled
<1>5. CASE Dismissed \/ cancelName \/ \E u \in User : SignIn(u)
  <2>1. UNCHANGED editor
    BY <1>5 DEF Dismissed, cancelName, SignIn
  <2> QED
    BY <1>1, <1>5, <2>1, DialogFiled
<1>6. CASE confirmName
  <2>1. UNCHANGED editor
    BY <1>6 DEF confirmName
  <2> QED
    BY <1>1, <1>6, <2>1, confirmNameFiled
<1>7. CASE clear
    BY <1>7, clearFiled
<1>8. ASSUME NEW paper \in Paper, followTheme(paper)
      PROVE  FileInv'
    BY <1>8, followThemeFiled
<1>9. ASSUME NEW id \in DrawingId \union {0}, Visit(id)
      PROVE  FileInv'
    BY <1>9, VisitFiled DEF RowId
<1>10. ASSUME NEW r \in requests, ServeSave(r)
       PROVE  FileInv'
  <2>1. UNCHANGED editor
    BY <1>10 DEF ServeSave
  <2> QED
    BY <1>1, <1>10, <2>1, ServeSaveFiled
<1>11. ASSUME NEW r \in requests, ServeOpen(r)
       PROVE  FileInv'
  <2>1. UNCHANGED editor
    BY <1>11 DEF ServeOpen
  <2> QED
    BY <1>1, <1>11, <2>1, ServeOpenFiled
<1>12. ASSUME NEW r \in requests, Refuse(r) \/ LoseReply(r)
       PROVE  FileInv'
  <2>1. UNCHANGED editor
    BY <1>12 DEF Refuse, LoseReply
  <2> QED
    BY <1>1, <1>12, <2>1, UnansweredFiled
<1>13. ASSUME NEW r \in requests, SaveLands(r)
       PROVE  FileInv'
  <2>1. UNCHANGED editor
    BY <1>13 DEF SaveLands
  <2> QED
    BY <1>1, <1>13, <2>1, SaveLandsFiled
<1>14. ASSUME NEW r \in requests, OpenLands(r)
       PROVE  FileInv'
    BY <1>14, OpenLandsFiled
<1>15. ASSUME NEW r \in requests, ErrorLands(r)
       PROVE  FileInv'
  <2>1. UNCHANGED editor
    BY <1>15 DEF ErrorLands
  <2> QED
    BY <1>1, <1>15, <2>1, ErrorLandsFiled
<1>16. ASSUME NEW r \in left, EndLeft(r)
       PROVE  FileInv'
  <2>1. UNCHANGED editor
    BY <1>16 DEF EndLeft
  <2> QED
    BY <1>1, <1>16, <2>1, EndLeftFiled
<1>17. CASE UNCHANGED vars
  <2>1. UNCHANGED <<rows, user, saved, savedMark, gate, nameOpen, requests, left, unheard>>
    BY <1>17 DEF vars, file, mishaps
  <2>2. UNCHANGED editor
    BY <1>17 DEF vars
  <2>3. made' = made
    BY <2>2, CanvasKept
  <2>4. \A r \in requests : Sent(at, r)'
    BY <2>1, <2>3 DEF Filed, Sent, Empty
  <2>5. Matched(saved.id, saved.owner, at[savedMark]) =>
            Matched(saved.id, saved.owner, at[savedMark])'
    BY <2>1 DEF Matched, Empty
  <2>6. OneAtATime'
    BY <2>1 DEF Filed, OneAtATime, Nothing
  <2>7. Filed(at)'
    BY <2>1, <2>3, <2>4, <2>5, <2>6 DEF Filed
  <2> QED
    BY <1>1, <2>2, <2>7
<1> QED
    BY <1>2, <1>3, <1>4, <1>5, <1>6, <1>7, <1>8, <1>9, <1>10, <1>11, <1>12, <1>13, <1>14,
       <1>15, <1>16, <1>17 DEF Next

(* A drawing shown as saved is on the server as it is on the canvas, or    *)
(* its save is still to be answered, or one of its row went unheard.       *)
THEOREM ShownSavedIsSaved ==
    ASSUME ProposalsFit
    PROVE  Spec => []CleanIsSaved
<1>1. Init => FileInv
    BY FileStarts
<1>2. FileInv /\ [Next]_vars => FileInv'
    BY FileSteps
<1>3. FileInv => CleanIsSaved
    BY FiledIsSaved DEF FileInv
<1> QED
    BY <1>1, <1>2, <1>3, PTL DEF Spec

-----------------------------------------------------------------------------
(* Whose rows they are.                                                    *)

Owned(id, owner) == id \in DrawingId /\ owner # NoUser /\ rows[id].owner = owner

(* The row of an answer, and of a save that updates one, is its sender's;  *)
(* that of the canvas belongs to the account it was bound for.             *)
OwnRow(r) == r.reply = "ok" \/ (r.kind = "save" /\ r.id # 0) => Owned(r.id, r.as)

Owners ==
    /\ saved.id # 0 => Owned(saved.id, saved.owner)
    /\ \A r \in requests \union left : OwnRow(r)

(* A row keeps its owner. *)
LEMMA StoredOwned ==
    ASSUME FileInv, NEW r, NEW i \in DrawingId, Stored(r, i), NEW id, NEW owner, Owned(id, owner)
    PROVE  Owned(id, owner)'
<1>1. PICK at : Filed(at)
    BY DEF FileInv
<1>2. rows \in [DrawingId -> Row(made) \union {NoRow}]
    BY <1>1 DEF Filed
<1>3. rows' = [rows EXCEPT ![i] = [owner |-> r.as, doc |-> r.doc]]
    BY DEF Stored
<1>4. id \in DrawingId /\ owner # NoUser /\ rows[id].owner = owner
    BY DEF Owned
<1>5. CASE id = i
  <2>1. rows[i] # NoRow
    BY <1>4, <1>5 DEF NoRow
  <2>2. r.as = owner
    BY <1>4, <1>5, <2>1 DEF Stored
  <2>3. rows'[i] = [owner |-> owner, doc |-> r.doc]
    BY <1>2, <1>3, <2>2
  <2> QED
    BY <1>4, <1>5, <2>3 DEF Owned
<1>6. CASE id # i
  <2>1. rows'[id] = rows[id]
    BY <1>2, <1>3, <1>4, <1>6
  <2> QED
    BY <1>4, <2>1 DEF Owned
<1> QED
    BY <1>5, <1>6

(* Steps that send nothing and write no row. *)
LEMMA OwnersKept ==
    ASSUME Owners, UNCHANGED rows, saved' = saved \/ saved'.id = 0,
           (requests \union left)' \subseteq requests \union left
    PROVE  Owners'
<1>1. \A id, owner : Owned(id, owner) => Owned(id, owner)'
    BY DEF Owned
<1>2. \A r : OwnRow(r) => OwnRow(r)'
    BY <1>1 DEF OwnRow
<1> QED
    BY <1>1, <1>2 DEF Owners

(* A request is sent: an update is of the row that savedId gives. *)
LEMMA OwnersSent ==
    ASSUME Owners, UNCHANGED <<rows, user, saved, left>>, NEW kind \in {"save", "open"}, NEW id,
           kind = "save" => id = savedId, Send(kind, id)
    PROVE  Owners'
<1>1. \A i, owner : Owned(i, owner) => Owned(i, owner)'
    BY DEF Owned
<1>2. \A r : OwnRow(r) => OwnRow(r)'
    BY <1>1 DEF OwnRow
<1>3. PICK q : /\ requests' = requests \union {q}
               /\ q = [kind |-> kind, id |-> id, as |-> user, doc |-> doc, mark |-> mark,
                       stale |-> FALSE, reply |-> "none"]
    BY DEF Send
<1>4. kind = "save" /\ id # 0 => Owned(id, user)
    BY DEF savedId, Owners
<1>5. OwnRow(q)
    BY <1>3, <1>4 DEF OwnRow
<1> QED
    BY <1>1, <1>2, <1>3, <1>5 DEF Owners

(* The one request is answered, and its row, if it has one, is written. *)
LEMMA OwnersAnswered ==
    ASSUME FileInv, Owners, NEW r \in requests, UNCHANGED <<saved, left>>,
           NEW reply, NEW id, NEW content, Reply(r, reply, id, content),
           \A i, owner : Owned(i, owner) => Owned(i, owner)',
           \/ reply = "ok" /\ Owned(id, r.as)'
           \/ reply # "ok" /\ id = r.id
    PROVE  Owners'
<1>1. PICK at : Filed(at)
    BY DEF FileInv
<1>2. \A q : OwnRow(q) => OwnRow(q)'
    BY DEF OwnRow
<1>3. PICK q : q = [r EXCEPT !.reply = reply, !.id = id, !.doc = content]
    OBVIOUS
<1>4. r \in Requests(made)
    BY <1>1 DEF Filed, Sent
<1>5. q.kind = r.kind /\ q.as = r.as /\ q.reply = reply /\ q.id = id
    BY <1>3, <1>4 DEF Requests
<1>6. requests' = (requests \ {r}) \union {q}
    BY <1>3 DEF Reply
<1>7. OwnRow(r)
    BY DEF Owners
<1>8. OwnRow(q)'
    BY <1>5, <1>7 DEF OwnRow
<1>9. saved.id # 0 => Owned(saved.id, saved.owner)'
    BY DEF Owners
<1> QED
    BY <1>2, <1>6, <1>8, <1>9 DEF Owners

LEMMA OwnersServed ==
    ASSUME FileInv, Owners, NEW r \in requests,
           ServeSave(r) \/ ServeOpen(r) \/ Refuse(r) \/ LoseReply(r)
    PROVE  Owners'
<1>1. UNCHANGED <<saved, left>>
    BY DEF ServeSave, ServeOpen, Refuse, LoseReply, file
<1>2. UNCHANGED rows => \A i, owner : Owned(i, owner) => Owned(i, owner)'
    BY DEF Owned
<1>3. ASSUME NEW id \in DrawingId, r.as # NoUser, Stored(r, id), Reply(r, "ok", id, r.doc)
      PROVE  Owners'
  <2>1. \A i, owner : Owned(i, owner) => Owned(i, owner)'
    BY <1>3, StoredOwned
  <2>2. Owned(id, r.as)'
    <3>1. PICK at : Filed(at)
      BY DEF FileInv
    <3>2. rows \in [DrawingId -> Row(made) \union {NoRow}]
      BY <3>1 DEF Filed
    <3>3. rows'[id] = [owner |-> r.as, doc |-> r.doc]
      BY <1>3, <3>2 DEF Stored
    <3> QED
      BY <1>3, <3>3 DEF Owned
  <2> QED
    BY <1>1, <1>3, <2>1, <2>2, OwnersAnswered
<1>4. ASSUME UNCHANGED rows, NEW reply, reply # "ok", NEW content, Reply(r, reply, r.id, content)
      PROVE  Owners'
    BY <1>1, <1>2, <1>4, OwnersAnswered
<1>5. CASE ServeSave(r)
    BY <1>3, <1>4, <1>5 DEF ServeSave
<1>6. CASE ServeOpen(r)
  <2>1. r.kind = "open" /\ r.as # NoUser /\ UNCHANGED rows
    BY <1>6 DEF ServeOpen
  <2>2. CASE rows[r.id].owner = r.as
    <3>1. PICK at : Filed(at)
      BY DEF FileInv
    <3>2. r.id \in DrawingId
      BY <2>1, <3>1 DEF Filed, Sent
    <3>3. Owned(r.id, r.as)'
      BY <2>1, <2>2, <3>2 DEF Owned
    <3>4. Reply(r, "ok", r.id, rows[r.id].doc)
      BY <1>6, <2>2 DEF ServeOpen
    <3> QED
      BY <1>1, <1>2, <2>1, <3>3, <3>4, OwnersAnswered
  <2>3. CASE rows[r.id].owner # r.as
    <3>1. Reply(r, "failed", r.id, r.doc)
      BY <1>6, <2>3 DEF ServeOpen
    <3> QED
      BY <1>4, <2>1, <3>1
  <2> QED
    BY <2>2, <2>3
<1>7. CASE Refuse(r)
  <2>1. PICK reply \in {"failed", "expired"} : Reply(r, reply, r.id, r.doc)
    BY <1>7 DEF Refuse
  <2> QED
    BY <1>4, <1>7, <2>1 DEF Refuse
<1>8. CASE LoseReply(r)
    BY <1>4, <1>8 DEF LoseReply
<1> QED
    BY <1>5, <1>6, <1>7, <1>8

LEMMA OwnersBound ==
    ASSUME Owners, NEW r \in requests, r.reply = "ok", UNCHANGED <<rows, left>>,
           requests' \subseteq {}, saved' = saved \/ saved' = [id |-> r.id, owner |-> r.as]
    PROVE  Owners'
<1>1. \A i, owner : Owned(i, owner) => Owned(i, owner)'
    BY DEF Owned
<1>2. \A q : OwnRow(q) => OwnRow(q)'
    BY <1>1 DEF OwnRow
<1>3. Owned(r.id, r.as)
    BY DEF Owners, OwnRow
<1> QED
    BY <1>1, <1>2, <1>3 DEF Owners

LEMMA OwnersStep ==
    ASSUME FileInv, Owners, [Next]_vars
    PROVE  Owners'
<1> PICK at : Remembered(at) /\ Filed(at)
    BY DEF FileInv
<1>1. CASE Draw \/ save \/ Dismissed \/ cancelName \/ UNCHANGED vars
  <2>1. UNCHANGED <<rows, saved, requests, left>>
    BY <1>1 DEF Draw, save, Dismissed, cancelName, vars, file
  <2> QED
    BY <2>1, OwnersKept
<1>2. CASE (\E u \in User : SignIn(u)) \/ (\E paper \in Paper : followTheme(paper))
  <2>1. UNCHANGED <<rows, saved, requests, left>>
    BY <1>2 DEF SignIn, followTheme, file
  <2> QED
    BY <2>1, OwnersKept
<1>3. CASE Admitted
  <2>1. UNCHANGED <<rows, user, saved, left>>
    BY <1>3 DEF Admitted
  <2>2. \/ UNCHANGED requests
        \/ Send("save", savedId)
        \/ Send("open", gate.id)
    BY <1>3 DEF Admitted, write
  <2>3. CASE UNCHANGED requests
    BY <2>1, <2>3, OwnersKept
  <2> QED
    BY <2>1, <2>2, <2>3, OwnersSent
<1>4. CASE confirmName
  <2>1. UNCHANGED <<rows, user, saved, left>> /\ Send("save", savedId)
    BY <1>4 DEF confirmName, write
  <2> QED
    BY <2>1, OwnersSent
<1>5. CASE clear
  <2>1. /\ saved'.id = 0 /\ requests' = Outdated /\ UNCHANGED <<rows, left>>
    BY <1>5 DEF clear, Bind
  <2>2. ASSUME NEW q \in requests'
        PROVE  OwnRow(q)'
    <3>1. PICK r \in requests : q = [r EXCEPT !.stale = TRUE]
      BY <2>1, <2>2 DEF Outdated
    <3>2. r \in Requests(made) /\ OwnRow(r)
      BY DEF Filed, Sent, Owners
    <3>3. q.kind = r.kind /\ q.id = r.id /\ q.as = r.as /\ q.reply = r.reply
      BY <3>1, <3>2 DEF Requests
    <3> QED
      BY <2>1, <3>2, <3>3 DEF OwnRow, Owned
  <2>3. \A q \in left : OwnRow(q)'
    BY <2>1 DEF Owners, OwnRow, Owned
  <2> QED
    BY <2>1, <2>2, <2>3 DEF Owners
<1>6. ASSUME NEW id \in DrawingId \union {0}, Visit(id)
      PROVE  Owners'
  <2>1. saved'.id = 0 /\ requests' = {} /\ left' \subseteq left \union requests /\ UNCHANGED rows
    BY <1>6 DEF Visit, Bind
  <2> QED
    BY <2>1, OwnersKept
<1>7. ASSUME NEW r \in requests, ServeSave(r) \/ ServeOpen(r) \/ Refuse(r) \/ LoseReply(r)
      PROVE  Owners'
    BY <1>7, OwnersServed
<1>8. ASSUME NEW r \in requests, SaveLands(r) \/ OpenLands(r)
      PROVE  Owners'
  <2>1. requests = {r} /\ r \in Requests(made)
    BY Alone
  <2>2. r.reply = "ok" /\ UNCHANGED <<rows, left>>
    BY <1>8 DEF SaveLands, OpenLands
  <2>3. requests' \subseteq {}
    BY <1>8, <2>1 DEF SaveLands, OpenLands, Landed, Outdated
  <2>4. saved' = saved \/ saved' = [id |-> r.id, owner |-> r.as]
    BY <1>8 DEF SaveLands, OpenLands, Bind
  <2> QED
    BY <2>2, <2>3, <2>4, OwnersBound
<1>9. ASSUME NEW r \in requests, ErrorLands(r)
      PROVE  Owners'
  <2>1. requests' \subseteq requests /\ UNCHANGED <<rows, saved, left>>
    BY <1>9 DEF ErrorLands, Landed
  <2> QED
    BY <2>1, OwnersKept
<1>10. ASSUME NEW r \in left, EndLeft(r)
       PROVE  Owners'
  <2>1. left' \subseteq left /\ UNCHANGED <<saved, requests>>
    BY <1>10 DEF EndLeft, file
  <2>2. CASE UNCHANGED rows
    BY <2>1, <2>2, OwnersKept
  <2>3. ASSUME NEW i \in DrawingId, Stored(r, i)
        PROVE  Owners'
    <3>1. \A id, owner : Owned(id, owner) => Owned(id, owner)'
      BY <2>3, StoredOwned
    <3>2. \A q : OwnRow(q) => OwnRow(q)'
      BY <3>1 DEF OwnRow
    <3> QED
      BY <2>1, <3>1, <3>2 DEF Owners
  <2> QED
    BY <1>10, <2>2, <2>3 DEF EndLeft
<1> QED
    BY <1>1, <1>2, <1>3, <1>4, <1>5, <1>6, <1>7, <1>8, <1>9, <1>10 DEF Next

(* A save of a drawing that has a row is sent by the account the row       *)
(* belongs to: no save is answered 404 for having outlived a session.      *)
THEOREM SavesAlwaysFindTheirRow ==
    ASSUME ProposalsFit
    PROVE  Spec => []SavesFindTheirRow
<1>1. Init => FileInv /\ Owners
  <2> SUFFICES ASSUME Init
               PROVE  FileInv /\ Owners
    OBVIOUS
  <2>1. saved.id = 0 /\ requests = {} /\ left = {}
    BY DEF Init, NotSaved
  <2>2. Owners
    BY <2>1 DEF Owners
  <2> QED
    BY <2>2, FileStarts
<1>2. FileInv /\ Owners /\ [Next]_vars => (FileInv /\ Owners)'
    BY FileSteps, OwnersStep
<1>3. Owners => SavesFindTheirRow
    BY DEF Owners, OwnRow, Owned, SavesFindTheirRow
<1> QED
    BY <1>1, <1>2, <1>3, PTL DEF Spec
=============================================================================

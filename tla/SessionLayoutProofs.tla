------------------------ MODULE SessionLayoutProofs ------------------------
(***************************************************************************)
(* Proofs about SessionLayout and TabLayout, for every set of clients and  *)
(* of host sizes, every minimum and default size of a float, every motion  *)
(* and grip of an edit, and every number of panes and tabs: the panes that *)
(* are laid out are alive and laid out once, floats are inside their host, *)
(* open edits refer to what is there, and neither a pane nor the focus of  *)
(* a tab is lost.                                                          *)
(*                                                                         *)
(* The argument has one relation, Kept: an event rewrites the tabs so that *)
(* each keeps its identifier, its floats and all its tiles but those in Y. *)
(* Every action but a close and a new tab is a rollback (Kept with Y the   *)
(* younger panes) followed by rewrites of single tabs (Kept with Y empty), *)
(* and StepKeeps draws what is proved from Kept alone.                     *)
(***************************************************************************)
EXTENDS SessionLayout, SequenceTheorems, FiniteSetTheorems, WellFoundedInduction, TLAPS

\* A set of naturals with a member has a smallest one.
LEMMA Smallest ==
    ASSUME NEW T, T \subseteq Nat, T # {}
    PROVE  \E x \in T : \A y \in T : x <= y
<1>1. \E x \in T : \A y \in T : ~(<<y, x>> \in OpToRel(<, Nat))
    BY NatLessThanWellFounded, WFMin, ZenonT(30)
<1>2. PICK x \in T : \A y \in T : ~(<<y, x>> \in OpToRel(<, Nat))
    BY <1>1
<1>3. \A y \in T : x <= y
  <2>. SUFFICES ASSUME NEW y \in T PROVE x <= y
    OBVIOUS
  <2>1. <<y, x>> \notin OpToRel(<, Nat)
    BY <1>2
  <2>. QED
    BY <2>1 DEF OpToRel
<1>. QED
    BY <1>3

\* The Max of places in a sequence is one of them.
LEMMA MaxIsMember ==
    ASSUME NEW n \in Nat, NEW T, T \subseteq 1 .. n, T # {}
    PROVE  Max(T) \in T /\ \A i \in T : i <= Max(T)
<1>. DEFINE fromEnd == {n - i : i \in T}
<1>a. \A i \in T : i \in Nat /\ i <= n /\ n - i \in Nat
    OBVIOUS
<1>1. fromEnd \subseteq Nat /\ fromEnd # {}
    BY <1>a
<1>2. PICK x \in fromEnd : \A y \in fromEnd : x <= y
    BY <1>1, Smallest
<1>3. PICK i \in T : x = n - i
    BY <1>2
<1>4. \A j \in T : i >= j
  <2>. SUFFICES ASSUME NEW j \in T PROVE i >= j
    OBVIOUS
  <2>1. n - j \in fromEnd
    OBVIOUS
  <2>. QED
    BY <1>2, <1>3, <1>a, <2>1
<1>. QED
    BY <1>4, <1>a DEF Max

----------------------------------------------------------------------------
(* Sequences with distinct members. *)

\* Where the members of a sequence go when one is put in at i.
LEMMA InsertAtPlaces ==
    ASSUME NEW S, NEW seq \in Seq(S), NEW i \in 1 .. Len(seq) + 1, NEW elt \in S
    PROVE  /\ InsertAt(seq, i, elt) \in Seq(S)
           /\ Len(InsertAt(seq, i, elt)) = Len(seq) + 1
           /\ \A j \in 1 .. Len(seq) + 1 :
                InsertAt(seq, i, elt)[j] =
                    IF j < i THEN seq[j] ELSE IF j = i THEN elt ELSE seq[j - 1]
<1>. DEFINE front == SubSeq(seq, 1, i - 1)
            back  == SubSeq(seq, i, Len(seq))
<1>1. Len(seq) \in Nat /\ \A j \in 1 .. Len(seq) : seq[j] \in S
    BY LenProperties, ElementOfSeq
<1>2. /\ front \in Seq(S) /\ Len(front) = i - 1
      /\ \A j \in 1 .. i - 1 : front[j] = seq[j]
    BY <1>1, SubSeqProperties
<1>3. /\ back \in Seq(S) /\ Len(back) = Len(seq) - i + 1
      /\ \A j \in 1 .. Len(seq) - i + 1 : back[j] = seq[i + j - 1]
    BY <1>1, SubSeqProperties
<1>4. <<elt>> \in Seq(S) /\ Len(<<elt>>) = 1 /\ <<elt>>[1] = elt
    OBVIOUS
<1>. HIDE DEF front, back
<1>. DEFINE middle == front \o <<elt>>
<1>5. /\ middle \in Seq(S) /\ Len(middle) = i
      /\ \A j \in 1 .. i : middle[j] = IF j < i THEN seq[j] ELSE elt
    BY <1>1, <1>2, <1>4, ConcatProperties
<1>. HIDE DEF middle
<1>6. /\ middle \o back \in Seq(S) /\ Len(middle \o back) = Len(seq) + 1
      /\ \A j \in 1 .. Len(seq) + 1 :
           (middle \o back)[j] = IF j <= i THEN middle[j] ELSE back[j - i]
  <2>1. /\ middle \o back \in Seq(S) /\ Len(middle \o back) = Len(middle) + Len(back)
        /\ \A j \in 1 .. Len(middle) + Len(back) :
             (middle \o back)[j] = IF j <= Len(middle) THEN middle[j] ELSE back[j - Len(middle)]
    BY <1>3, <1>5, ConcatProperties
  <2>2. Len(middle) + Len(back) = Len(seq) + 1 /\ Len(middle) = i
    BY <1>1, <1>3, <1>5
  <2>. QED
    BY <2>1, <2>2
<1>7. ASSUME NEW j \in 1 .. Len(seq) + 1
      PROVE  (middle \o back)[j] = IF j < i THEN seq[j] ELSE IF j = i THEN elt ELSE seq[j - 1]
  <2>1. (middle \o back)[j] = IF j <= i THEN middle[j] ELSE back[j - i]
    BY <1>6
  <2>2. CASE j <= i
    BY <2>1, <2>2, <1>5
  <2>3. CASE j > i
    <3>1. j - i \in 1 .. Len(seq) - i + 1 /\ i + (j - i) - 1 = j - 1
      BY <2>3, <1>1
    <3>2. back[j - i] = seq[j - 1]
      BY <3>1, <1>3
    <3>3. ~(j <= i) /\ ~(j < i) /\ j # i
      BY <2>3
    <3>. QED
      BY <2>1, <3>2, <3>3
  <2>4. j <= i \/ j > i
    OBVIOUS
  <2>. QED
    BY <2>2, <2>3, <2>4, Zenon
<1>8. InsertAt(seq, i, elt) = middle \o back
    BY DEF InsertAt, middle, front, back
<1>. QED
    BY <1>6, <1>7, <1>8, Zenon

\* Where the members of a sequence go when the one at i is taken out.
LEMMA RemoveAtPlaces ==
    ASSUME NEW S, NEW seq \in Seq(S), NEW i \in 1 .. Len(seq)
    PROVE  /\ RemoveAt(seq, i) \in Seq(S)
           /\ Len(RemoveAt(seq, i)) = Len(seq) - 1
           /\ \A j \in 1 .. Len(seq) - 1 :
                RemoveAt(seq, i)[j] = IF j < i THEN seq[j] ELSE seq[j + 1]
<1>. DEFINE front == SubSeq(seq, 1, i - 1)
            back  == SubSeq(seq, i + 1, Len(seq))
<1>1. Len(seq) \in Nat /\ \A j \in 1 .. Len(seq) : seq[j] \in S
    BY LenProperties, ElementOfSeq
<1>2. /\ front \in Seq(S) /\ Len(front) = i - 1
      /\ \A j \in 1 .. i - 1 : front[j] = seq[j]
    BY <1>1, SubSeqProperties
<1>3. /\ back \in Seq(S) /\ Len(back) = Len(seq) - i
      /\ \A j \in 1 .. Len(seq) - i : back[j] = seq[i + j]
  <2>1. \A j \in i + 1 .. Len(seq) : seq[j] \in S
    BY <1>1
  <2>2. /\ back \in Seq(S) /\ Len(back) = IF i + 1 <= Len(seq) THEN Len(seq) - (i + 1) + 1 ELSE 0
        /\ \A j \in 1 .. Len(seq) - (i + 1) + 1 : back[j] = seq[(i + 1) + j - 1]
    BY <1>1, <2>1, SubSeqProperties
  <2>. QED
    BY <1>1, <2>2
<1>. HIDE DEF front, back
<1>4. /\ front \o back \in Seq(S) /\ Len(front \o back) = Len(seq) - 1
      /\ \A j \in 1 .. Len(seq) - 1 :
           (front \o back)[j] = IF j <= i - 1 THEN front[j] ELSE back[j - (i - 1)]
  <2>1. /\ front \o back \in Seq(S) /\ Len(front \o back) = Len(front) + Len(back)
        /\ \A j \in 1 .. Len(front) + Len(back) :
             (front \o back)[j] = IF j <= Len(front) THEN front[j] ELSE back[j - Len(front)]
    BY <1>2, <1>3, ConcatProperties
  <2>2. Len(front) + Len(back) = Len(seq) - 1 /\ Len(front) = i - 1
    BY <1>1, <1>2, <1>3
  <2>. QED
    BY <2>1, <2>2
<1>5. ASSUME NEW j \in 1 .. Len(seq) - 1
      PROVE  (front \o back)[j] = IF j < i THEN seq[j] ELSE seq[j + 1]
  <2>1. (front \o back)[j] = IF j <= i - 1 THEN front[j] ELSE back[j - (i - 1)]
    BY <1>4
  <2>2. CASE j < i
    <3>1. j <= i - 1 /\ j \in 1 .. i - 1
      BY <2>2
    <3>. QED
      BY <2>1, <2>2, <3>1, <1>2
  <2>3. CASE j >= i
    <3>1. j - (i - 1) \in 1 .. Len(seq) - i /\ i + (j - (i - 1)) = j + 1
      BY <2>3, <1>1
    <3>2. back[j - (i - 1)] = seq[j + 1]
      BY <3>1, <1>3
    <3>3. ~(j <= i - 1) /\ ~(j < i)
      BY <2>3
    <3>. QED
      BY <2>1, <3>2, <3>3
  <2>4. j < i \/ j >= i
    OBVIOUS
  <2>. QED
    BY <2>2, <2>3, <2>4, Zenon
<1>6. RemoveAt(seq, i) = front \o back
    BY DEF RemoveAt, front, back
<1>. QED
    BY <1>4, <1>5, <1>6, Zenon

\* What InsertAt does to a sequence of distinct members.
LEMMA InsertAtMembers ==
    ASSUME NEW S, NEW seq \in Seq(S), NEW i \in 1 .. Len(seq) + 1, NEW elt \in S
    PROVE  /\ InsertAt(seq, i, elt) \in Seq(S) /\ InsertAt(seq, i, elt) # <<>>
           /\ ToSet(InsertAt(seq, i, elt)) = ToSet(seq) \cup {elt}
           /\ IsInjective(seq) /\ elt \notin ToSet(seq) => IsInjective(InsertAt(seq, i, elt))
<1>. DEFINE longer == InsertAt(seq, i, elt)
            n == Len(seq)
<1>1. n \in Nat /\ DOMAIN seq = 1 .. n
    BY LenProperties
<1>2. /\ longer \in Seq(S) /\ DOMAIN longer = 1 .. n + 1 /\ longer # <<>>
      /\ \A j \in 1 .. n + 1 :
           longer[j] = IF j < i THEN seq[j] ELSE IF j = i THEN elt ELSE seq[j - 1]
  <2>1. /\ longer \in Seq(S) /\ Len(longer) = n + 1
        /\ \A j \in 1 .. n + 1 :
             longer[j] = IF j < i THEN seq[j] ELSE IF j = i THEN elt ELSE seq[j - 1]
    BY InsertAtPlaces
  <2>. HIDE DEF longer
  <2>2. DOMAIN longer = 1 .. n + 1 /\ Len(<<>>) = 0
    BY <2>1, <1>1, LenProperties
  <2>. QED
    BY <2>1, <2>2, <1>1
<1>. HIDE DEF longer
<1>3. longer[i] = elt /\ i \in 1 .. n + 1
    BY <1>1, <1>2
<1>4. ASSUME NEW j \in 1 .. n
      PROVE  \E k \in 1 .. n + 1 : longer[k] = seq[j]
  <2>1. CASE j < i
    <3>1. j \in 1 .. n + 1
      BY <1>1
    <3>. QED
      BY <2>1, <3>1, <1>2
  <2>2. CASE ~(j < i)
    <3>1. j + 1 \in 1 .. n + 1 /\ ~(j + 1 < i) /\ j + 1 # i /\ (j + 1) - 1 = j
      BY <2>2, <1>1
    <3>2. longer[j + 1] = seq[j]
      BY <3>1, <1>2
    <3>. QED
      BY <3>1, <3>2
  <2>. QED
    BY <2>1, <2>2
<1>5. ASSUME NEW j \in 1 .. n + 1, j # i
      PROVE  \E k \in 1 .. n : longer[j] = seq[k] /\ k = IF j < i THEN j ELSE j - 1
  <2>1. CASE j < i
    BY <2>1, <1>1, <1>2
  <2>2. CASE ~(j < i)
    <3>1. j - 1 \in 1 .. n
      BY <2>2, <1>1, <1>5
    <3>. QED
      BY <3>1, <2>2, <1>5, <1>2
  <2>. QED
    BY <2>1, <2>2
<1>6. ToSet(longer) = ToSet(seq) \cup {elt}
  <2>1. ASSUME NEW x \in ToSet(longer) PROVE x \in ToSet(seq) \cup {elt}
    <3>1. PICK j \in 1 .. n + 1 : x = longer[j]
      BY <1>2 DEF ToSet
    <3>. QED
      BY <3>1, <1>1, <1>3, <1>5 DEF ToSet
  <2>2. ASSUME NEW x \in ToSet(seq) PROVE x \in ToSet(longer)
    <3>1. PICK j \in 1 .. n : x = seq[j]
      BY <1>1 DEF ToSet
    <3>2. PICK k \in 1 .. n + 1 : longer[k] = seq[j]
      BY <1>4
    <3>. QED
      BY <3>1, <3>2, <1>2 DEF ToSet
  <2>3. elt \in ToSet(longer)
    BY <1>2, <1>3 DEF ToSet
  <2>. QED
    BY <2>1, <2>2, <2>3
<1>7. ASSUME IsInjective(seq), elt \notin ToSet(seq) PROVE IsInjective(longer)
  <2>. SUFFICES ASSUME NEW j \in 1 .. n + 1, NEW k \in 1 .. n + 1, longer[j] = longer[k]
                PROVE  j = k
    BY <1>2 DEF IsInjective
  <2>1. CASE j = i \/ k = i
    <3>1. \A m \in 1 .. n + 1 : m # i => longer[m] # elt
      BY <1>1, <1>5, <1>7 DEF ToSet
    <3>. QED
      BY <3>1, <2>1, <1>3
  <2>2. CASE j # i /\ k # i
    <3>1. PICK a \in 1 .. n : longer[j] = seq[a] /\ a = IF j < i THEN j ELSE j - 1
      BY <2>2, <1>5
    <3>2. PICK b \in 1 .. n : longer[k] = seq[b] /\ b = IF k < i THEN k ELSE k - 1
      BY <2>2, <1>5
    <3>3. a = b
      BY <3>1, <3>2, <1>1, <1>7 DEF IsInjective
    <3>. QED
      BY <3>1, <3>2, <3>3, <2>2, <1>1
  <2>. QED
    BY <2>1, <2>2
<1>. QED
    BY <1>2, <1>6, <1>7 DEF longer

\* shorter is seq without its member at i, the others in their order.
WithoutAt(seq, i, shorter) ==
    /\ DOMAIN shorter = 1 .. Len(seq) - 1
    /\ Len(shorter) = Len(seq) - 1
    /\ \A j \in 1 .. Len(seq) - 1 :
         \E k \in 1 .. Len(seq) \ {i} :
            shorter[j] = seq[k] /\ k = IF j < i THEN j ELSE j + 1
    /\ \A k \in 1 .. Len(seq) \ {i} : \E j \in 1 .. Len(seq) - 1 : shorter[j] = seq[k]

\* Where the members of a sequence go when the one at i is removed.
LEMMA RemoveAtMembers ==
    ASSUME NEW S, NEW seq \in Seq(S), NEW i \in 1 .. Len(seq)
    PROVE  /\ RemoveAt(seq, i) \in Seq(S)
           /\ WithoutAt(seq, i, RemoveAt(seq, i))
           /\ IsInjective(seq) => /\ IsInjective(RemoveAt(seq, i))
                                  /\ ToSet(RemoveAt(seq, i)) = ToSet(seq) \ {seq[i]}
<1>. DEFINE shorter == RemoveAt(seq, i)
            n == Len(seq)
<1>1. n \in Nat /\ DOMAIN seq = 1 .. n
    BY LenProperties
<1>2. /\ shorter \in Seq(S) /\ DOMAIN shorter = 1 .. n - 1 /\ Len(shorter) = n - 1
      /\ \A j \in 1 .. n - 1 : shorter[j] = IF j < i THEN seq[j] ELSE seq[j + 1]
  <2>1. /\ shorter \in Seq(S) /\ Len(shorter) = n - 1
        /\ \A j \in 1 .. n - 1 : shorter[j] = IF j < i THEN seq[j] ELSE seq[j + 1]
    BY RemoveAtPlaces
  <2>. HIDE DEF shorter
  <2>. QED
    BY <2>1, <1>1, LenProperties
<1>. HIDE DEF shorter
<1>3. ASSUME NEW j \in 1 .. n - 1
      PROVE  \E k \in 1 .. n \ {i} : shorter[j] = seq[k] /\ k = IF j < i THEN j ELSE j + 1
  <2>1. CASE j < i
    <3>1. j \in 1 .. n \ {i}
      BY <2>1, <1>1
    <3>. QED
      BY <3>1, <2>1, <1>2
  <2>2. CASE ~(j < i)
    <3>1. j + 1 \in 1 .. n \ {i}
      BY <2>2, <1>1
    <3>. QED
      BY <3>1, <2>2, <1>2
  <2>. QED
    BY <2>1, <2>2
<1>4. ASSUME NEW k \in 1 .. n \ {i}
      PROVE  \E j \in 1 .. n - 1 : shorter[j] = seq[k]
  <2>1. CASE k < i
    <3>1. k \in 1 .. n - 1
      BY <2>1, <1>1
    <3>. QED
      BY <3>1, <2>1, <1>2
  <2>2. CASE ~(k < i)
    <3>1. k - 1 \in 1 .. n - 1 /\ ~(k - 1 < i) /\ (k - 1) + 1 = k
      BY <2>2, <1>1
    <3>2. shorter[k - 1] = seq[k]
      BY <3>1, <1>2
    <3>. QED
      BY <3>1, <3>2
  <2>. QED
    BY <2>1, <2>2
<1>5. ASSUME IsInjective(seq) PROVE IsInjective(shorter)
  <2>. SUFFICES ASSUME NEW j \in 1 .. n - 1, NEW k \in 1 .. n - 1, shorter[j] = shorter[k]
                PROVE  j = k
    BY <1>2 DEF IsInjective
  <2>1. PICK a \in 1 .. n \ {i} : shorter[j] = seq[a] /\ a = IF j < i THEN j ELSE j + 1
    BY <1>3
  <2>2. PICK b \in 1 .. n \ {i} : shorter[k] = seq[b] /\ b = IF k < i THEN k ELSE k + 1
    BY <1>3
  <2>3. a = b
    BY <2>1, <2>2, <1>1, <1>5 DEF IsInjective
  <2>. QED
    BY <2>1, <2>2, <2>3, <1>1
<1>6. ASSUME IsInjective(seq) PROVE ToSet(shorter) = ToSet(seq) \ {seq[i]}
  <2>1. \A k \in 1 .. n \ {i} : seq[k] # seq[i]
    BY <1>1, <1>6 DEF IsInjective
  <2>2. ASSUME NEW x \in ToSet(shorter) PROVE x \in ToSet(seq) /\ x # seq[i]
    <3>1. PICK j \in 1 .. n - 1 : x = shorter[j]
      BY <1>2 DEF ToSet
    <3>2. PICK k \in 1 .. n \ {i} : x = seq[k]
      BY <3>1, <1>3
    <3>. QED
      BY <3>2, <2>1, <1>1 DEF ToSet
  <2>3. ASSUME NEW x \in ToSet(seq), x # seq[i] PROVE x \in ToSet(shorter)
    <3>1. PICK k \in 1 .. n : x = seq[k]
      BY <1>1 DEF ToSet
    <3>2. k \in 1 .. n \ {i}
      BY <3>1, <2>3
    <3>3. PICK j \in 1 .. n - 1 : shorter[j] = seq[k]
      BY <3>2, <1>4
    <3>. QED
      BY <3>1, <3>3, <1>2 DEF ToSet
  <2>. QED
    BY <2>2, <2>3
<1>. QED
    BY <1>2, <1>3, <1>4, <1>5, <1>6 DEF shorter, WithoutAt

----------------------------------------------------------------------------
(* The floating layer. *)

\* The floats of a tab: typed, each pane once, the ordinary ones below the pinned.
FloatsOK(fs) ==
    /\ fs \in Seq(FloatRecords)
    /\ \A i, j \in DOMAIN fs : fs[i].pane = fs[j].pane => i = j
    /\ \A i, j \in DOMAIN fs : i < j => (fs[i].pinned => fs[j].pinned)

\* Every float is inside the area a.
Fits(fs, a) == \A i \in DOMAIN fs : Inside(fs[i].rect, a)

\* A host starts at the origin and is a rectangle with room for a float.
LEMMA AreaIsRect ==
    ASSUME NEW a \in Areas
    PROVE  /\ a \in Rects /\ a.x = 0 /\ a.y = 0
           /\ a.width \in Nat /\ a.width >= MIN_FLOAT_WIDTH
           /\ a.height \in Nat /\ a.height >= MIN_FLOAT_HEIGHT
           /\ MIN_FLOAT_WIDTH \in Nat \ {0} /\ MIN_FLOAT_HEIGHT \in Nat \ {0}
<1>1. MIN_FLOAT_WIDTH \in Nat \ {0} /\ MIN_FLOAT_HEIGHT \in Nat \ {0}
    BY FloatAssumption
<1>2. /\ a \in [x : {0}, y : {0}, width : Nat, height : Nat]
      /\ a.width >= MIN_FLOAT_WIDTH /\ a.height >= MIN_FLOAT_HEIGHT
    BY LayoutAssumption
<1>3. a.x = 0 /\ a.y = 0 /\ a.width \in Nat /\ a.height \in Nat
    BY <1>2
<1>4. a.width \in Nat \ {0} /\ a.height \in Nat \ {0}
    BY <1>1, <1>2, <1>3
<1>. QED
    BY <1>1, <1>2, <1>3, <1>4 DEF Rects

\* One axis of clamp_rect: a size between the minimum and the host's.
LEMMA ClampExtent ==
    ASSUME NEW size \in Nat, NEW minimum \in Nat \ {0}, NEW extent \in Nat, extent >= minimum
    PROVE  /\ clamp_extent(size, minimum, extent) \in Nat \ {0}
           /\ minimum <= clamp_extent(size, minimum, extent)
           /\ clamp_extent(size, minimum, extent) <= extent
           /\ minimum <= size => clamp_extent(size, minimum, extent) <= size
<1>1. least(minimum, extent) = minimum
    BY DEF least, Larger, Smaller
<1>2. clamp_extent(size, minimum, extent)
        = IF size <= minimum THEN minimum ELSE IF size <= extent THEN size ELSE extent
    BY <1>1 DEF clamp_extent, clamp, Larger, Smaller
<1>. QED
    BY <1>2

\* A position that leaves room for the size, and moves only towards the origin.
LEMMA ClampPosition ==
    ASSUME NEW at \in Nat, NEW size \in Nat, NEW extent \in Nat, size <= extent
    PROVE  /\ clamp_position(at, size, 0, extent) \in Nat
           /\ clamp_position(at, size, 0, extent) + size <= extent
           /\ clamp_position(at, size, 0, extent) <= at
<1>1. clamp_position(at, size, 0, extent) = IF at <= extent - size THEN at ELSE extent - size
    BY DEF clamp_position, clamp, Larger, Smaller
<1>. QED
    BY <1>1

\* clamp_rect brings any rectangle into the host, and what was inside another
\* host stays inside that one.
LEMMA ClampRectFits ==
    ASSUME NEW r, r.x \in Nat, r.y \in Nat, r.width \in Nat, r.height \in Nat, NEW a \in Areas
    PROVE  /\ clamp_rect(r, a) \in Rects /\ Inside(clamp_rect(r, a), a)
           /\ \A b \in Areas : Inside(r, b) => Inside(clamp_rect(r, a), b)
<1>. DEFINE w == clamp_extent(r.width, MIN_FLOAT_WIDTH, a.width)
            h == clamp_extent(r.height, MIN_FLOAT_HEIGHT, a.height)
            x == clamp_position(r.x, w, 0, a.width)
            y == clamp_position(r.y, h, 0, a.height)
<1>1. /\ a.x = 0 /\ a.y = 0 /\ a.width \in Nat /\ a.width >= MIN_FLOAT_WIDTH
      /\ a.height \in Nat /\ a.height >= MIN_FLOAT_HEIGHT
      /\ MIN_FLOAT_WIDTH \in Nat \ {0} /\ MIN_FLOAT_HEIGHT \in Nat \ {0}
    BY AreaIsRect
<1>2. /\ w \in Nat \ {0} /\ MIN_FLOAT_WIDTH <= w /\ w <= a.width
      /\ MIN_FLOAT_WIDTH <= r.width => w <= r.width
    BY ONLY <1>1, ClampExtent, r.width \in Nat
<1>3. /\ h \in Nat \ {0} /\ MIN_FLOAT_HEIGHT <= h /\ h <= a.height
      /\ MIN_FLOAT_HEIGHT <= r.height => h <= r.height
    BY ONLY <1>1, ClampExtent, r.height \in Nat
<1>4. clamp_rect(r, a) = [x |-> x, y |-> y, width |-> w, height |-> h]
    BY <1>1 DEF clamp_rect, Rect
<1>. HIDE DEF w, h
<1>5. x \in Nat /\ x + w <= a.width /\ x <= r.x
    BY ONLY <1>1, <1>2, ClampPosition, r.x \in Nat
<1>6. y \in Nat /\ y + h <= a.height /\ y <= r.y
    BY ONLY <1>1, <1>3, ClampPosition, r.y \in Nat
<1>. HIDE DEF x, y
<1>7. clamp_rect(r, a) \in Rects
    BY <1>2, <1>3, <1>4, <1>5, <1>6 DEF Rects
<1>8. Inside(clamp_rect(r, a), a)
    BY <1>1, <1>2, <1>3, <1>4, <1>5, <1>6 DEF Inside
<1>9. ASSUME NEW b \in Areas, Inside(r, b) PROVE Inside(clamp_rect(r, a), b)
  <2>1. /\ b.x = 0 /\ b.y = 0 /\ b.width \in Nat /\ b.width >= MIN_FLOAT_WIDTH
        /\ b.height \in Nat /\ b.height >= MIN_FLOAT_HEIGHT
    BY AreaIsRect
  <2>2. /\ r.x + r.width <= b.width /\ r.y + r.height <= b.height
        /\ MIN_FLOAT_WIDTH <= r.width /\ MIN_FLOAT_HEIGHT <= r.height
    BY <1>9, <2>1 DEF Inside
  <2>3. x + w <= b.width /\ y + h <= b.height
    BY <1>2, <1>3, <1>5, <1>6, <2>1, <2>2
  <2>. QED
    BY <1>2, <1>3, <1>4, <1>5, <1>6, <2>1, <2>3 DEF Inside
<1>. QED
    BY <1>7, <1>8, <1>9

\* A new float is inside the host it is opened on.
LEMMA DefaultRectFits ==
    ASSUME NEW a \in Areas
    PROVE  default_rect(a) \in Rects /\ Inside(default_rect(a), a)
<1>. DEFINE w == (a.width * WidthPercent + 50) \div 100
            h == (a.height * HeightPercent + 50) \div 100
            x == a.x + Larger(a.width - w, 0) \div 2
            y == a.y + Larger(a.height - h, 0) \div 2
<1>1. a.x = 0 /\ a.y = 0 /\ a.width \in Nat /\ a.height \in Nat
    BY AreaIsRect
<1>2. a.width * WidthPercent \in Nat /\ a.height * HeightPercent \in Nat
    BY <1>1, FloatAssumption
<1>3. w \in Nat /\ h \in Nat
    BY <1>2
<1>4. default_rect(a) = clamp_rect(Rect(x, y, w, h), a)
    BY DEF default_rect
<1>. HIDE DEF w, h
<1>5. x \in Nat /\ y \in Nat
  <2>1. \A m \in Int : Larger(m, 0) \in Nat
    BY DEF Larger
  <2>2. \A m \in Nat : m \div 2 \in Nat
    OBVIOUS
  <2>3. Larger(a.width - w, 0) \in Nat /\ Larger(a.height - h, 0) \in Nat
    BY <1>1, <1>3, <2>1
  <2>4. Larger(a.width - w, 0) \div 2 \in Nat /\ Larger(a.height - h, 0) \div 2 \in Nat
    BY <2>2, <2>3
  <2>. QED
    BY <1>1, <2>4
<1>. HIDE DEF x, y
<1>6. /\ Rect(x, y, w, h).x \in Nat /\ Rect(x, y, w, h).y \in Nat
      /\ Rect(x, y, w, h).width \in Nat /\ Rect(x, y, w, h).height \in Nat
    BY <1>3, <1>5 DEF Rect
<1>. QED
    BY <1>4, <1>6, ClampRectFits

\* One axis of a resize gives a position and a size, whatever is dragged by how much.
LEMMA ResizeAxisIsNat ==
    ASSUME NEW at \in Nat, NEW size \in Nat, NEW first, NEW last,
           NEW delta \in Int, NEW start \in Nat, NEW extent \in Nat, NEW minimum \in Nat
    PROVE  /\ resize_axis(at, size, first, last, delta, start, extent, minimum).at \in Nat
           /\ resize_axis(at, size, first, last, delta, start, extent, minimum).size \in Nat \ {0}
<1>. DEFINE small == least(minimum, extent)
            end   == at + size
            low   == IF first THEN Smaller(Larger(at + delta, start), end - small) ELSE at
            high  == IF last THEN Larger(Smaller(end + delta, start + extent), low + small)
                     ELSE end
<1>1. small \in Int /\ end \in Int
    BY DEF least, Larger, Smaller
<1>2. resize_axis(at, size, first, last, delta, start, extent, minimum)
        = [at |-> Larger(low, 0), size |-> Larger(high - low, 1)]
    BY DEF resize_axis
<1>. HIDE DEF small, end
<1>3. low \in Int
    BY <1>1 DEF Larger, Smaller
<1>. HIDE DEF low
<1>4. high \in Int
    BY <1>1, <1>3 DEF Larger, Smaller
<1>. HIDE DEF high
<1>. QED
    BY <1>2, <1>3, <1>4 DEF Larger

\* A move or a resize of a rectangle gives a rectangle, inside the host or not.
LEMMA EditedIsRect ==
    ASSUME NEW r \in Rects, NEW edges, NEW motion \in Int \X Int, NEW a \in Areas
    PROVE  Edited(r, edges, motion, a) \in Rects
<1>1. /\ r.x \in Nat /\ r.y \in Nat /\ r.width \in Nat \ {0} /\ r.height \in Nat \ {0}
      /\ motion[1] \in Int /\ motion[2] \in Int
    BY DEF Rects
<1>2. a.x \in Nat /\ a.y \in Nat /\ a.width \in Nat /\ a.height \in Nat
    BY AreaIsRect
<1>3. CASE edges = {}
  <2>1. offset_coordinate(r.x, motion[1]) \in Nat /\ offset_coordinate(r.y, motion[2]) \in Nat
    BY <1>1 DEF offset_coordinate, clamp, Larger, Smaller
  <2>2. Edited(r, edges, motion, a) = [r EXCEPT !.x = offset_coordinate(@, motion[1]),
                                                !.y = offset_coordinate(@, motion[2])]
    BY <1>3 DEF Edited
  <2>. QED
    BY <2>1, <2>2 DEF Rects
<1>4. CASE edges # {}
  <2>. DEFINE h == resize_axis(r.x, r.width, "left" \in edges, "right" \in edges, motion[1],
                               a.x, a.width, MIN_FLOAT_WIDTH)
              v == resize_axis(r.y, r.height, "top" \in edges, "bottom" \in edges, motion[2],
                               a.y, a.height, MIN_FLOAT_HEIGHT)
  <2>1. MIN_FLOAT_WIDTH \in Nat /\ MIN_FLOAT_HEIGHT \in Nat
    BY FloatAssumption
  <2>2. h.at \in Nat /\ h.size \in Nat \ {0}
    BY ONLY <1>1, <1>2, <2>1, ResizeAxisIsNat
  <2>3. v.at \in Nat /\ v.size \in Nat \ {0}
    BY ONLY <1>1, <1>2, <2>1, ResizeAxisIsNat
  <2>4. Edited(r, edges, motion, a)
          = [x |-> h.at, y |-> v.at, width |-> h.size, height |-> v.size]
    BY <1>4 DEF Edited, resize_edges, Rect
  <2>. HIDE DEF h, v
  <2>. QED
    BY <2>2, <2>3, <2>4 DEF Rects
<1>. QED
    BY <1>3, <1>4

\* Floats with the same panes in the same places, only their rectangles changed.
LEMMA RectsOnly ==
    ASSUME NEW fs, FloatsOK(fs), NEW gs, gs = [i \in DOMAIN fs |-> gs[i]],
           \A i \in DOMAIN fs : /\ gs[i] \in FloatRecords
                                /\ gs[i].pane = fs[i].pane /\ gs[i].pinned = fs[i].pinned
    PROVE  FloatsOK(gs) /\ FloatIds(gs) = FloatIds(fs) /\ (gs = <<>> <=> fs = <<>>)
<1>1. Len(fs) \in Nat /\ DOMAIN fs = 1 .. Len(fs) /\ fs \in Seq(FloatRecords)
    BY LenProperties DEF FloatsOK
<1>2. DOMAIN gs = DOMAIN fs
    OBVIOUS
<1>3. gs \in [1 .. Len(fs) -> FloatRecords]
    BY <1>1
<1>4. gs \in Seq(FloatRecords) /\ Len(gs) = Len(fs)
    BY <1>1, <1>3
<1>5. gs = <<>> <=> fs = <<>>
    BY <1>1, <1>4, EmptySeq
<1>6. FloatIds(gs) = FloatIds(fs)
    BY <1>2 DEF FloatIds
<1>. QED
    BY <1>2, <1>4, <1>5, <1>6 DEF FloatsOK

\* set_rect changes one rectangle, which it clamps to the area.
LEMMA SetRectKeeps ==
    ASSUME NEW fs, FloatsOK(fs), NEW p, NEW rect, NEW a \in Areas,
           p \in FloatIds(fs) => rect \in Rects
    PROVE  LET gs == set_rect(fs, p, rect, a)
           IN  /\ FloatsOK(gs) /\ FloatIds(gs) = FloatIds(fs) /\ (gs = <<>> <=> fs = <<>>)
               /\ DOMAIN gs = DOMAIN fs
               /\ \A i \in DOMAIN fs : gs[i].pane = fs[i].pane /\ gs[i].pinned = fs[i].pinned
               /\ Fits(fs, a) => Fits(gs, a)
<1>. DEFINE gs == set_rect(fs, p, rect, a)
<1>1. gs = [i \in DOMAIN fs |-> gs[i]]
    BY DEF set_rect
<1>2. \A r \in Rects : clamp_rect(r, a) \in Rects /\ Inside(clamp_rect(r, a), a)
    BY ClampRectFits DEF Rects
<1>3. ASSUME NEW i \in DOMAIN fs
      PROVE  /\ gs[i] \in FloatRecords
             /\ gs[i].pane = fs[i].pane /\ gs[i].pinned = fs[i].pinned
             /\ Inside(fs[i].rect, a) => Inside(gs[i].rect, a)
  <2>1. fs[i] \in FloatRecords
    BY ElementOfSeq, LenProperties DEF FloatsOK
  <2>2. CASE fs[i].pane = p
    <3>1. clamp_rect(rect, a) \in Rects /\ Inside(clamp_rect(rect, a), a)
      BY <2>2, <1>2 DEF FloatIds
    <3>2. gs[i] = [fs[i] EXCEPT !.rect = clamp_rect(rect, a)]
      BY <2>2 DEF set_rect
    <3>. QED
      BY <3>1, <3>2, <2>1 DEF FloatRecords
  <2>3. CASE fs[i].pane # p
    BY <2>1, <2>3 DEF set_rect
  <2>. QED
    BY <2>2, <2>3
<1>. HIDE DEF gs
<1>4. DOMAIN gs = DOMAIN fs
    BY <1>1
<1>5. FloatsOK(gs) /\ FloatIds(gs) = FloatIds(fs) /\ (gs = <<>> <=> fs = <<>>)
    BY <1>1, <1>3, RectsOnly
<1>6. Fits(fs, a) => Fits(gs, a)
    BY <1>3, <1>4 DEF Fits
<1>. QED
    BY <1>3, <1>4, <1>5, <1>6 DEF gs

\* clamp_all fits every rectangle, and takes none out of a host it was in.
LEMMA ClampAllKeeps ==
    ASSUME NEW fs, FloatsOK(fs), NEW a \in Areas
    PROVE  LET gs == clamp_all(fs, a)
           IN  /\ FloatsOK(gs) /\ FloatIds(gs) = FloatIds(fs) /\ (gs = <<>> <=> fs = <<>>)
               /\ Fits(gs, a) /\ \A b \in Areas : Fits(fs, b) => Fits(gs, b)
<1>. DEFINE gs == clamp_all(fs, a)
<1>1. gs = [i \in DOMAIN fs |-> gs[i]]
    BY DEF clamp_all
<1>2. \A r \in Rects : /\ clamp_rect(r, a) \in Rects /\ Inside(clamp_rect(r, a), a)
                      /\ \A b \in Areas : Inside(r, b) => Inside(clamp_rect(r, a), b)
    BY ClampRectFits DEF Rects
<1>3. ASSUME NEW i \in DOMAIN fs
      PROVE  /\ gs[i] \in FloatRecords
             /\ gs[i].pane = fs[i].pane /\ gs[i].pinned = fs[i].pinned
             /\ Inside(gs[i].rect, a)
             /\ \A b \in Areas : Inside(fs[i].rect, b) => Inside(gs[i].rect, b)
  <2>1. fs[i] \in FloatRecords
    BY ElementOfSeq, LenProperties DEF FloatsOK
  <2>2. gs[i] = [fs[i] EXCEPT !.rect = clamp_rect(fs[i].rect, a)]
    BY DEF clamp_all
  <2>. QED
    BY <2>1, <2>2, <1>2 DEF FloatRecords
<1>. HIDE DEF gs
<1>4. DOMAIN gs = DOMAIN fs
    BY <1>1
<1>5. FloatsOK(gs) /\ FloatIds(gs) = FloatIds(fs) /\ (gs = <<>> <=> fs = <<>>)
    BY <1>1, <1>3, RectsOnly
<1>6. Fits(gs, a)
    BY <1>3, <1>4 DEF Fits
<1>7. ASSUME NEW b \in Areas, Fits(fs, b) PROVE Fits(gs, b)
    BY <1>3, <1>4, <1>7 DEF Fits
<1>. QED
    BY <1>5, <1>6, <1>7 DEF gs

\* remove takes one pane out of the layer and leaves the rest in order.
LEMMA WithoutKeeps ==
    ASSUME NEW fs, FloatsOK(fs), NEW p
    PROVE  LET gs == Without(fs, p)
           IN  /\ FloatsOK(gs) /\ FloatIds(gs) = FloatIds(fs) \ {p}
               /\ \A a : Fits(fs, a) => Fits(gs, a)
<1>1. Len(fs) \in Nat /\ DOMAIN fs = 1 .. Len(fs) /\ fs \in Seq(FloatRecords)
    BY LenProperties DEF FloatsOK
<1>2. CASE p \notin FloatIds(fs)
    BY <1>2 DEF Without
<1>3. CASE p \in FloatIds(fs)
  <2>. DEFINE at == float_index(fs, p)
              gs == RemoveAt(fs, at)
  <2>1. at \in 1 .. Len(fs) /\ fs[at].pane = p
    BY <1>1, <1>3 DEF float_index, FloatIds
  <2>. HIDE DEF at
  <2>2. /\ gs \in Seq(FloatRecords) /\ DOMAIN gs = 1 .. Len(fs) - 1
        /\ \A j \in DOMAIN gs :
             \E k \in DOMAIN fs \ {at} : gs[j] = fs[k] /\ k = IF j < at THEN j ELSE j + 1
        /\ \A k \in DOMAIN fs \ {at} : \E j \in DOMAIN gs : gs[j] = fs[k]
    <3>1. fs \in Seq(FloatRecords) /\ at \in 1 .. Len(fs)
      BY <1>1, <2>1
    <3>2. gs \in Seq(FloatRecords) /\ WithoutAt(fs, at, gs)
      BY <3>1, RemoveAtMembers
    <3>. HIDE DEF gs
    <3>. QED
      BY <3>2, <1>1, Zenon DEF WithoutAt
  <2>. HIDE DEF gs
  <2>3. \A k \in DOMAIN fs \ {at} : fs[k].pane # p
    BY <1>1, <2>1 DEF FloatsOK
  <2>4. FloatIds(gs) = FloatIds(fs) \ {p}
    BY <2>1, <2>2, <2>3 DEF FloatIds
  <2>5. ASSUME NEW i \in DOMAIN gs, NEW j \in DOMAIN gs
        PROVE  /\ gs[i].pane = gs[j].pane => i = j
               /\ i < j => (gs[i].pinned => gs[j].pinned)
    <3>1. PICK k \in DOMAIN fs \ {at} : gs[i] = fs[k] /\ k = IF i < at THEN i ELSE i + 1
      BY <2>2
    <3>2. PICK m \in DOMAIN fs \ {at} : gs[j] = fs[m] /\ m = IF j < at THEN j ELSE j + 1
      BY <2>2
    <3>3. i \in Int /\ j \in Int /\ at \in Int /\ k \in Int /\ m \in Int
      BY <1>1, <2>1, <2>2
    <3>4. (i < at /\ k = i) \/ (i >= at /\ k = i + 1)
      BY <3>1, <3>3
    <3>5. (j < at /\ m = j) \/ (j >= at /\ m = j + 1)
      BY <3>2, <3>3
    <3>6. (k = m => i = j) /\ (i < j => k < m)
      BY <3>3, <3>4, <3>5
    <3>. QED
      BY <3>1, <3>2, <3>6 DEF FloatsOK
  <2>6. \A a : Fits(fs, a) => Fits(gs, a)
    BY <2>2 DEF Fits
  <2>7. FloatsOK(gs)
    BY <2>2, <2>5 DEF FloatsOK
  <2>8. Without(fs, p) = gs
    BY <1>3 DEF Without, gs, at
  <2>. QED
    BY <2>4, <2>6, <2>7, <2>8
<1>. QED
    BY <1>2, <1>3

\* first_pinned_index parts the layer into its two classes.
LEMMA FirstPinnedParts ==
    ASSUME NEW fs, FloatsOK(fs)
    PROVE  LET at == first_pinned_index(fs)
           IN  /\ at \in 1 .. Len(fs) + 1
               /\ \A j \in DOMAIN fs : fs[j].pinned <=> at <= j
<1>1. Len(fs) \in Nat /\ DOMAIN fs = 1 .. Len(fs) /\ fs \in Seq(FloatRecords)
    BY LenProperties DEF FloatsOK
<1>2. CASE ~\E i \in DOMAIN fs : fs[i].pinned
    BY <1>1, <1>2 DEF first_pinned_index
<1>3. CASE \E i \in DOMAIN fs : fs[i].pinned
  <2>. DEFINE pins == {i \in DOMAIN fs : fs[i].pinned}
  <2>1. pins \subseteq Nat /\ pins # {}
    BY <1>1, <1>3
  <2>2. PICK x \in pins : \A y \in pins : x <= y
    BY <2>1, Smallest
  <2>3. \A j \in 1 .. x - 1 : j \in DOMAIN fs /\ j \notin pins
    BY <1>1, <2>2
  <2>4. fs[x].pinned /\ \A j \in 1 .. x - 1 : ~fs[j].pinned
    BY <2>2, <2>3
  <2>. DEFINE at == first_pinned_index(fs)
  <2>5. at = CHOOSE i \in DOMAIN fs : fs[i].pinned /\ \A j \in 1 .. i - 1 : ~fs[j].pinned
    BY <1>3 DEF first_pinned_index
  <2>6. at \in DOMAIN fs /\ fs[at].pinned /\ \A j \in 1 .. at - 1 : ~fs[j].pinned
    BY <2>2, <2>4, <2>5
  <2>. HIDE DEF at
  <2>7. ASSUME NEW j \in DOMAIN fs PROVE fs[j].pinned <=> at <= j
    <3>1. CASE j < at
      <4>1. j \in 1 .. at - 1 /\ ~(at <= j)
        BY <3>1, <1>1, <2>6
      <4>. QED
        BY <4>1, <2>6
    <3>2. CASE j = at
      BY <3>2, <2>6, <1>1
    <3>3. CASE at < j
      BY <3>3, <2>6, <1>1 DEF FloatsOK
    <3>. QED
      BY <3>1, <3>2, <3>3, <1>1, <2>6
  <2>. QED
    BY <1>1, <2>6, <2>7 DEF at
<1>. QED
    BY <1>2, <1>3

\* A float that is not in the layer, put between what may be below it and above it.
LEMMA InsertFloatKeeps ==
    ASSUME NEW fs, FloatsOK(fs), NEW f \in FloatRecords, f.pane \notin FloatIds(fs),
           NEW at \in 1 .. Len(fs) + 1,
           \A j \in DOMAIN fs : (j < at => (fs[j].pinned => f.pinned))
                             /\ (at <= j => (f.pinned => fs[j].pinned))
    PROVE  LET gs == InsertAt(fs, at, f)
           IN  /\ FloatsOK(gs) /\ gs # <<>> /\ FloatIds(gs) = FloatIds(fs) \cup {f.pane}
               /\ \A a : Fits(fs, a) /\ Inside(f.rect, a) => Fits(gs, a)
<1>1. Len(fs) \in Nat /\ DOMAIN fs = 1 .. Len(fs) /\ fs \in Seq(FloatRecords)
    BY LenProperties DEF FloatsOK
<1>. DEFINE gs == InsertAt(fs, at, f)
            n  == Len(fs)
<1>2. /\ gs \in Seq(FloatRecords) /\ Len(gs) = n + 1
      /\ \A j \in 1 .. n + 1 :
           gs[j] = IF j < at THEN fs[j] ELSE IF j = at THEN f ELSE fs[j - 1]
    BY ONLY <1>1, InsertAtPlaces, f \in FloatRecords, at \in 1 .. Len(fs) + 1
<1>. HIDE DEF gs
<1>3. DOMAIN gs = 1 .. n + 1 /\ gs # <<>> /\ at \in DOMAIN gs /\ gs[at] = f
    BY <1>1, <1>2, LenProperties, EmptySeq
<1>4. ASSUME NEW j \in DOMAIN gs, j # at
      PROVE  \E k \in DOMAIN fs : /\ gs[j] = fs[k]
                                  /\ (j < at /\ k = j) \/ (at < j /\ k = j - 1)
  <2>1. CASE j < at
    BY <2>1, <1>1, <1>2, <1>3
  <2>2. CASE at < j
    <3>1. j - 1 \in DOMAIN fs /\ ~(j < at) /\ j # at
      BY <2>2, <1>1, <1>3
    <3>2. gs[j] = fs[j - 1]
      BY <3>1, <1>2, <1>3
    <3>. QED
      BY <3>1, <3>2, <2>2
  <2>. QED
    BY <2>1, <2>2, <1>1, <1>3, <1>4
<1>5. ASSUME NEW k \in DOMAIN fs PROVE \E j \in DOMAIN gs : gs[j] = fs[k]
  <2>1. CASE k < at
    BY <2>1, <1>1, <1>2, <1>3
  <2>2. CASE ~(k < at)
    <3>1. k + 1 \in DOMAIN gs /\ ~(k + 1 < at) /\ k + 1 # at /\ (k + 1) - 1 = k
      BY <2>2, <1>1, <1>3
    <3>2. gs[k + 1] = fs[k]
      BY <3>1, <1>2, <1>3
    <3>. QED
      BY <3>1, <3>2
  <2>. QED
    BY <2>1, <2>2
<1>6. FloatIds(gs) = FloatIds(fs) \cup {f.pane}
  <2>1. ASSUME NEW p \in FloatIds(gs) PROVE p \in FloatIds(fs) \cup {f.pane}
    <3>1. PICK j \in DOMAIN gs : p = gs[j].pane
      BY DEF FloatIds
    <3>. QED
      BY <3>1, <1>3, <1>4 DEF FloatIds
  <2>2. ASSUME NEW p \in FloatIds(fs) PROVE p \in FloatIds(gs)
    <3>1. PICK k \in DOMAIN fs : p = fs[k].pane
      BY DEF FloatIds
    <3>2. PICK j \in DOMAIN gs : gs[j] = fs[k]
      BY <1>5
    <3>. QED
      BY <3>1, <3>2 DEF FloatIds
  <2>3. f.pane \in FloatIds(gs)
    BY <1>3 DEF FloatIds
  <2>. QED
    BY <2>1, <2>2, <2>3
<1>7. ASSUME NEW i \in DOMAIN gs, NEW j \in DOMAIN gs
      PROVE  /\ gs[i].pane = gs[j].pane => i = j
             /\ i < j => (gs[i].pinned => gs[j].pinned)
  <2>0. i \in Int /\ j \in Int /\ at \in Int
    BY <1>1, <1>3
  <2>1. \A k \in DOMAIN fs : fs[k].pane # f.pane
    BY DEF FloatIds
  <2>2. CASE i = at /\ j = at
    BY <2>2, <2>0
  <2>3. CASE i = at /\ j # at
    <3>1. PICK k \in DOMAIN fs : /\ gs[j] = fs[k]
                                 /\ (j < at /\ k = j) \/ (at < j /\ k = j - 1)
      BY <2>3, <1>4
    <3>2. i < j => at <= k
      BY <3>1, <2>0, <2>3
    <3>. QED
      BY <3>1, <3>2, <2>1, <2>3, <1>3
  <2>4. CASE i # at /\ j = at
    <3>1. PICK k \in DOMAIN fs : /\ gs[i] = fs[k]
                                 /\ (i < at /\ k = i) \/ (at < i /\ k = i - 1)
      BY <2>4, <1>4
    <3>2. i < j => k < at
      BY <3>1, <2>0, <2>4
    <3>. QED
      BY <3>1, <3>2, <2>1, <2>4, <1>3
  <2>5. CASE i # at /\ j # at
    <3>1. PICK k \in DOMAIN fs : /\ gs[i] = fs[k]
                                 /\ (i < at /\ k = i) \/ (at < i /\ k = i - 1)
      BY <2>5, <1>4
    <3>2. PICK m \in DOMAIN fs : /\ gs[j] = fs[m]
                                 /\ (j < at /\ m = j) \/ (at < j /\ m = j - 1)
      BY <2>5, <1>4
    <3>3. (k = m => i = j) /\ (i < j => k < m)
      BY <3>1, <3>2, <2>0
    <3>. QED
      BY <3>1, <3>2, <3>3 DEF FloatsOK
  <2>. QED
    BY <2>2, <2>3, <2>4, <2>5
<1>8. ASSUME NEW a, Fits(fs, a), Inside(f.rect, a) PROVE Fits(gs, a)
    BY <1>3, <1>4, <1>8 DEF Fits
<1>. QED
    BY <1>2, <1>3, <1>6, <1>7, <1>8 DEF FloatsOK, gs

\* get finds the float of a pane of the layer.
LEMMA GetFloat ==
    ASSUME NEW fs, FloatsOK(fs), NEW p \in FloatIds(fs)
    PROVE  /\ get(fs, p) \in FloatRecords /\ get(fs, p).pane = p /\ p \in PaneIds
           /\ \A a : Fits(fs, a) => Inside(get(fs, p).rect, a)
<1>1. Len(fs) \in Nat /\ DOMAIN fs = 1 .. Len(fs) /\ fs \in Seq(FloatRecords)
    BY LenProperties DEF FloatsOK
<1>. DEFINE at == float_index(fs, p)
<1>2. at \in DOMAIN fs /\ fs[at].pane = p
    BY DEF float_index, FloatIds
<1>. HIDE DEF at
<1>3. fs[at] \in FloatRecords
    BY <1>1, <1>2, ElementOfSeq
<1>4. get(fs, p) = fs[at]
    BY DEF get, at
<1>5. p \in PaneIds
    BY <1>2, <1>3 DEF FloatRecords
<1>. QED
    BY <1>2, <1>3, <1>4, <1>5 DEF Fits

\* insert puts the new float at the top of the ordinary class.
LEMMA InsertKeeps ==
    ASSUME NEW fs, FloatsOK(fs), NEW p \in PaneIds, p \notin FloatIds(fs), NEW a \in Areas
    PROVE  LET gs == insert(fs, p, a)
           IN  /\ FloatsOK(gs) /\ gs # <<>> /\ FloatIds(gs) = FloatIds(fs) \cup {p}
               /\ Fits(fs, a) => Fits(gs, a)
<1>. DEFINE f  == Float(p, default_rect(a), FALSE)
            at == first_pinned_index(fs)
<1>1. f \in FloatRecords /\ f.pane = p /\ Inside(f.rect, a) /\ f.pinned = FALSE
    BY DefaultRectFits DEF Float, FloatRecords
<1>2. at \in 1 .. Len(fs) + 1 /\ \A j \in DOMAIN fs : fs[j].pinned <=> at <= j
    BY FirstPinnedParts
<1>3. insert(fs, p, a) = InsertAt(fs, at, f)
    BY DEF insert
<1>. HIDE DEF f, at
<1>4. \A j \in DOMAIN fs : (j < at => (fs[j].pinned => f.pinned))
                        /\ (at <= j => (f.pinned => fs[j].pinned))
  <2>1. Len(fs) \in Nat /\ DOMAIN fs = 1 .. Len(fs)
    BY LenProperties DEF FloatsOK
  <2>. SUFFICES ASSUME NEW j \in DOMAIN fs
                PROVE  (j < at => ~fs[j].pinned) /\ ~f.pinned
    OBVIOUS
  <2>2. j \in Int /\ at \in Int
    BY <1>2, <2>1
  <2>. QED
    BY <1>1, <1>2, <2>2
<1>. QED
    BY <1>1, <1>2, <1>3, <1>4, InsertFloatKeeps

\* set_pinned moves the float to the top of the class it is put in.
LEMMA SetPinnedKeeps ==
    ASSUME NEW fs, FloatsOK(fs), NEW p \in FloatIds(fs), NEW pinned \in BOOLEAN
    PROVE  LET gs == set_pinned(fs, p, pinned)
           IN  /\ FloatsOK(gs) /\ gs # <<>> /\ FloatIds(gs) = FloatIds(fs)
               /\ \A a : Fits(fs, a) => Fits(gs, a)
<1>. DEFINE rest == Without(fs, p)
            at   == IF pinned THEN Len(rest) + 1 ELSE first_pinned_index(rest)
            f    == Float(p, get(fs, p).rect, pinned)
<1>1. FloatsOK(rest) /\ FloatIds(rest) = FloatIds(fs) \ {p} /\ \A a : Fits(fs, a) => Fits(rest, a)
    BY WithoutKeeps
<1>2. /\ f \in FloatRecords /\ f.pane = p /\ f.pinned = pinned
      /\ \A a : Fits(fs, a) => Inside(f.rect, a)
    BY GetFloat DEF Float, FloatRecords
<1>3. set_pinned(fs, p, pinned) = InsertAt(rest, at, f)
    BY DEF set_pinned
<1>. HIDE DEF rest, f
<1>4. Len(rest) \in Nat /\ DOMAIN rest = 1 .. Len(rest)
    BY <1>1, LenProperties DEF FloatsOK
<1>5. /\ at \in 1 .. Len(rest) + 1
      /\ \A j \in DOMAIN rest : (j < at => (rest[j].pinned => f.pinned))
                             /\ (at <= j => (f.pinned => rest[j].pinned))
  <2>1. CASE pinned
    BY <2>1, <1>2, <1>4
  <2>2. CASE ~pinned
    <3>1. at \in 1 .. Len(rest) + 1 /\ \A j \in DOMAIN rest : rest[j].pinned <=> at <= j
      BY <2>2, <1>1, FirstPinnedParts
    <3>. HIDE DEF at
    <3>. QED
      BY <3>1, <2>2, <1>2, <1>4
  <2>. QED
    BY <2>1, <2>2
<1>. HIDE DEF at
<1>6. /\ FloatsOK(InsertAt(rest, at, f)) /\ InsertAt(rest, at, f) # <<>>
      /\ FloatIds(InsertAt(rest, at, f)) = FloatIds(rest) \cup {f.pane}
      /\ \A a : Fits(rest, a) /\ Inside(f.rect, a) => Fits(InsertAt(rest, at, f), a)
    BY <1>1, <1>2, <1>5, InsertFloatKeeps
<1>. QED
    BY <1>1, <1>2, <1>3, <1>6

\* raise moves a float within its class, and leaves a layer without it alone.
LEMMA RaiseKeeps ==
    ASSUME NEW fs, FloatsOK(fs), NEW p
    PROVE  LET gs == raise(fs, p)
           IN  /\ FloatsOK(gs) /\ FloatIds(gs) = FloatIds(fs) /\ (gs = <<>> <=> fs = <<>>)
               /\ \A a : Fits(fs, a) => Fits(gs, a)
<1>1. CASE p \notin FloatIds(fs)
    BY <1>1 DEF raise
<1>2. CASE p \in FloatIds(fs)
  <2>1. get(fs, p).pinned \in BOOLEAN
    BY <1>2, GetFloat DEF FloatRecords
  <2>2. raise(fs, p) = set_pinned(fs, p, get(fs, p).pinned)
    BY <1>2 DEF raise
  <2>3. fs # <<>>
    BY <1>2 DEF FloatIds
  <2>. QED
    BY <1>2, <2>1, <2>2, <2>3, SetPinnedKeeps
<1>. QED
    BY <1>1, <1>2

----------------------------------------------------------------------------
(* The tiled tree, as its leaves. *)

\* split puts one leaf into the tree.
LEMMA SplitKeeps ==
    ASSUME NEW tree \in Seq(PaneIds), NEW p \in ToSet(tree), NEW new \in PaneIds
    PROVE  LET u == split_leaf(tree, p, new)
           IN  /\ u \in Seq(PaneIds) /\ u # <<>> /\ ToSet(u) = ToSet(tree) \cup {new}
               /\ IsInjective(tree) /\ new \notin ToSet(tree) => IsInjective(u)
<1>. DEFINE at == 1 + leaf_index(tree, p)
<1>1. Len(tree) \in Nat /\ DOMAIN tree = 1 .. Len(tree)
    BY LenProperties
<1>2. leaf_index(tree, p) \in DOMAIN tree
    BY DEF leaf_index, ToSet
<1>3. at \in 1 .. Len(tree) + 1
    BY <1>1, <1>2
<1>4. split_leaf(tree, p, new) = InsertAt(tree, at, new)
    BY DEF split_leaf
<1>. HIDE DEF at
<1>5. /\ InsertAt(tree, at, new) \in Seq(PaneIds) /\ InsertAt(tree, at, new) # <<>>
      /\ ToSet(InsertAt(tree, at, new)) = ToSet(tree) \cup {new}
      /\ IsInjective(tree) /\ new \notin ToSet(tree) => IsInjective(InsertAt(tree, at, new))
    BY <1>3, InsertAtMembers
<1>. QED
    BY <1>4, <1>5

\* close takes one leaf out of the tree.
LEMMA WithoutLeafKeeps ==
    ASSUME NEW tree \in Seq(PaneIds), IsInjective(tree), NEW p
    PROVE  LET u == WithoutLeaf(tree, p)
           IN  u \in Seq(PaneIds) /\ IsInjective(u) /\ ToSet(u) = ToSet(tree) \ {p}
<1>1. CASE p \notin ToSet(tree)
    BY <1>1 DEF WithoutLeaf
<1>2. CASE p \in ToSet(tree)
  <2>. DEFINE at == leaf_index(tree, p)
  <2>1. at \in DOMAIN tree /\ tree[at] = p
    BY <1>2 DEF leaf_index, ToSet
  <2>. HIDE DEF at
  <2>2. at \in 1 .. Len(tree)
    BY <2>1, LenProperties
  <2>3. WithoutLeaf(tree, p) = RemoveAt(tree, at)
    BY <1>2 DEF WithoutLeaf, at
  <2>4. /\ RemoveAt(tree, at) \in Seq(PaneIds) /\ IsInjective(RemoveAt(tree, at))
        /\ ToSet(RemoveAt(tree, at)) = ToSet(tree) \ {tree[at]}
    BY <2>2, RemoveAtMembers
  <2>. QED
    BY <2>1, <2>3, <2>4
<1>. QED
    BY <1>1, <1>2

----------------------------------------------------------------------------
(* One tab. *)

\* A tab whose panes are laid out once, in one class; and one that also has a pane.
TabForm(t) ==
    /\ t \in TabRecords
    /\ IsInjective(t.tree)
    /\ FloatsOK(t.floats)
    /\ ToSet(t.tree) \cap FloatIds(t.floats) = {}

TabOK(t) == TabForm(t) /\ ~is_empty(t)

\* A tab, a tree or a layer is empty when it has no pane; NoPane is none.
LEMMA EmptyTab ==
    ASSUME NEW t, TabForm(t)
    PROVE  /\ is_empty(t) <=> TabPanes(t) = {}
           /\ TabPanes(t) \subseteq PaneIds /\ NoPane \notin TabPanes(t)
           /\ t.tree = <<>> <=> ToSet(t.tree) = {}
           /\ t.floats = <<>> <=> FloatIds(t.floats) = {}
<1>1. t.tree \in Seq(PaneIds) /\ t.floats \in Seq(FloatRecords)
    BY DEF TabForm, TabRecords, FloatsOK
<1>2. /\ Len(t.tree) \in Nat /\ DOMAIN t.tree = 1 .. Len(t.tree)
      /\ Len(t.floats) \in Nat /\ DOMAIN t.floats = 1 .. Len(t.floats)
    BY <1>1, LenProperties
<1>3. (t.tree # <<>> => 1 \in DOMAIN t.tree) /\ (t.floats # <<>> => 1 \in DOMAIN t.floats)
    BY <1>1, <1>2, EmptySeq
<1>4. DOMAIN <<>> = {}
    OBVIOUS
<1>5. (t.tree = <<>> <=> ToSet(t.tree) = {}) /\ (t.floats = <<>> <=> FloatIds(t.floats) = {})
    BY <1>3, <1>4 DEF ToSet, FloatIds
<1>6. ToSet(t.tree) \subseteq PaneIds
    BY <1>1, <1>2, ElementOfSeq DEF ToSet
<1>7. FloatIds(t.floats) \subseteq PaneIds
    BY GetFloat DEF TabForm
<1>8. NoPane \notin PaneIds
    BY DEF NoPane, PaneIds
<1>. QED
    BY <1>5, <1>6, <1>7, <1>8 DEF is_empty, TabPanes

\* The fallback is a pane of the tab, and there is one when there are tiles.
LEMMA FallbackIsPane ==
    ASSUME NEW t, TabForm(t)
    PROVE  /\ fallback_focus(t) \in TabPanes(t) \cup {NoPane}
           /\ t.tree # <<>> => fallback_focus(t) \in TabPanes(t)
<1>1. t.tree \in Seq(PaneIds) /\ t.floats \in Seq(FloatRecords)
    BY DEF TabForm, TabRecords, FloatsOK
<1>2. CASE visible(t) # {}
  <2>1. Len(t.floats) \in Nat /\ DOMAIN t.floats = 1 .. Len(t.floats)
    BY <1>1, LenProperties
  <2>2. visible(t) \subseteq 1 .. Len(t.floats)
    BY <2>1 DEF visible
  <2>3. Max(visible(t)) \in DOMAIN t.floats
    BY <1>2, <2>1, <2>2, MaxIsMember
  <2>4. fallback_focus(t) = t.floats[Max(visible(t))].pane
    BY <1>2 DEF fallback_focus
  <2>. QED
    BY <2>3, <2>4 DEF TabPanes, FloatIds
<1>3. CASE visible(t) = {} /\ t.last_focused_tiled \in ToSet(t.tree)
    BY <1>3 DEF fallback_focus, TabPanes
<1>4. CASE visible(t) = {} /\ t.last_focused_tiled \notin ToSet(t.tree) /\ t.tree # <<>>
  <2>1. Head(t.tree) = t.tree[1] /\ 1 \in DOMAIN t.tree
    BY <1>1, <1>4, HeadTailProperties, LenProperties, EmptySeq
  <2>2. fallback_focus(t) = Head(t.tree)
    BY <1>4 DEF fallback_focus
  <2>. QED
    BY <2>1, <2>2 DEF TabPanes, ToSet
<1>5. CASE visible(t) = {} /\ t.last_focused_tiled \notin ToSet(t.tree) /\ t.tree = <<>>
    BY <1>5 DEF fallback_focus
<1>. QED
    BY <1>2, <1>3, <1>4, <1>5

\* What a tab keeps when only rectangles, the order of its floats, its focus and
\* its flags change.
Redrawn(t, u) ==
    /\ TabForm(u)
    /\ u.id = t.id /\ u.tree = t.tree
    /\ FloatIds(u.floats) = FloatIds(t.floats)
    /\ \A a : Fits(t.floats, a) => Fits(u.floats, a)

\* set_focus moves the focus and raises a float, and nothing else.
LEMMA SetFocusKeeps ==
    ASSUME NEW t, TabForm(t), NEW p \in PaneIds
    PROVE  Redrawn(t, set_focus(t, p)) /\ set_focus(t, p).focused = p
           /\ set_focus(t, p).zoomed = t.zoomed
<1>1. CASE p \in ToSet(t.tree)
  <2>1. set_focus(t, p) = [t EXCEPT !.focused = p, !.last_focused_tiled = p]
    BY <1>1 DEF set_focus
  <2>. QED
    BY <2>1 DEF TabForm, TabRecords, Redrawn
<1>2. CASE p \notin ToSet(t.tree)
  <2>. DEFINE gs == raise(t.floats, p)
  <2>1. set_focus(t, p) = [t EXCEPT !.focused = p, !.floats = gs]
    BY <1>2 DEF set_focus
  <2>2. FloatsOK(gs) /\ FloatIds(gs) = FloatIds(t.floats) /\ \A a : Fits(t.floats, a) => Fits(gs, a)
    BY RaiseKeeps DEF TabForm
  <2>3. gs \in Seq(FloatRecords)
    BY <2>2 DEF FloatsOK
  <2>. HIDE DEF gs
  <2>. QED
    BY <2>1, <2>2, <2>3 DEF TabForm, TabRecords, Redrawn
<1>. QED
    BY <1>1, <1>2

\* close_pane takes the pane out of its tab, and no other pane; the focus it moves
\* goes to a pane of the tab.
LEMMA ClosedInKeeps ==
    ASSUME NEW t, TabForm(t), NEW p \in PaneIds
    PROVE  LET u == ClosedIn(t, p)
           IN  /\ TabForm(u) /\ u.id = t.id
               /\ FloatIds(u.floats) = FloatIds(t.floats) \ {p}
               /\ ToSet(u.tree) = ToSet(t.tree) \ {p}
               /\ \A a : Fits(t.floats, a) => Fits(u.floats, a)
               /\ u.zoomed = IF t.zoomed = p THEN NoPane ELSE t.zoomed
               /\ u.tree # <<>> => \/ u.focused \in TabPanes(u)
                                   \/ u.focused = t.focused /\ t.focused # p
<1>. DEFINE tree == IF p \in FloatIds(t.floats) THEN t.tree ELSE WithoutLeaf(t.tree, p)
            v == [t EXCEPT
                    !.floats = Without(t.floats, p),
                    !.tree = tree,
                    !.zoomed = IF t.zoomed = p THEN NoPane ELSE t.zoomed,
                    !.last_focused_tiled =
                        IF t.last_focused_tiled = p THEN NoPane ELSE t.last_focused_tiled]
<1>1. /\ FloatsOK(Without(t.floats, p)) /\ FloatIds(Without(t.floats, p)) = FloatIds(t.floats) \ {p}
      /\ \A a : Fits(t.floats, a) => Fits(Without(t.floats, p), a)
    BY WithoutKeeps DEF TabForm
<1>2. tree \in Seq(PaneIds) /\ IsInjective(tree) /\ ToSet(tree) = ToSet(t.tree) \ {p}
  <2>1. t.tree \in Seq(PaneIds) /\ IsInjective(t.tree)
    BY DEF TabForm, TabRecords
  <2>2. CASE p \in FloatIds(t.floats)
    BY <2>1, <2>2 DEF TabForm
  <2>3. CASE p \notin FloatIds(t.floats)
    BY <2>1, <2>3, WithoutLeafKeeps
  <2>. QED
    BY <2>2, <2>3
<1>3. ClosedIn(t, p) = IF t.focused = p /\ fallback_focus(v) # NoPane
                       THEN set_focus(v, fallback_focus(v)) ELSE v
    BY DEF ClosedIn
<1>. HIDE DEF tree
<1>4. Without(t.floats, p) \in Seq(FloatRecords)
    BY <1>1 DEF FloatsOK
<1>5. /\ v \in TabRecords /\ v.id = t.id /\ v.tree = tree /\ v.floats = Without(t.floats, p)
      /\ v.focused = t.focused /\ v.zoomed = IF t.zoomed = p THEN NoPane ELSE t.zoomed
    BY <1>2, <1>4 DEF TabForm, TabRecords
<1>. HIDE DEF v
<1>6. TabForm(v)
    BY <1>1, <1>2, <1>5 DEF TabForm
<1>7. CASE t.focused = p /\ fallback_focus(v) # NoPane
  <2>1. fallback_focus(v) \in TabPanes(v) /\ fallback_focus(v) \in PaneIds
    BY <1>6, <1>7, FallbackIsPane, EmptyTab
  <2>. DEFINE u == set_focus(v, fallback_focus(v))
  <2>2. Redrawn(v, u) /\ u.focused = fallback_focus(v) /\ u.zoomed = v.zoomed
    BY <1>6, <2>1, SetFocusKeeps
  <2>3. ClosedIn(t, p) = u
    BY <1>3, <1>7
  <2>. HIDE DEF u
  <2>. QED
    BY <1>1, <1>2, <1>5, <2>1, <2>2, <2>3 DEF Redrawn, TabPanes
<1>8. CASE ~(t.focused = p /\ fallback_focus(v) # NoPane)
  <2>1. ClosedIn(t, p) = v
    BY <1>3, <1>8
  <2>2. v.tree # <<>> => fallback_focus(v) # NoPane
    BY <1>6, FallbackIsPane, EmptyTab
  <2>. QED
    BY <1>1, <1>2, <1>5, <1>6, <1>8, <2>1, <2>2
<1>. QED
    BY <1>7, <1>8

----------------------------------------------------------------------------
(* The tabs. *)

\* The tabs of a session: each sound, with its own identifier and its own panes.
TabsOK(ts) ==
    /\ ts \in Seq(TabRecords)
    /\ \A i \in DOMAIN ts : TabOK(ts[i])
    /\ \A i, j \in DOMAIN ts :
         i # j => ts[i].id # ts[j].id /\ TabPanes(ts[i]) \cap TabPanes(ts[j]) = {}

\* Every float of every tab is.
AllFit(ts, a) == \A i \in DOMAIN ts : Fits(ts[i].floats, a)

\* FocusSound, but for panes of Y, which the tab may have lost.
FocusWithin(t, Y) ==
    t.tree # <<>> => t.focused \in TabPanes(t) \cup Y /\ t.zoomed \in TabPanes(t) \cup {NoPane} \cup Y

\* u is the tab t after an event that took none of its panes but those of Y, and
\* gave it none but those of new.
KeptTab(t, u, Y, new, a) ==
    /\ TabOK(u)
    /\ u.id = t.id
    /\ FloatIds(t.floats) \subseteq FloatIds(u.floats)
    /\ ToSet(t.tree) \subseteq ToSet(u.tree) \cup Y
    /\ TabPanes(u) \subseteq TabPanes(t) \cup new
    /\ Fits(t.floats, a) => Fits(u.floats, a)
    /\ \A Z : Y \subseteq Z /\ FocusWithin(t, Z) => FocusWithin(u, Z)

\* The same for all tabs, none of which comes or goes.
Kept(ts, us, Y, new, a) ==
    /\ TabsOK(us)
    /\ DOMAIN us = DOMAIN ts
    /\ \A i \in DOMAIN ts : KeptTab(ts[i], us[i], Y, new, a)

\* A tab left alone is kept.
LEMMA KeptTabSelf ==
    ASSUME NEW t, TabOK(t), NEW Y, NEW a
    PROVE  KeptTab(t, t, Y, {}, a)
BY DEF KeptTab

\* Tabs left alone are kept.
LEMMA KeptSelf ==
    ASSUME NEW ts, TabsOK(ts), NEW Y, NEW a
    PROVE  Kept(ts, ts, Y, {}, a)
BY KeptTabSelf DEF Kept, TabsOK

\* Tabs kept twice are kept: a rollback, then an event that takes nothing more.
LEMMA KeptTrans ==
    ASSUME NEW ts, NEW us, NEW ws, NEW Y, NEW new, NEW a,
           Kept(ts, us, Y, {}, a), Kept(us, ws, Y, new, a)
    PROVE  Kept(ts, ws, Y, new, a)
<1>1. ASSUME NEW i \in DOMAIN ts PROVE KeptTab(ts[i], ws[i], Y, new, a)
  <2>1. KeptTab(ts[i], us[i], Y, {}, a) /\ KeptTab(us[i], ws[i], Y, new, a)
    BY DEF Kept
  <2>. QED
    BY <2>1 DEF KeptTab
<1>. QED
    BY <1>1 DEF Kept

\* Tabs that lost nothing lost nothing but panes of Y.
LEMMA KeptWeaken ==
    ASSUME NEW ts, NEW us, NEW Y, NEW new, NEW a, Kept(ts, us, {}, new, a)
    PROVE  Kept(ts, us, Y, new, a)
<1>1. ASSUME NEW i \in DOMAIN ts PROVE KeptTab(ts[i], us[i], Y, new, a)
  <2>1. KeptTab(ts[i], us[i], {}, new, a)
    BY DEF Kept
  <2>. QED
    BY <2>1 DEF KeptTab
<1>. QED
    BY <1>1 DEF Kept

\* The panes laid out before and after, as sets.
LEMMA KeptOwned ==
    ASSUME NEW ts, NEW us, NEW Y, NEW new, NEW a, Kept(ts, us, Y, new, a)
    PROVE  /\ Owned(ts) \subseteq Owned(us) \cup Y
           /\ Owned(us) \subseteq Owned(ts) \cup new
<1>1. \A i \in DOMAIN ts : /\ TabPanes(ts[i]) \subseteq TabPanes(us[i]) \cup Y
                           /\ TabPanes(us[i]) \subseteq TabPanes(ts[i]) \cup new
    BY DEF Kept, KeptTab, TabPanes
<1>2. DOMAIN us = DOMAIN ts
    BY DEF Kept
<1>. QED
    BY <1>1, <1>2 DEF Owned

\* Tabs rewritten one by one without new panes.
LEMMA PointwiseKept ==
    ASSUME NEW ts, TabsOK(ts), NEW us, us = [i \in DOMAIN ts |-> us[i]], NEW Y, NEW a,
           \A i \in DOMAIN ts : KeptTab(ts[i], us[i], Y, {}, a)
    PROVE  Kept(ts, us, Y, {}, a)
<1>1. DOMAIN us = DOMAIN ts
    OBVIOUS
<1>2. \A i \in DOMAIN ts : /\ TabOK(us[i]) /\ us[i] \in TabRecords /\ us[i].id = ts[i].id
                           /\ TabPanes(us[i]) \subseteq TabPanes(ts[i])
    BY DEF KeptTab, TabOK, TabForm
<1>3. us \in Seq(TabRecords)
  <2>1. Len(ts) \in Nat /\ DOMAIN ts = 1 .. Len(ts)
    BY LenProperties DEF TabsOK
  <2>2. us \in [1 .. Len(ts) -> TabRecords]
    BY <1>2, <2>1
  <2>. QED
    BY <2>1, <2>2
<1>4. \A i, j \in DOMAIN us :
         i # j => us[i].id # us[j].id /\ TabPanes(us[i]) \cap TabPanes(us[j]) = {}
  <2>. SUFFICES ASSUME NEW i \in DOMAIN ts, NEW j \in DOMAIN ts, i # j
                PROVE  us[i].id # us[j].id /\ TabPanes(us[i]) \cap TabPanes(us[j]) = {}
    BY <1>1
  <2>1. ts[i].id # ts[j].id /\ TabPanes(ts[i]) \cap TabPanes(ts[j]) = {}
    BY DEF TabsOK
  <2>. QED
    BY <2>1, <1>2
<1>5. TabsOK(us)
    BY <1>1, <1>2, <1>3, <1>4 DEF TabsOK
<1>. QED
    BY <1>1, <1>5 DEF Kept

\* One tab rewritten, with new panes that no tab has.
LEMMA ReplaceKept ==
    ASSUME NEW ts, TabsOK(ts), NEW k \in DOMAIN ts, NEW u, NEW Y, NEW new, NEW a,
           KeptTab(ts[k], u, Y, new, a), new \cap Owned(ts) = {}
    PROVE  Kept(ts, [ts EXCEPT ![k] = u], Y, new, a)
<1>. DEFINE us == [ts EXCEPT ![k] = u]
<1>1. /\ DOMAIN us = DOMAIN ts /\ us[k] = u
      /\ \A i \in DOMAIN ts : i # k => us[i] = ts[i]
    BY DEF TabsOK
<1>2. u \in TabRecords
    BY DEF KeptTab, TabOK, TabForm
<1>3. us \in Seq(TabRecords)
    BY <1>2, ExceptSeq, LenProperties DEF TabsOK
<1>. HIDE DEF us
<1>4. TabOK(u) /\ u.id = ts[k].id /\ TabPanes(u) \subseteq TabPanes(ts[k]) \cup new
    BY DEF KeptTab
<1>5. \A i \in DOMAIN ts : TabPanes(ts[i]) \cap new = {}
    BY DEF Owned
<1>6. TabsOK(us)
  <2>1. ASSUME NEW i \in DOMAIN ts, NEW j \in DOMAIN ts, i # j
        PROVE  us[i].id # us[j].id /\ TabPanes(us[i]) \cap TabPanes(us[j]) = {}
    <3>1. ts[i].id # ts[j].id /\ TabPanes(ts[i]) \cap TabPanes(ts[j]) = {}
      BY <2>1 DEF TabsOK
    <3>2. CASE i # k /\ j # k
      BY <3>1, <3>2, <1>1
    <3>3. CASE i = k
      BY <3>1, <3>3, <2>1, <1>1, <1>4, <1>5
    <3>4. CASE j = k
      BY <3>1, <3>4, <2>1, <1>1, <1>4, <1>5
    <3>. QED
      BY <3>2, <3>3, <3>4
  <2>2. \A i \in DOMAIN ts : TabOK(us[i])
    BY <1>1, <1>4 DEF TabsOK
  <2>. QED
    BY <1>1, <1>3, <2>1, <2>2 DEF TabsOK
<1>7. ASSUME NEW i \in DOMAIN ts PROVE KeptTab(ts[i], us[i], Y, new, a)
  <2>1. CASE i = k
    BY <2>1, <1>1
  <2>2. CASE i # k
    <3>1. TabOK(ts[i]) /\ us[i] = ts[i]
      BY <2>2, <1>1 DEF TabsOK
    <3>. QED
      BY <3>1 DEF KeptTab
  <2>. QED
    BY <2>1, <2>2
<1>. QED
    BY <1>1, <1>6, <1>7 DEF Kept, us

\* Redrawing keeps a tab when it leaves a sound focus and zoom sound.
LEMMA RedrawnKept ==
    ASSUME NEW t, TabOK(t), NEW u, Redrawn(t, u), NEW a,
           \A Z : FocusWithin(t, Z) => FocusWithin(u, Z)
    PROVE  KeptTab(t, u, {}, {}, a)
<1>1. TabPanes(u) = TabPanes(t)
    BY DEF Redrawn, TabPanes
<1>2. TabForm(u) /\ TabForm(t) /\ ~is_empty(t)
    BY DEF Redrawn, TabOK
<1>3. TabOK(u)
    BY <1>1, <1>2, EmptyTab DEF TabOK
<1>. QED
    BY <1>1, <1>3 DEF KeptTab, Redrawn

\* The same for one tab, when neither change takes a pane.
LEMMA KeptTabTrans ==
    ASSUME NEW t, NEW u, NEW v, NEW new, NEW a, KeptTab(t, u, {}, {}, a), KeptTab(u, v, {}, new, a)
    PROVE  KeptTab(t, v, {}, new, a)
BY DEF KeptTab

\* set_focus on a pane of the tab, or on the pane it zooms.
LEMMA FocusTab ==
    ASSUME NEW t, TabOK(t), NEW p \in PaneIds, p \in TabPanes(t) \/ p = t.zoomed, NEW a
    PROVE  KeptTab(t, set_focus(t, p), {}, {}, a)
<1>. DEFINE u == set_focus(t, p)
<1>1. Redrawn(t, u) /\ u.focused = p /\ u.zoomed = t.zoomed
    BY SetFocusKeeps DEF TabOK
<1>. HIDE DEF u
<1>2. TabPanes(u) = TabPanes(t) /\ u.tree = t.tree
    BY <1>1 DEF Redrawn, TabPanes
<1>3. p # NoPane
    BY DEF NoPane, PaneIds
<1>4. \A Z : FocusWithin(t, Z) => FocusWithin(u, Z)
    BY <1>1, <1>2, <1>3 DEF FocusWithin
<1>5. KeptTab(t, u, {}, {}, a)
    BY <1>1, <1>4, RedrawnKept
<1>. QED
    BY <1>5 DEF u

\* The flags of a tab: the zoom goes, stays or comes to the focused pane.
LEMMA FlagsTab ==
    ASSUME NEW t, TabOK(t), NEW visibility \in BOOLEAN,
           NEW zoom \in {t.zoomed, NoPane, t.focused}, NEW a
    PROVE  KeptTab(t, [t EXCEPT !.ordinary_visible = visibility, !.zoomed = zoom], {}, {}, a)
<1>. DEFINE u == [t EXCEPT !.ordinary_visible = visibility, !.zoomed = zoom]
<1>1. t \in TabRecords
    BY DEF TabOK, TabForm
<1>2. /\ u \in TabRecords /\ u.tree = t.tree /\ u.floats = t.floats /\ u.id = t.id
      /\ u.focused = t.focused /\ u.zoomed = zoom
    BY <1>1 DEF TabRecords
<1>. HIDE DEF u
<1>3. Redrawn(t, u)
    BY <1>2 DEF Redrawn, TabOK, TabForm
<1>4. \A Z : FocusWithin(t, Z) => FocusWithin(u, Z)
    BY <1>2 DEF FocusWithin, TabPanes
<1>5. KeptTab(t, u, {}, {}, a)
    BY <1>3, <1>4, RedrawnKept
<1>. QED
    BY <1>5 DEF u

\* set_pinned on a float of the tab (toggle_pane_pinned).
LEMMA PinTab ==
    ASSUME NEW t, TabOK(t), NEW p \in FloatIds(t.floats), NEW pinned \in BOOLEAN, NEW a
    PROVE  KeptTab(t, [t EXCEPT !.floats = set_pinned(t.floats, p, pinned)], {}, {}, a)
<1>. DEFINE gs == set_pinned(t.floats, p, pinned)
            u  == [t EXCEPT !.floats = gs]
<1>1. FloatsOK(gs) /\ FloatIds(gs) = FloatIds(t.floats) /\ \A b : Fits(t.floats, b) => Fits(gs, b)
    BY SetPinnedKeeps DEF TabOK, TabForm
<1>. HIDE DEF gs
<1>2. gs \in Seq(FloatRecords) /\ t \in TabRecords
    BY <1>1 DEF FloatsOK, TabOK, TabForm
<1>3. /\ u \in TabRecords /\ u.tree = t.tree /\ u.floats = gs /\ u.id = t.id
      /\ u.focused = t.focused /\ u.zoomed = t.zoomed
    BY <1>2 DEF TabRecords
<1>. HIDE DEF u
<1>4. Redrawn(t, u)
    BY <1>1, <1>3 DEF Redrawn, TabOK, TabForm
<1>5. \A Z : FocusWithin(t, Z) => FocusWithin(u, Z)
    BY <1>1, <1>3 DEF FocusWithin, TabPanes
<1>6. KeptTab(t, u, {}, {}, a)
    BY <1>4, <1>5, RedrawnKept
<1>. QED
    BY <1>6 DEF u, gs

\* A new pane in a tab: grown is the tab with the pane, before the focus goes to it.
LEMMA GrownTab ==
    ASSUME NEW t, TabOK(t), NEW new \in PaneIds, NEW grown, TabForm(grown), NEW a,
           grown.id = t.id, FloatIds(t.floats) \subseteq FloatIds(grown.floats),
           ToSet(t.tree) \subseteq ToSet(grown.tree),
           TabPanes(grown) = TabPanes(t) \cup {new},
           t.tree = <<>> => grown.tree = <<>>,
           grown.zoomed = t.zoomed, Fits(t.floats, a) => Fits(grown.floats, a)
    PROVE  /\ KeptTab(t, set_focus(grown, new), {}, {new}, a)
           /\ new \in TabPanes(set_focus(grown, new))
<1>. DEFINE u == set_focus(grown, new)
<1>1. Redrawn(grown, u) /\ u.focused = new /\ u.zoomed = grown.zoomed
    BY SetFocusKeeps
<1>. HIDE DEF u
<1>2. TabPanes(u) = TabPanes(t) \cup {new} /\ u.tree = grown.tree
    BY <1>1 DEF Redrawn, TabPanes
<1>3. TabOK(u)
    BY <1>1, <1>2, EmptyTab DEF TabOK, Redrawn
<1>4. \A Z : FocusWithin(t, Z) => FocusWithin(u, Z)
    BY <1>1, <1>2 DEF FocusWithin
<1>5. KeptTab(t, u, {}, {new}, a)
    BY <1>1, <1>2, <1>3, <1>4 DEF KeptTab, Redrawn
<1>. QED
    BY <1>2, <1>5 DEF u

\* A split of a tile, which the new pane is put next to and focused.
LEMMA SplitTab ==
    ASSUME NEW t, TabOK(t), NEW p \in ToSet(t.tree), NEW new \in PaneIds, new \notin TabPanes(t), NEW a
    PROVE  LET u == set_focus([t EXCEPT !.tree = split_leaf(t.tree, p, new)], new)
           IN  KeptTab(t, u, {}, {new}, a) /\ new \in TabPanes(u)
<1>. DEFINE tree  == split_leaf(t.tree, p, new)
            grown == [t EXCEPT !.tree = tree]
<1>1. t \in TabRecords /\ t.tree \in Seq(PaneIds) /\ IsInjective(t.tree) /\ new \notin ToSet(t.tree)
    BY DEF TabOK, TabForm, TabRecords, TabPanes
<1>2. tree \in Seq(PaneIds) /\ ToSet(tree) = ToSet(t.tree) \cup {new} /\ IsInjective(tree)
    BY <1>1, SplitKeeps
<1>. HIDE DEF tree
<1>3. /\ grown \in TabRecords /\ grown.tree = tree /\ grown.floats = t.floats /\ grown.id = t.id
      /\ grown.zoomed = t.zoomed
    BY <1>1, <1>2 DEF TabRecords
<1>. HIDE DEF grown
<1>4. TabForm(grown) /\ TabPanes(grown) = TabPanes(t) \cup {new}
    BY <1>2, <1>3 DEF TabForm, TabOK, TabPanes
<1>5. t.tree # <<>>
    BY EmptyTab DEF TabOK
<1>6. /\ KeptTab(t, set_focus(grown, new), {}, {new}, a)
      /\ new \in TabPanes(set_focus(grown, new))
    BY <1>2, <1>3, <1>4, <1>5, GrownTab
<1>. QED
    BY <1>6 DEF grown, tree

\* A new floating pane, inserted, shown and focused.
LEMMA FloatTab ==
    ASSUME NEW t, TabOK(t), NEW new \in PaneIds, new \notin TabPanes(t),
           NEW a \in Areas
    PROVE  LET u == set_focus([t EXCEPT !.floats = insert(t.floats, new, a),
                                        !.ordinary_visible = TRUE], new)
           IN  KeptTab(t, u, {}, {new}, a) /\ new \in TabPanes(u)
<1>. DEFINE gs    == insert(t.floats, new, a)
            grown == [t EXCEPT !.floats = gs, !.ordinary_visible = TRUE]
<1>1. t \in TabRecords /\ FloatsOK(t.floats) /\ new \notin FloatIds(t.floats)
    BY DEF TabOK, TabForm, TabPanes
<1>2. /\ FloatsOK(gs) /\ FloatIds(gs) = FloatIds(t.floats) \cup {new}
      /\ Fits(t.floats, a) => Fits(gs, a)
    BY <1>1, InsertKeeps
<1>. HIDE DEF gs
<1>3. gs \in Seq(FloatRecords)
    BY <1>2 DEF FloatsOK
<1>4. /\ grown \in TabRecords /\ grown.tree = t.tree /\ grown.floats = gs /\ grown.id = t.id
      /\ grown.zoomed = t.zoomed
    BY <1>1, <1>3 DEF TabRecords
<1>. HIDE DEF grown
<1>5. TabForm(grown) /\ TabPanes(grown) = TabPanes(t) \cup {new}
    BY <1>2, <1>4 DEF TabForm, TabOK, TabPanes
<1>6. /\ KeptTab(t, set_focus(grown, new), {}, {new}, a)
      /\ new \in TabPanes(set_focus(grown, new))
    BY <1>2, <1>4, <1>5, GrownTab
<1>. QED
    BY <1>6 DEF grown, gs

----------------------------------------------------------------------------
(* Rolling edits back. *)

\* What a drag refers to: a tiled one to a tab that still has every leaf of the
\* saved tree, a floating one to a float of its tab.
DragOK(ts, d) ==
    /\ d.kind = "tiled" =>
         \E i \in DOMAIN ts : /\ ts[i].id = d.tab
                              /\ ToSet(d.original) \subseteq ToSet(ts[i].tree)
                              /\ IsInjective(d.original) /\ d.original # <<>>
    /\ d.kind = "float" =>
         \E i \in DOMAIN ts : ts[i].id = d.tab /\ d.pane \in FloatIds(ts[i].floats)

\* What an edit mode refers to: a float of some tab.
ModalOK(ts, m) == m # NoModal => \E i \in DOMAIN ts : m.pane \in FloatIds(ts[i].floats)

\* A drag stays sound in tabs that keep every leaf and float.
LEMMA DragKept ==
    ASSUME NEW ts, NEW us, NEW new, NEW a, NEW d, Kept(ts, us, {}, new, a), DragOK(ts, d)
    PROVE  DragOK(us, d)
<1>1. DOMAIN us = DOMAIN ts
      /\ \A i \in DOMAIN ts : /\ us[i].id = ts[i].id
                              /\ FloatIds(ts[i].floats) \subseteq FloatIds(us[i].floats)
                              /\ ToSet(ts[i].tree) \subseteq ToSet(us[i].tree)
    BY DEF Kept, KeptTab
<1>. QED
    BY <1>1 DEF DragOK

\* An edit mode stays sound in tabs that keep every float.
LEMMA ModalKept ==
    ASSUME NEW ts, NEW us, NEW Y, NEW new, NEW a, NEW m, Kept(ts, us, Y, new, a), ModalOK(ts, m)
    PROVE  ModalOK(us, m)
<1>1. DOMAIN us = DOMAIN ts
      /\ \A i \in DOMAIN ts : FloatIds(ts[i].floats) \subseteq FloatIds(us[i].floats)
    BY DEF Kept, KeptTab
<1>. QED
    BY <1>1 DEF ModalOK

\* Setting the rectangle of one float of a tab, or of all its floats.
LEMMA SetRectTab ==
    ASSUME NEW t, TabOK(t), NEW p, NEW rect, NEW a \in Areas,
           p \in FloatIds(t.floats) => rect \in Rects
    PROVE  KeptTab(t, [t EXCEPT !.floats = set_rect(t.floats, p, rect, a)], {}, {}, a)
<1>. DEFINE gs == set_rect(t.floats, p, rect, a)
            u  == [t EXCEPT !.floats = gs]
<1>1. /\ FloatsOK(gs) /\ FloatIds(gs) = FloatIds(t.floats) /\ (gs = <<>> <=> t.floats = <<>>)
      /\ Fits(t.floats, a) => Fits(gs, a)
    BY SetRectKeeps DEF TabOK, TabForm
<1>. HIDE DEF gs
<1>2. gs \in Seq(FloatRecords)
    BY <1>1 DEF FloatsOK
<1>3. /\ u \in TabRecords /\ u.floats = gs /\ u.tree = t.tree /\ u.id = t.id
      /\ u.focused = t.focused /\ u.zoomed = t.zoomed
    BY <1>2 DEF TabOK, TabForm, TabRecords
<1>. HIDE DEF u
<1>4. TabPanes(u) = TabPanes(t)
    BY <1>1, <1>3 DEF TabPanes
<1>5. TabOK(u)
    BY <1>1, <1>3 DEF TabOK, TabForm, is_empty
<1>6. \A Z : FocusWithin(t, Z) => FocusWithin(u, Z)
    BY <1>3, <1>4 DEF FocusWithin
<1>7. KeptTab(t, u, {}, {}, a)
    BY <1>1, <1>3, <1>4, <1>5, <1>6 DEF KeptTab
<1>. QED
    BY <1>7 DEF u, gs

\* clamp_all on a tab fits it to the host and keeps it on any other.
LEMMA ClampTab ==
    ASSUME NEW t, TabOK(t), NEW a \in Areas, NEW b \in Areas
    PROVE  LET u == [t EXCEPT !.floats = clamp_all(t.floats, a)]
           IN  KeptTab(t, u, {}, {}, b) /\ Fits(u.floats, a)
<1>. DEFINE gs == clamp_all(t.floats, a)
            u  == [t EXCEPT !.floats = gs]
<1>1. /\ FloatsOK(gs) /\ FloatIds(gs) = FloatIds(t.floats) /\ (gs = <<>> <=> t.floats = <<>>)
      /\ Fits(gs, a) /\ (Fits(t.floats, b) => Fits(gs, b))
    BY ClampAllKeeps DEF TabOK, TabForm
<1>. HIDE DEF gs
<1>2. gs \in Seq(FloatRecords)
    BY <1>1 DEF FloatsOK
<1>3. /\ u \in TabRecords /\ u.floats = gs /\ u.tree = t.tree /\ u.id = t.id
      /\ u.focused = t.focused /\ u.zoomed = t.zoomed
    BY <1>2 DEF TabOK, TabForm, TabRecords
<1>. HIDE DEF u
<1>4. TabPanes(u) = TabPanes(t)
    BY <1>1, <1>3 DEF TabPanes
<1>5. TabOK(u)
    BY <1>1, <1>3 DEF TabOK, TabForm, is_empty
<1>6. \A Z : FocusWithin(t, Z) => FocusWithin(u, Z)
    BY <1>3, <1>4 DEF FocusWithin
<1>7. KeptTab(t, u, {}, {}, b) /\ Fits(u.floats, a)
    BY <1>1, <1>3, <1>4, <1>5, <1>6 DEF KeptTab
<1>. QED
    BY <1>7 DEF u, gs

\* The rollback of a tiled drag brings back a tree of leaves the tab still has.
LEMMA RestoreTree ==
    ASSUME NEW t, TabOK(t), NEW original \in Seq(PaneIds), IsInjective(original),
           original # <<>>, ToSet(original) \subseteq ToSet(t.tree),
           NEW Y, ToSet(t.tree) \ ToSet(original) \subseteq Y, NEW a
    PROVE  KeptTab(t, [t EXCEPT !.tree = original], Y, {}, a)
<1>. DEFINE u == [t EXCEPT !.tree = original]
<1>1. /\ u \in TabRecords /\ u.floats = t.floats /\ u.tree = original /\ u.id = t.id
      /\ u.focused = t.focused /\ u.zoomed = t.zoomed
    BY DEF TabOK, TabForm, TabRecords
<1>. HIDE DEF u
<1>2. TabOK(u)
    BY <1>1 DEF TabOK, TabForm, is_empty
<1>3. TabPanes(u) \subseteq TabPanes(t) /\ TabPanes(t) \subseteq TabPanes(u) \cup Y
    BY <1>1 DEF TabPanes
<1>4. t.tree # <<>>
    BY EmptyTab, <1>1, <1>2 DEF TabOK
<1>5. \A Z : Y \subseteq Z /\ FocusWithin(t, Z) => FocusWithin(u, Z)
    BY <1>1, <1>3, <1>4 DEF FocusWithin
<1>6. KeptTab(t, u, Y, {}, a)
    BY <1>1, <1>2, <1>3, <1>5 DEF KeptTab
<1>. QED
    BY <1>6 DEF u

----------------------------------------------------------------------------
(* The inductive invariant. *)

\* Beyond the properties it implies: identifiers are below the counters, so that
\* a pane or tab handed out is new; no two tabs have one identifier, so that a
\* rollback finds its tab; and every leaf of a saved tree is still in its tab, so
\* that putting it back lays out no pane that was closed.
LayoutInv ==
    /\ TypeOK
    /\ TabsOK(tabs) /\ AllFit(tabs, area)
    /\ Len(tabs) < next_tab_id /\ \A i \in DOMAIN tabs : tabs[i].id < next_tab_id
    /\ \A p \in Owned(tabs) \cup panes : p < next_pane_id
    /\ running => Owned(tabs) \subseteq panes
    /\ DragOK(tabs, pointer_drag) /\ ModalOK(tabs, float_modal)

\* cancel_pointer_drag takes no pane out of the tabs but the younger ones.
LEMMA CancelKeeps ==
    ASSUME LayoutInv, running
    PROVE  Kept(tabs, cancel_pointer_drag(tabs), Younger, {}, area)
<1>. DEFINE us == cancel_pointer_drag(tabs)
            d  == pointer_drag
<1>1. us = [i \in DOMAIN tabs |->
              CASE d.kind = "tiled" /\ tabs[i].id = d.tab -> [tabs[i] EXCEPT !.tree = d.original]
                [] d.kind = "float" /\ tabs[i].id = d.tab ->
                     [tabs[i] EXCEPT !.floats = set_rect(tabs[i].floats, d.pane, d.original, area)]
                [] OTHER -> tabs[i]]
    BY DEF cancel_pointer_drag, MapTabs
<1>2. TabsOK(tabs) /\ d \in DragRecords /\ area \in Areas
    BY DEF LayoutInv, TypeOK
<1>3. ASSUME NEW i \in DOMAIN tabs PROVE KeptTab(tabs[i], us[i], Younger, {}, area)
  <2>1. TabOK(tabs[i])
    BY <1>2 DEF TabsOK
  <2>2. CASE d.kind = "tiled" /\ tabs[i].id = d.tab
    <3>1. d.original \in Seq(PaneIds)
      BY <1>2, <2>2 DEF DragRecords, NoDrag
    <3>2. PICK j \in DOMAIN tabs : /\ tabs[j].id = d.tab
                                   /\ ToSet(d.original) \subseteq ToSet(tabs[j].tree)
                                   /\ IsInjective(d.original) /\ d.original # <<>>
      BY <2>2 DEF LayoutInv, DragOK
    <3>3. i = j
      BY <2>2, <3>2, <1>2 DEF TabsOK
    <3>4. ToSet(tabs[i].tree) \subseteq panes
      BY DEF LayoutInv, Owned, TabPanes
    <3>5. ToSet(tabs[i].tree) \ ToSet(d.original) \subseteq Younger
      BY <2>2, <3>4 DEF Younger
    <3>6. KeptTab(tabs[i], [tabs[i] EXCEPT !.tree = d.original], Younger, {}, area)
      BY <2>1, <3>1, <3>2, <3>3, <3>5, RestoreTree
    <3>. QED
      BY <3>6, <2>2, <1>1
  <2>3. CASE d.kind = "float" /\ tabs[i].id = d.tab
    <3>1. d.original \in Rects
      BY <1>2, <2>3 DEF DragRecords, NoDrag
    <3>2. KeptTab(tabs[i],
                  [tabs[i] EXCEPT !.floats = set_rect(tabs[i].floats, d.pane, d.original, area)],
                  {}, {}, area)
      BY <2>1, <3>1, <1>2, SetRectTab
    <3>3. us[i] = [tabs[i] EXCEPT !.floats = set_rect(tabs[i].floats, d.pane, d.original, area)]
      BY <2>3, <1>1
    <3>4. KeptTab(tabs[i], us[i], {}, {}, area)
      BY <3>2, <3>3
    <3>. QED
      BY <3>4 DEF KeptTab
  <2>4. CASE ~(d.kind = "tiled" /\ tabs[i].id = d.tab) /\ ~(d.kind = "float" /\ tabs[i].id = d.tab)
    BY <2>4, <2>1, <1>1, KeptTabSelf
  <2>. QED
    BY <2>2, <2>3, <2>4
<1>4. us = [i \in DOMAIN tabs |-> us[i]]
    BY <1>1
<1>. HIDE DEF us
<1>5. Kept(tabs, us, Younger, {}, area)
    BY <1>2, <1>3, <1>4, PointwiseKept
<1>. QED
    BY <1>5 DEF us

\* end_float_mode only moves a float.
LEMMA EndModeKeeps ==
    ASSUME LayoutInv, NEW STATE ts, TabsOK(ts)
    PROVE  Kept(ts, end_float_mode(ts), {}, {}, area)
<1>. DEFINE us == end_float_mode(ts)
            m  == float_modal
<1>1. us = [i \in DOMAIN ts |->
              [ts[i] EXCEPT !.floats = set_rect(ts[i].floats, m.pane, m.original, area)]]
    BY DEF end_float_mode, MapTabs
<1>2. (m = NoModal \/ m.original \in Rects) /\ area \in Areas
    BY DEF LayoutInv, TypeOK, ModalRecords
<1>3. ASSUME NEW i \in DOMAIN ts PROVE KeptTab(ts[i], us[i], {}, {}, area)
  <2>1. TabOK(ts[i])
    BY DEF TabsOK
  <2>2. m.pane \in FloatIds(ts[i].floats) => m.original \in Rects
    <3>1. m.pane \in FloatIds(ts[i].floats) => m.pane \in PaneIds
      BY <2>1, GetFloat DEF TabOK, TabForm
    <3>2. NoPane \notin PaneIds
      BY DEF NoPane, PaneIds
    <3>. QED
      BY <3>1, <3>2, <1>2 DEF NoModal
  <2>3. KeptTab(ts[i], [ts[i] EXCEPT !.floats = set_rect(ts[i].floats, m.pane, m.original, area)],
                {}, {}, area)
    BY <2>1, <2>2, <1>2, SetRectTab
  <2>. QED
    BY <2>3, <1>1
<1>4. us = [i \in DOMAIN ts |-> us[i]]
    BY <1>1
<1>. HIDE DEF us
<1>5. Kept(ts, us, {}, {}, area)
    BY <1>3, <1>4, PointwiseKept
<1>. QED
    BY <1>5 DEF us

\* Both rollbacks together take no pane out of the tabs but the younger ones.
LEMMA SettledKeeps ==
    ASSUME LayoutInv, running
    PROVE  Kept(tabs, Settled, Younger, {}, area)
<1>. DEFINE ts == cancel_pointer_drag(tabs)
<1>1. Kept(tabs, ts, Younger, {}, area) /\ TabsOK(ts)
    BY CancelKeeps DEF Kept
<1>2. Settled = end_float_mode(ts)
    BY DEF Settled
<1>. HIDE DEF ts
<1>3. Kept(ts, end_float_mode(ts), Younger, {}, area)
    BY <1>1, EndModeKeeps, KeptWeaken
<1>. QED
    BY <1>1, <1>2, <1>3, KeptTrans

\* The tabs fitted to a host keep their panes and fit it.
LEMMA ClampTabsKeeps ==
    ASSUME NEW STATE ts, TabsOK(ts), NEW a \in Areas, NEW STATE b, b \in Areas
    PROVE  Kept(ts, ClampTabs(ts, a), {}, {}, b) /\ AllFit(ClampTabs(ts, a), a)
<1>. DEFINE us == ClampTabs(ts, a)
<1>1. us = [i \in DOMAIN ts |-> [ts[i] EXCEPT !.floats = clamp_all(ts[i].floats, a)]]
    BY DEF ClampTabs, MapTabs
<1>2. ASSUME NEW i \in DOMAIN ts
      PROVE  KeptTab(ts[i], us[i], {}, {}, b) /\ Fits(us[i].floats, a)
  <2>1. TabOK(ts[i])
    BY DEF TabsOK
  <2>2. us[i] = [ts[i] EXCEPT !.floats = clamp_all(ts[i].floats, a)]
    BY <1>1
  <2>. QED
    BY <2>1, <2>2, ClampTab
<1>3. us = [i \in DOMAIN ts |-> us[i]] /\ DOMAIN us = DOMAIN ts
    BY <1>1
<1>. HIDE DEF us
<1>4. Kept(ts, us, {}, {}, b) /\ AllFit(us, a)
    BY <1>2, <1>3, PointwiseKept DEF AllFit
<1>. QED
    BY <1>4 DEF us

----------------------------------------------------------------------------
(* Steps. *)

\* The step of PanesKept.
PanesStep ==
    running' =>
    \A p \in panes' \ Owned(tabs') :
       p \in panes /\ (p \in Owned(tabs) => p \in Younger)

\* The step of TiledFocusKept.
FocusStep ==
    (\A i \in DOMAIN tabs : FocusSound(tabs[i])) =>
    \A i \in DOMAIN tabs' :
       FocusSound(tabs'[i]) \/ {tabs'[i].focused, tabs'[i].zoomed} \cap Younger # {}

\* What is proved of every step.
StepOK == LayoutInv' /\ PanesStep /\ FocusStep

\* The focus of tabs that were kept is as sound as it was, but for the younger panes.
LEMMA FocusStays ==
    ASSUME NEW ts, NEW us, NEW Y, NEW new, NEW a, Kept(ts, us, Y, new, a),
           \A i \in DOMAIN ts : FocusSound(ts[i])
    PROVE  \A i \in DOMAIN us : FocusWithin(us[i], Y)
<1>. SUFFICES ASSUME NEW i \in DOMAIN us PROVE FocusWithin(us[i], Y)
    OBVIOUS
<1>1. i \in DOMAIN ts /\ KeptTab(ts[i], us[i], Y, new, a)
    BY DEF Kept
<1>2. FocusSound(ts[i])
    BY <1>1
<1>3. FocusWithin(ts[i], Y)
    BY <1>2 DEF FocusSound, FocusWithin
<1>. QED
    BY <1>1, <1>3 DEF KeptTab

\* What TiledFocusKept asks of a tab whose focus may be with the panes of Y.
LEMMA WithinIsSound ==
    ASSUME NEW t, NEW Y, FocusWithin(t, Y)
    PROVE  FocusSound(t) \/ {t.focused, t.zoomed} \cap Y # {}
BY DEF FocusSound, FocusWithin

\* Tabs that are kept still fit their host.
LEMMA KeptFit ==
    ASSUME NEW ts, NEW us, NEW Y, NEW new, NEW a, Kept(ts, us, Y, new, a), AllFit(ts, a)
    PROVE  AllFit(us, a)
BY DEF Kept, KeptTab, AllFit

\* A step that keeps every tab keeps the invariant and the two action properties.
LEMMA StepKeeps ==
    ASSUME LayoutInv, Looping, NEW STATE new,
           Kept(tabs, tabs', Younger, new, area), AllFit(tabs', area'),
           running' = running, panes' = panes \cup new, new \subseteq Owned(tabs'),
           new \subseteq PaneIds, procs' \in SUBSET PaneIds,
           next_pane_id' \in 1 .. MaxPane + 1, next_pane_id <= next_pane_id',
           \A p \in new : p < next_pane_id',
           next_tab_id' = next_tab_id, active_tab' \in 0 .. Len(tabs) - 1,
           pointer_drag' \in DragRecords, DragOK(tabs', pointer_drag'),
           float_modal' \in ModalRecords, ModalOK(tabs', float_modal'),
           attached' \in Clients \cup {NoClient}, area' \in Areas
    PROVE  StepOK
<1>1. /\ TypeOK /\ TabsOK(tabs) /\ running /\ Owned(tabs) \subseteq panes
      /\ Len(tabs) < next_tab_id /\ next_tab_id \in 1 .. MaxTab + 1
      /\ next_pane_id \in 1 .. MaxPane + 1
    BY DEF LayoutInv, Looping, TypeOK
<1>2. /\ TabsOK(tabs') /\ DOMAIN tabs' = DOMAIN tabs
      /\ \A i \in DOMAIN tabs : tabs'[i].id = tabs[i].id
    BY DEF Kept, KeptTab
<1>3. /\ Len(tabs') = Len(tabs) /\ Len(tabs) \in Nat
      /\ DOMAIN tabs = 1 .. Len(tabs) /\ tabs' \in Seq(TabRecords)
    BY <1>1, <1>2, LenProperties DEF TabsOK
<1>4. Owned(tabs) \subseteq Owned(tabs') \cup Younger /\ Owned(tabs') \subseteq Owned(tabs) \cup new
    BY KeptOwned
<1>5. active_tab' \in 0 .. MaxTab - 1 /\ active_tab' < Len(tabs')
    BY <1>1, <1>3, LayoutAssumption
<1>6. TypeOK'
  <2>1. running' \in BOOLEAN /\ panes' \in SUBSET PaneIds /\ next_tab_id' \in 1 .. MaxTab + 1
    BY <1>1 DEF TypeOK
  <2>. QED
    BY <2>1, <1>3, <1>5 DEF TypeOK, ModalRecords
<1>7. \A p \in Owned(tabs') \cup panes' : p < next_pane_id'
  <2>1. \A p \in panes : p < next_pane_id
    BY DEF LayoutInv
  <2>2. \A p \in panes : p \in Int
    BY <1>1 DEF TypeOK, PaneIds
  <2>3. \A p \in panes : p < next_pane_id'
    BY <2>1, <2>2, <1>1
  <2>. QED
    BY <2>3, <1>1, <1>4
<1>8. \A i \in DOMAIN tabs' : tabs'[i].id < next_tab_id'
    BY <1>2 DEF LayoutInv
<1>9. LayoutInv'
    BY <1>1, <1>2, <1>3, <1>4, <1>6, <1>7, <1>8 DEF LayoutInv
<1>10. PanesStep
    BY <1>4 DEF PanesStep
<1>11. FocusStep
    BY FocusStays, WithinIsSound DEF FocusStep
<1>. QED
    BY <1>9, <1>10, <1>11 DEF StepOK

\* Events that hand out no pane and leave the client and its host alone.
LEMMA EditStep ==
    ASSUME LayoutInv, Looping, Kept(tabs, tabs', Younger, {}, area), NoSpawn, Keep,
           next_tab_id' = next_tab_id, active_tab' \in 0 .. Len(tabs) - 1,
           pointer_drag' \in DragRecords, DragOK(tabs', pointer_drag'),
           float_modal' \in ModalRecords, ModalOK(tabs', float_modal')
    PROVE  StepOK
<1>1. AllFit(tabs', area)
    BY KeptFit DEF LayoutInv
<1>2. next_pane_id \in 1 .. MaxPane + 1 /\ next_pane_id \in Int
    BY DEF LayoutInv, TypeOK
<1>3. /\ running' = running /\ panes' = panes \cup {} /\ procs' \in SUBSET PaneIds
      /\ next_pane_id' = next_pane_id /\ attached' \in Clients \cup {NoClient}
      /\ area' = area /\ area \in Areas
    BY DEF LayoutInv, TypeOK, NoSpawn, Keep
<1>. QED
    BY <1>1, <1>2, <1>3, StepKeeps

\* spawn_pane and what lays the new pane out.
LEMMA SpawnStep ==
    ASSUME LayoutInv, Looping, Kept(tabs, tabs', Younger, {next_pane_id}, area),
           next_pane_id \in Owned(tabs'), spawn_pane, Keep,
           next_tab_id' = next_tab_id, active_tab' \in 0 .. Len(tabs) - 1,
           pointer_drag' \in DragRecords, DragOK(tabs', pointer_drag'),
           float_modal' \in ModalRecords, ModalOK(tabs', float_modal')
    PROVE  StepOK
<1>1. AllFit(tabs', area)
    BY KeptFit DEF LayoutInv
<1>2. next_pane_id \in 1 .. MaxPane + 1 /\ next_pane_id <= MaxPane /\ next_pane_id' = next_pane_id + 1
    BY DEF LayoutInv, TypeOK, spawn_pane
<1>3. /\ next_pane_id \in PaneIds /\ next_pane_id' \in 1 .. MaxPane + 1
      /\ next_pane_id <= next_pane_id' /\ next_pane_id < next_pane_id'
    BY <1>2, LayoutAssumption DEF PaneIds
<1>4. /\ running' = running /\ panes' = panes \cup {next_pane_id} /\ procs' \in SUBSET PaneIds
      /\ attached' \in Clients \cup {NoClient}
      /\ area' = area /\ area \in Areas
    BY <1>3 DEF LayoutInv, TypeOK, spawn_pane, Keep
<1>. QED
    BY <1>1, <1>3, <1>4, StepKeeps

\* No drag and no edit mode refer to nothing.
LEMMA DroppedIsOK ==
    ASSUME NEW ts
    PROVE  /\ NoDrag \in DragRecords /\ DragOK(ts, NoDrag)
           /\ NoModal \in ModalRecords /\ ModalOK(ts, NoModal)
BY DEF NoDrag, DragRecords, DragOK, ModalRecords, ModalOK

\* The active tab is there while the loop goes round.
LEMMA ActiveIsTab ==
    ASSUME LayoutInv, Looping, NEW ts, DOMAIN ts = DOMAIN tabs
    PROVE  /\ active_tab + 1 \in DOMAIN ts /\ active_tab \in 0 .. Len(tabs) - 1
           /\ Len(tabs) \in Nat \ {0} /\ DOMAIN tabs = 1 .. Len(tabs)
<1>1. tabs \in Seq(TabRecords) /\ tabs # <<>> /\ active_tab \in Nat /\ active_tab < Len(tabs)
    BY DEF LayoutInv, Looping, TypeOK
<1>2. Len(tabs) \in Nat \ {0} /\ DOMAIN tabs = 1 .. Len(tabs)
    BY <1>1, LenProperties, EmptySeq
<1>. QED
    BY <1>1, <1>2

\* A pane that is handed out is in no tab.
LEMMA NextIsNew ==
    ASSUME LayoutInv, NEW ts, NEW Y, Kept(tabs, ts, Y, {}, area)
    PROVE  {next_pane_id} \cap Owned(ts) = {}
<1>1. Owned(ts) \subseteq Owned(tabs)
    BY KeptOwned
<1>2. next_pane_id \in Int /\ \A p \in Owned(tabs) : p < next_pane_id
    BY DEF LayoutInv, TypeOK
<1>. QED
    BY <1>1, <1>2

\* One tab rewritten after a rollback.
LEMMA RewriteKeeps ==
    ASSUME LayoutInv, NEW STATE ts, NEW STATE Y, Kept(tabs, ts, Y, {}, area),
           NEW k \in DOMAIN ts, NEW STATE u, NEW STATE new,
           KeptTab(ts[k], u, {}, new, area), new \cap Owned(ts) = {}
    PROVE  Kept(tabs, [ts EXCEPT ![k] = u], Y, new, area)
<1>1. TabsOK(ts)
    BY DEF Kept
<1>2. Kept(ts, [ts EXCEPT ![k] = u], {}, new, area)
    BY <1>1, ReplaceKept
<1>3. Kept(ts, [ts EXCEPT ![k] = u], Y, new, area)
    BY <1>2, KeptWeaken
<1>. QED
    BY <1>3, KeptTrans

----------------------------------------------------------------------------
(* The actions of the client. *)

\* What every action of the client starts from.
LEMMA ClientStart ==
    ASSUME LayoutInv, ClientEvent
    PROVE  /\ Looping /\ running
           /\ Kept(tabs, Settled, Younger, {}, area) /\ TabsOK(Settled)
           /\ DOMAIN Settled = DOMAIN tabs
           /\ active_tab + 1 \in DOMAIN Settled /\ active_tab \in 0 .. Len(tabs) - 1
           /\ Len(tabs) \in Nat \ {0}
           /\ TabOK(ActiveTab(Settled)) /\ ActiveTab(Settled) = Settled[active_tab + 1]
<1>1. Looping /\ running
    BY DEF ClientEvent, Looping
<1>2. Kept(tabs, Settled, Younger, {}, area)
    BY <1>1, SettledKeeps
<1>3. TabsOK(Settled) /\ DOMAIN Settled = DOMAIN tabs
    BY <1>2 DEF Kept
<1>4. /\ active_tab + 1 \in DOMAIN Settled /\ active_tab \in 0 .. Len(tabs) - 1
      /\ Len(tabs) \in Nat \ {0}
    BY <1>1, <1>3, ActiveIsTab
<1>5. TabOK(Settled[active_tab + 1])
    BY <1>3, <1>4 DEF TabsOK
<1>. QED
    BY <1>1, <1>2, <1>3, <1>4, <1>5 DEF ActiveTab

\* Actions that leave the rolled-back tabs as they are.
LEMMA SettledStep ==
    ASSUME LayoutInv, ClientEvent, tabs' = Settled, DropEdits, NoSpawn, Keep,
           next_tab_id' = next_tab_id, active_tab' \in 0 .. Len(tabs) - 1
    PROVE  StepOK
<1>1. Kept(tabs, tabs', Younger, {}, area) /\ Looping
    BY ClientStart
<1>2. pointer_drag' = NoDrag /\ float_modal' = NoModal
    BY DEF DropEdits
<1>. QED
    BY <1>1, <1>2, DroppedIsOK, EditStep

\* Actions that rewrite the active tab, without a new pane or with one.
LEMMA ActKeeps ==
    ASSUME LayoutInv, ClientEvent, NEW STATE u, NEW STATE new, ActOnTab(u),
           KeptTab(ActiveTab(Settled), u, {}, new, area), new \cap Owned(Settled) = {}
    PROVE  /\ Looping /\ Kept(tabs, tabs', Younger, new, area) /\ TabPanes(u) \subseteq Owned(tabs')
           /\ next_tab_id' = next_tab_id /\ active_tab' \in 0 .. Len(tabs) - 1 /\ Keep
           /\ pointer_drag' = NoDrag /\ float_modal' = NoModal
<1>. DEFINE ts == Settled
            k  == active_tab + 1
<1>1. /\ Looping /\ Kept(tabs, ts, Younger, {}, area) /\ TabsOK(ts) /\ k \in DOMAIN ts
      /\ active_tab \in 0 .. Len(tabs) - 1 /\ ActiveTab(ts) = ts[k]
    BY ClientStart
<1>2. tabs' = [ts EXCEPT ![k] = u]
    BY DEF ActOnTab
<1>. HIDE DEF ts, k
<1>3. KeptTab(ts[k], u, {}, new, area) /\ new \cap Owned(ts) = {}
    BY <1>1 DEF ts
<1>4. Kept(tabs, [ts EXCEPT ![k] = u], Younger, new, area)
    BY <1>1, <1>3, RewriteKeeps
<1>5. tabs'[k] = u /\ k \in DOMAIN tabs'
    BY <1>1, <1>2 DEF TabsOK
<1>6. TabPanes(u) \subseteq Owned(tabs')
    BY <1>5 DEF Owned
<1>. QED
    BY <1>1, <1>2, <1>4, <1>6 DEF ActOnTab, DropEdits

\* An action that rewrites the active tab without a new pane.
LEMMA ActStep ==
    ASSUME LayoutInv, ClientEvent, NEW STATE u, ActOnTab(u), NoSpawn,
           KeptTab(ActiveTab(Settled), u, {}, {}, area)
    PROVE  StepOK
<1>1. /\ Looping /\ Kept(tabs, tabs', Younger, {}, area)
      /\ next_tab_id' = next_tab_id /\ active_tab' \in 0 .. Len(tabs) - 1 /\ Keep
      /\ pointer_drag' = NoDrag /\ float_modal' = NoModal
    BY ActKeeps
<1>. QED
    BY <1>1, DroppedIsOK, EditStep

\* An action that gives the active tab a new pane.
LEMMA ActSpawnStep ==
    ASSUME LayoutInv, ClientEvent, NEW STATE u, ActOnTab(u), spawn_pane,
           KeptTab(ActiveTab(Settled), u, {}, {next_pane_id}, area), next_pane_id \in TabPanes(u)
    PROVE  StepOK
<1>1. {next_pane_id} \cap Owned(Settled) = {}
    BY ClientStart, NextIsNew
<1>2. /\ Looping /\ Kept(tabs, tabs', Younger, {next_pane_id}, area)
      /\ TabPanes(u) \subseteq Owned(tabs')
      /\ next_tab_id' = next_tab_id /\ active_tab' \in 0 .. Len(tabs) - 1 /\ Keep
      /\ pointer_drag' = NoDrag /\ float_modal' = NoModal
    BY <1>1, ActKeeps
<1>. QED
    BY <1>2, DroppedIsOK, SpawnStep

\* The next pane is not one of the active tab.
LEMMA NextIsNewHere ==
    ASSUME LayoutInv, ClientEvent, spawn_pane
    PROVE  next_pane_id \notin TabPanes(ActiveTab(Settled)) /\ next_pane_id \in PaneIds
<1>1. {next_pane_id} \cap Owned(Settled) = {}
    BY ClientStart, NextIsNew
<1>2. TabPanes(ActiveTab(Settled)) \subseteq Owned(Settled)
    BY ClientStart DEF Owned
<1>3. next_pane_id \in PaneIds
    BY LayoutAssumption DEF LayoutInv, TypeOK, spawn_pane, PaneIds
<1>. QED
    BY <1>1, <1>2, <1>3

\* Actions refused or without effect on the layout, after the rollback.
LEMMA OtherActionStep ==
    ASSUME LayoutInv, OtherAction
    PROVE  StepOK
<1>1. ClientEvent /\ active_tab \in 0 .. Len(tabs) - 1
    BY ClientStart DEF OtherAction
<1>. QED
    BY <1>1, SettledStep DEF OtherAction

\* select_tab on an index of a tab.
LEMMA SelectStep ==
    ASSUME LayoutInv, ClientEvent, NEW index \in 0 .. Len(tabs) - 1, Select(index)
    PROVE  StepOK
BY SettledStep DEF Select

\* split: the focused tile gets a neighbour.
LEMMA SplitStep ==
    ASSUME LayoutInv, Split
    PROVE  StepOK
<1>. DEFINE t == ActiveTab(Settled)
            u == set_focus([t EXCEPT !.tree = split_leaf(t.tree, t.focused, next_pane_id)],
                           next_pane_id)
<1>1. ClientEvent /\ t.focused \in ToSet(t.tree) /\ spawn_pane /\ ActOnTab(u)
    BY DEF Split
<1>2. TabOK(t) /\ next_pane_id \notin TabPanes(t) /\ next_pane_id \in PaneIds
    BY <1>1, ClientStart, NextIsNewHere
<1>3. KeptTab(t, u, {}, {next_pane_id}, area) /\ next_pane_id \in TabPanes(u)
  <2>. HIDE DEF t
  <2>. QED
    BY <1>1, <1>2, SplitTab
<1>. HIDE DEF u
<1>. QED
    BY <1>1, <1>3, ActSpawnStep

\* directional_focus: the focus goes to a pane the tab shows.
LEMMA FocusActionStep ==
    ASSUME LayoutInv, NEW p \in PaneIds, Focus(p)
    PROVE  StepOK
<1>. DEFINE t == ActiveTab(Settled)
<1>1. /\ ClientEvent /\ t.zoomed = NoPane /\ p \in visible_projections(t) /\ NoSpawn
      /\ ActOnTab(set_focus(t, p))
    BY DEF Focus
<1>2. TabOK(t)
    BY <1>1, ClientStart
<1>3. p \in TabPanes(t)
    BY <1>1 DEF visible_projections, TabPanes, FloatIds, visible
<1>4. KeptTab(t, set_focus(t, p), {}, {}, area)
  <2>. HIDE DEF t
  <2>. QED
    BY <1>2, <1>3, FocusTab
<1>. QED
    BY <1>1, <1>4, ActStep

\* toggle_zoom: the zoom goes, or comes to the focused pane.
LEMMA ToggleZoomStep ==
    ASSUME LayoutInv, ToggleZoom
    PROVE  StepOK
<1>. DEFINE t    == ActiveTab(Settled)
            zoom == IF t.zoomed # NoPane THEN NoPane ELSE t.focused
            u    == [t EXCEPT !.zoomed = zoom]
<1>1. ClientEvent /\ NoSpawn /\ ActOnTab(u)
    BY DEF ToggleZoom
<1>2. TabOK(t)
    BY <1>1, ClientStart
<1>3. KeptTab(t, u, {}, {}, area)
  <2>. HIDE DEF t
  <2>1. t \in TabRecords
    BY <1>2 DEF TabOK, TabForm
  <2>2. t.ordinary_visible \in BOOLEAN /\ zoom \in {t.zoomed, NoPane, t.focused}
    BY <2>1 DEF TabRecords
  <2>3. u = [t EXCEPT !.ordinary_visible = t.ordinary_visible, !.zoomed = zoom]
    BY <2>1 DEF TabRecords
  <2>. HIDE DEF zoom, u
  <2>4. KeptTab(t, [t EXCEPT !.ordinary_visible = t.ordinary_visible, !.zoomed = zoom], {}, {}, area)
    BY <1>2, <2>2, FlagsTab
  <2>. QED
    BY <2>3, <2>4
<1>. HIDE DEF u
<1>. QED
    BY <1>1, <1>3, ActStep

\* new_floating_pane: the new float is in the middle of the area.
LEMMA NewFloatingPaneStep ==
    ASSUME LayoutInv, NewFloatingPane
    PROVE  StepOK
<1>. DEFINE t == ActiveTab(Settled)
            u == set_focus([t EXCEPT !.floats = insert(t.floats, next_pane_id, area),
                                     !.ordinary_visible = TRUE], next_pane_id)
<1>1. ClientEvent /\ spawn_pane /\ ActOnTab(u)
    BY DEF NewFloatingPane
<1>2. TabOK(t) /\ next_pane_id \notin TabPanes(t) /\ next_pane_id \in PaneIds
    BY <1>1, ClientStart, NextIsNewHere
<1>3. area \in Areas
    BY DEF LayoutInv, TypeOK
<1>4. KeptTab(t, u, {}, {next_pane_id}, area) /\ next_pane_id \in TabPanes(u)
  <2>. HIDE DEF t
  <2>. QED
    BY <1>2, <1>3, FloatTab
<1>. HIDE DEF u
<1>. QED
    BY <1>1, <1>4, ActSpawnStep

\* toggle_floating_panes: the focus moves off a hidden float, if it can.
LEMMA ToggleFloatingPanesStep ==
    ASSUME LayoutInv, ToggleFloatingPanes
    PROVE  StepOK
<1>. DEFINE t == ActiveTab(Settled)
            u == [t EXCEPT !.ordinary_visible = ~t.ordinary_visible]
            v == set_focus(u, fallback_focus(u))
<1>1. ClientEvent /\ NoSpawn
    BY DEF ToggleFloatingPanes
<1>2. PICK w \in {u, v} : ActOnTab(w) /\ (w # u => fallback_focus(u) # NoPane)
    BY DEF ToggleFloatingPanes
<1>3. TabOK(t)
    BY <1>1, ClientStart
<1>4. KeptTab(t, u, {}, {}, area)
  <2>. HIDE DEF t
  <2>1. t \in TabRecords
    BY <1>3 DEF TabOK, TabForm
  <2>2. (~t.ordinary_visible) \in BOOLEAN
    OBVIOUS
  <2>3. u = [t EXCEPT !.ordinary_visible = ~t.ordinary_visible, !.zoomed = t.zoomed]
    BY <2>1 DEF TabRecords
  <2>. HIDE DEF u
  <2>. QED
    BY <1>3, <2>2, <2>3, FlagsTab
<1>. HIDE DEF t, u
<1>5. TabOK(u)
    BY <1>4 DEF KeptTab
<1>6. ASSUME fallback_focus(u) # NoPane PROVE KeptTab(t, v, {}, {}, area)
  <2>1. fallback_focus(u) \in TabPanes(u) /\ fallback_focus(u) \in PaneIds
    BY <1>5, <1>6, FallbackIsPane, EmptyTab DEF TabOK
  <2>2. KeptTab(u, v, {}, {}, area)
    BY <1>5, <2>1, FocusTab
  <2>. QED
    BY <1>4, <2>2, KeptTabTrans
<1>. HIDE DEF v
<1>7. KeptTab(t, w, {}, {}, area)
    BY <1>2, <1>4, <1>6
<1>. QED
    BY <1>1, <1>2, <1>7, ActStep DEF t

\* toggle_pane_pinned: the float changes its class.
LEMMA TogglePanePinnedStep ==
    ASSUME LayoutInv, TogglePanePinned
    PROVE  StepOK
<1>. DEFINE t      == ActiveTab(Settled)
            pinned == ~get(t.floats, t.focused).pinned
            u      == [t EXCEPT !.floats = set_pinned(t.floats, t.focused, pinned)]
<1>1. ClientEvent /\ NoSpawn /\ t.focused \in FloatIds(t.floats) /\ ActOnTab(u)
    BY DEF TogglePanePinned
<1>2. TabOK(t)
    BY <1>1, ClientStart
<1>3. KeptTab(t, u, {}, {}, area)
  <2>. HIDE DEF t
  <2>1. pinned \in BOOLEAN
    OBVIOUS
  <2>. HIDE DEF pinned
  <2>. QED
    BY <1>1, <1>2, <2>1, PinTab
<1>. HIDE DEF u
<1>. QED
    BY <1>1, <1>3, ActStep

\* enter_float_mode: the captured rectangle is one of a float that is there.
LEMMA EnterFloatModeStep ==
    ASSUME LayoutInv, NEW resize \in BOOLEAN, EnterFloatMode(resize)
    PROVE  StepOK
<1>. DEFINE t     == ActiveTab(Settled)
            edges == IF resize THEN {"right", "bottom"} ELSE {}
<1>1. /\ ClientEvent /\ t.focused \in FloatIds(t.floats) /\ tabs' = Settled
      /\ float_modal' = [pane |-> t.focused, edges |-> edges,
                         original |-> get(t.floats, t.focused).rect]
      /\ pointer_drag' = NoDrag /\ NoSpawn /\ Keep
      /\ next_tab_id' = next_tab_id /\ active_tab' = active_tab
    BY DEF EnterFloatMode
<1>2. /\ Looping /\ Kept(tabs, tabs', Younger, {}, area) /\ active_tab \in 0 .. Len(tabs) - 1
      /\ TabOK(t) /\ t = Settled[active_tab + 1] /\ active_tab + 1 \in DOMAIN Settled
    BY <1>1, ClientStart
<1>3. get(t.floats, t.focused).rect \in Rects /\ t.focused \in PaneIds
    BY <1>1, <1>2, GetFloat DEF TabOK, TabForm, FloatRecords
<1>4. float_modal' \in ModalRecords
  <2>1. edges \in {{}, {"right", "bottom"}}
    OBVIOUS
  <2>. HIDE DEF edges, t
  <2>. QED
    BY <1>1, <1>3, <2>1 DEF ModalRecords
<1>5. ModalOK(tabs', float_modal')
    BY <1>1, <1>2 DEF ModalOK
<1>. HIDE DEF t
<1>. QED
    BY <1>1, <1>2, <1>4, <1>5, DroppedIsOK, EditStep

----------------------------------------------------------------------------
(* Tabs that come and go. *)

\* A new tab with its own pane behind the others.
LEMMA AppendTab ==
    ASSUME NEW ts, TabsOK(ts), NEW u, TabOK(u), TabPanes(u) \cap Owned(ts) = {},
           \A i \in DOMAIN ts : ts[i].id # u.id
    PROVE  LET us == Append(ts, u)
           IN  /\ TabsOK(us) /\ us \in Seq(TabRecords)
               /\ Len(ts) \in Nat /\ Len(us) = Len(ts) + 1
               /\ DOMAIN ts = 1 .. Len(ts) /\ DOMAIN us = 1 .. Len(ts) + 1
               /\ \A i \in DOMAIN ts : us[i] = ts[i]
               /\ us[Len(ts) + 1] = u
               /\ Owned(us) = Owned(ts) \cup TabPanes(u)
<1>. DEFINE us == Append(ts, u)
            n  == Len(ts)
<1>1. ts \in Seq(TabRecords) /\ u \in TabRecords
    BY DEF TabsOK, TabOK, TabForm
<1>2. /\ us \in Seq(TabRecords) /\ n \in Nat /\ Len(us) = n + 1
      /\ DOMAIN ts = 1 .. n /\ DOMAIN us = 1 .. n + 1
      /\ \A i \in 1 .. n : us[i] = ts[i]
      /\ us[n + 1] = u
    BY <1>1, AppendProperties, LenProperties
<1>. HIDE DEF us, n
<1>3. \A i \in DOMAIN ts : TabPanes(ts[i]) \cap TabPanes(u) = {}
    BY DEF Owned
<1>4. ASSUME NEW i \in DOMAIN us, NEW j \in DOMAIN us, i # j
      PROVE  us[i].id # us[j].id /\ TabPanes(us[i]) \cap TabPanes(us[j]) = {}
  <2>1. CASE i \in 1 .. n /\ j \in 1 .. n
    BY <2>1, <1>2, <1>4 DEF TabsOK
  <2>2. CASE i = n + 1 /\ j \in 1 .. n
    BY <2>2, <1>2, <1>3
  <2>3. CASE i \in 1 .. n /\ j = n + 1
    BY <2>3, <1>2, <1>3
  <2>. QED
    BY <2>1, <2>2, <2>3, <1>2, <1>4
<1>5. \A i \in DOMAIN us : TabOK(us[i])
    BY <1>2 DEF TabsOK
<1>6. TabsOK(us)
    BY <1>2, <1>4, <1>5 DEF TabsOK
<1>7. Owned(us) = Owned(ts) \cup TabPanes(u)
  <2>1. ASSUME NEW i \in DOMAIN us
        PROVE  (i \in DOMAIN ts /\ us[i] = ts[i]) \/ us[i] = u
    BY <1>2
  <2>2. ASSUME NEW p \in Owned(us) PROVE p \in Owned(ts) \cup TabPanes(u)
    BY <2>1 DEF Owned
  <2>3. \A i \in DOMAIN ts : i \in DOMAIN us /\ us[i] = ts[i]
    BY <1>2
  <2>4. ASSUME NEW p \in Owned(ts) PROVE p \in Owned(us)
    BY <2>3 DEF Owned
  <2>5. n + 1 \in DOMAIN us
    BY <1>2
  <2>6. TabPanes(u) \subseteq Owned(us)
    BY <2>5, <1>2 DEF Owned
  <2>. QED
    BY <2>2, <2>4, <2>6
<1>. QED
    BY <1>2, <1>6, <1>7 DEF us, n

\* The record of a new tab with its one pane is sound.
LEMMA NewTabOK ==
    ASSUME NEW id \in 1 .. MaxTab, NEW p \in PaneIds
    PROVE  LET u == NewTabRecord(id, p)
           IN  /\ TabOK(u) /\ u.id = id /\ TabPanes(u) = {p} /\ FocusSound(u)
               /\ \A a : Fits(u.floats, a)
<1>. DEFINE u == NewTabRecord(id, p)
<1>1. <<p>> \in Seq(PaneIds) /\ <<>> \in Seq(FloatRecords) /\ <<p>>[1] = p
    BY EmptySeq
<1>0. DOMAIN <<p>> = {1} /\ DOMAIN <<>> = {}
    OBVIOUS
<1>2. /\ u \in TabRecords /\ u.id = id /\ u.tree = <<p>> /\ u.floats = <<>>
      /\ u.focused = p /\ u.zoomed = NoPane
    BY <1>1 DEF NewTabRecord, TabRecords
<1>3. ToSet(<<p>>) = {p} /\ IsInjective(<<p>>) /\ <<p>> # <<>>
    BY <1>0, <1>1 DEF ToSet, IsInjective
<1>4. FloatsOK(<<>>) /\ FloatIds(<<>>) = {} /\ \A a : Fits(<<>>, a)
    BY <1>0, <1>1 DEF FloatsOK, FloatIds, Fits
<1>. HIDE DEF u
<1>5. TabOK(u) /\ TabPanes(u) = {p}
    BY <1>2, <1>3, <1>4 DEF TabOK, TabForm, TabPanes, is_empty
<1>6. FocusSound(u)
    BY <1>2, <1>5 DEF FocusSound
<1>. QED
    BY <1>2, <1>4, <1>5, <1>6 DEF u

\* new_tab: the tab comes behind the others, with a new identifier and pane.
LEMMA NewTabStep ==
    ASSUME LayoutInv, NewTab
    PROVE  StepOK
<1>. DEFINE ts == Settled
            u  == NewTabRecord(next_tab_id, next_pane_id)
            n  == Len(tabs)
<1>1. /\ ClientEvent /\ next_tab_id <= MaxTab /\ spawn_pane /\ tabs' = Append(ts, u)
      /\ next_tab_id' = next_tab_id + 1 /\ active_tab' = n
      /\ pointer_drag' = NoDrag /\ float_modal' = NoModal
      /\ running' = running /\ attached' = attached /\ area' = area
    BY DEF NewTab, DropEdits, Keep
<1>2. /\ running /\ Kept(tabs, ts, Younger, {}, area) /\ TabsOK(ts) /\ DOMAIN ts = DOMAIN tabs
    BY <1>1, ClientStart
<1>3. /\ TypeOK /\ TabsOK(tabs) /\ AllFit(tabs, area) /\ n < next_tab_id
      /\ Owned(tabs) \subseteq panes
      /\ \A i \in DOMAIN tabs : tabs[i].id < next_tab_id
      /\ \A p \in Owned(tabs) \cup panes : p < next_pane_id
    BY <1>2 DEF LayoutInv
<1>4. /\ next_pane_id \in 1 .. MaxPane + 1 /\ next_pane_id <= MaxPane
      /\ panes' = panes \cup {next_pane_id} /\ procs' = procs \cup {next_pane_id}
      /\ next_pane_id' = next_pane_id + 1
    BY <1>1, <1>3 DEF TypeOK, spawn_pane
<1>5. next_pane_id \in PaneIds /\ next_pane_id' \in 1 .. MaxPane + 1
    BY <1>4, LayoutAssumption DEF PaneIds
<1>6. next_tab_id \in 1 .. MaxTab /\ next_tab_id' \in 1 .. MaxTab + 1 /\ next_tab_id \in Nat
    BY <1>1, <1>3, LayoutAssumption DEF TypeOK
<1>7. /\ TabOK(u) /\ u.id = next_tab_id /\ TabPanes(u) = {next_pane_id} /\ FocusSound(u)
      /\ \A a : Fits(u.floats, a)
    BY <1>5, <1>6, NewTabOK
<1>. HIDE DEF u, ts
<1>8. {next_pane_id} \cap Owned(ts) = {}
    BY <1>2, NextIsNew
<1>9. \A i \in DOMAIN ts : ts[i].id # u.id
  <2>. SUFFICES ASSUME NEW i \in DOMAIN ts PROVE ts[i].id # u.id
    OBVIOUS
  <2>1. ts[i].id = tabs[i].id /\ tabs[i].id < next_tab_id
    BY <1>2, <1>3 DEF Kept, KeptTab
  <2>2. ts[i] \in TabRecords
    BY <1>2 DEF TabsOK, TabOK, TabForm
  <2>3. ts[i].id \in 1 .. MaxTab
    BY <2>2 DEF TabRecords
  <2>. QED
    BY <2>1, <2>3, <1>6, <1>7
<1>10. /\ TabsOK(tabs') /\ tabs' \in Seq(TabRecords)
       /\ Len(ts) \in Nat /\ Len(tabs') = Len(ts) + 1
       /\ DOMAIN ts = 1 .. Len(ts) /\ DOMAIN tabs' = 1 .. Len(ts) + 1
       /\ \A i \in DOMAIN ts : tabs'[i] = ts[i]
       /\ tabs'[Len(ts) + 1] = u
       /\ Owned(tabs') = Owned(ts) \cup {next_pane_id}
  <2>1. TabPanes(u) \cap Owned(ts) = {} /\ tabs' = Append(ts, u)
    BY <1>1, <1>7, <1>8 DEF ts, u
  <2>2. TabsOK(ts) /\ TabOK(u)
    BY <1>2, <1>7
  <2>3. LET us == Append(ts, u)
        IN  /\ TabsOK(us) /\ us \in Seq(TabRecords)
            /\ Len(ts) \in Nat /\ Len(us) = Len(ts) + 1
            /\ DOMAIN ts = 1 .. Len(ts) /\ DOMAIN us = 1 .. Len(ts) + 1
            /\ \A i \in DOMAIN ts : us[i] = ts[i]
            /\ us[Len(ts) + 1] = u
            /\ Owned(us) = Owned(ts) \cup TabPanes(u)
    BY ONLY <2>1, <2>2, <1>9, AppendTab
  <2>. QED
    BY <2>1, <2>3, <1>7
<1>11. Len(ts) = n /\ n \in Nat
  <2>1. n \in Nat /\ DOMAIN tabs = 1 .. n
    BY <1>3, LenProperties DEF TabsOK
  <2>2. 1 .. Len(ts) = 1 .. n /\ Len(ts) \in Nat
    BY <2>1, <1>2, <1>10
  <2>. HIDE DEF n
  <2>. QED
    BY <2>1, <2>2
<1>12. \A i \in DOMAIN tabs' : (i \in DOMAIN ts /\ tabs'[i] = ts[i]) \/ tabs'[i] = u
    BY <1>10
<1>13. Owned(ts) \subseteq Owned(tabs) /\ Owned(tabs) \subseteq Owned(ts) \cup Younger
    BY <1>2, KeptOwned
<1>14. AllFit(tabs', area')
  <2>1. AllFit(ts, area)
    BY <1>2, <1>3, KeptFit
  <2>. QED
    BY <2>1, <1>1, <1>7, <1>12 DEF AllFit
<1>15. TypeOK'
  <2>1. running' \in BOOLEAN /\ attached' \in Clients \cup {NoClient} /\ area' \in Areas
    BY <1>1, <1>3 DEF TypeOK
  <2>2. panes' \in SUBSET PaneIds /\ procs' \in SUBSET PaneIds
    BY <1>3, <1>4, <1>5 DEF TypeOK
  <2>3. active_tab' \in 0 .. MaxTab - 1 /\ active_tab' < Len(tabs')
    BY <1>1, <1>3, <1>6, <1>10, <1>11, LayoutAssumption
  <2>4. pointer_drag' \in DragRecords /\ float_modal' \in ModalRecords
    BY <1>1, DroppedIsOK
  <2>. QED
    BY <2>1, <2>2, <2>3, <2>4, <1>5, <1>6, <1>10 DEF TypeOK, ModalRecords
<1>16. \A i \in DOMAIN tabs' : tabs'[i].id < next_tab_id'
  <2>1. \A i \in DOMAIN ts : ts[i].id = tabs[i].id /\ i \in DOMAIN tabs /\ tabs[i] \in TabRecords
    BY <1>2, <1>3 DEF Kept, KeptTab, TabsOK, TabOK, TabForm
  <2>2. \A i \in DOMAIN tabs : tabs[i].id \in Int
    BY <1>2, <2>1 DEF TabRecords
  <2>3. ASSUME NEW i \in DOMAIN ts PROVE ts[i].id < next_tab_id + 1
    <3>1. PICK x \in Int : x = tabs[i].id
      BY <2>1, <2>2
    <3>2. ts[i].id = x /\ x < next_tab_id
      BY <2>1, <3>1, <1>3
    <3>3. x < next_tab_id + 1
      BY <3>1, <3>2, <1>6
    <3>. QED
      BY <3>2, <3>3
  <2>. SUFFICES ASSUME NEW i \in DOMAIN tabs' PROVE tabs'[i].id < next_tab_id + 1
    BY <1>1
  <2>4. CASE i \in DOMAIN ts /\ tabs'[i] = ts[i]
    BY <2>3, <2>4
  <2>5. CASE tabs'[i] = u
    BY <2>5, <1>6, <1>7
  <2>. QED
    BY <2>4, <2>5, <1>12
<1>17. \A p \in Owned(tabs') \cup panes' : p < next_pane_id'
  <2>0. panes \subseteq PaneIds
    BY <1>3 DEF TypeOK
  <2>1. \A p \in Owned(tabs) \cup panes : p \in Int /\ p < next_pane_id
    <3>1. \A p \in PaneIds : p \in Int
      BY DEF PaneIds
    <3>. QED
      BY <2>0, <3>1, <1>3
  <2>2. Owned(tabs') \cup panes' \subseteq (Owned(tabs) \cup panes) \cup {next_pane_id}
    BY <1>4, <1>10, <1>13
  <2>3. \A p \in (Owned(tabs) \cup panes) \cup {next_pane_id} : p < next_pane_id + 1
    BY <2>1, <1>4
  <2>. QED
    BY <2>2, <2>3, <1>4
<1>18. LayoutInv'
  <2>1. Len(tabs') < next_tab_id'
    BY <1>1, <1>3, <1>6, <1>10, <1>11
  <2>2. Owned(tabs') \subseteq panes'
    BY <1>3, <1>4, <1>10, <1>13
  <2>3. DragOK(tabs', pointer_drag') /\ ModalOK(tabs', float_modal')
    BY <1>1, DroppedIsOK
  <2>. QED
    BY <2>1, <2>2, <2>3, <1>10, <1>14, <1>15, <1>16, <1>17 DEF LayoutInv
<1>19. PanesStep
    BY <1>4, <1>10, <1>13 DEF PanesStep
<1>20. FocusStep
  <2>. SUFFICES ASSUME \A i \in DOMAIN tabs : FocusSound(tabs[i]), NEW i \in DOMAIN tabs'
                PROVE  \/ FocusSound(tabs'[i])
                       \/ {tabs'[i].focused, tabs'[i].zoomed} \cap Younger # {}
    BY DEF FocusStep
  <2>1. CASE i \in DOMAIN ts /\ tabs'[i] = ts[i]
    <3>1. FocusWithin(ts[i], Younger)
      BY <1>2, <2>1, FocusStays
    <3>. QED
      BY <3>1, <2>1, WithinIsSound
  <2>2. CASE tabs'[i] = u
    BY <2>2, <1>7
  <2>. QED
    BY <2>1, <2>2, <1>12
<1>. QED
    BY <1>18, <1>19, <1>20 DEF StepOK

\* The tab a pane is removed from.
LEMMA ClosedTab ==
    ASSUME NEW t, TabOK(t), NEW p \in PaneIds
    PROVE  LET u == ClosedIn(t, p)
           IN  /\ TabForm(u) /\ u.id = t.id /\ TabPanes(u) = TabPanes(t) \ {p}
               /\ is_empty(u) <=> TabPanes(t) \subseteq {p}
               /\ \A a : Fits(t.floats, a) => Fits(u.floats, a)
               /\ \A Z : FocusWithin(t, Z) => FocusWithin(u, Z)
<1>. DEFINE u == ClosedIn(t, p)
<1>1. /\ TabForm(u) /\ u.id = t.id
      /\ FloatIds(u.floats) = FloatIds(t.floats) \ {p}
      /\ ToSet(u.tree) = ToSet(t.tree) \ {p}
      /\ \A a : Fits(t.floats, a) => Fits(u.floats, a)
      /\ u.zoomed = IF t.zoomed = p THEN NoPane ELSE t.zoomed
      /\ u.tree # <<>> => \/ u.focused \in TabPanes(u)
                          \/ u.focused = t.focused /\ t.focused # p
    BY ClosedInKeeps DEF TabOK
<1>. HIDE DEF u
<1>2. TabPanes(u) = TabPanes(t) \ {p}
    BY <1>1 DEF TabPanes
<1>3. is_empty(u) <=> TabPanes(t) \subseteq {p}
    BY <1>1, <1>2, EmptyTab
<1>4. u.tree # <<>> => t.tree # <<>>
    BY <1>1, EmptyTab DEF TabOK
<1>5. \A Z : FocusWithin(t, Z) => FocusWithin(u, Z)
    BY <1>1, <1>2, <1>4 DEF FocusWithin
<1>. QED
    BY <1>1, <1>2, <1>3, <1>5 DEF u

\* SelectTab, NextTab and PreviousTab compute the index of a tab.
LEMMA TabChoiceStep ==
    ASSUME LayoutInv, NextTab \/ PreviousTab \/ \E index \in 0 .. MaxTab - 1 : SelectTab(index)
    PROVE  StepOK
<1>1. ClientEvent
    BY DEF NextTab, PreviousTab, SelectTab
<1>2. PICK n \in Nat \ {0}, k \in Nat : n = Len(tabs) /\ k = active_tab
    BY <1>1, ClientStart DEF LayoutInv, TypeOK
<1>3. (k + 1) % n \in 0 .. n - 1 /\ (k + n - 1) % n \in 0 .. n - 1
    BY <1>2
<1>4. PICK index \in 0 .. n - 1 : Select(index)
  <2>1. CASE NextTab
    BY <2>1, <1>2, <1>3 DEF NextTab
  <2>2. CASE PreviousTab
    BY <2>2, <1>2, <1>3 DEF PreviousTab
  <2>3. CASE \E index \in 0 .. MaxTab - 1 : SelectTab(index)
    <3>1. PICK index \in 0 .. MaxTab - 1 : SelectTab(index)
      BY <2>3
    <3>2. index < n /\ index \in Nat
      BY <3>1, <1>2, LayoutAssumption DEF SelectTab
    <3>. QED
      BY <3>1, <3>2, <1>2 DEF SelectTab
  <2>. QED
    BY <2>1, <2>2, <2>3
<1>. QED
    BY <1>1, <1>2, <1>4, SelectStep

\* The tabs after the removal of p: the one that had it without it, or gone when
\* it has no other; and every tab left is one that was there.
Removed(ts, ws, p, a) ==
    /\ TabsOK(ws)
    /\ Len(ws) \in Nat /\ Len(ws) <= Len(ts)
    /\ Owned(ws) = Owned(ts) \ {p}
    /\ \A j \in DOMAIN ws :
         \E i \in DOMAIN ts :
            /\ ws[j].id = ts[i].id
            /\ Fits(ts[i].floats, a) => Fits(ws[j].floats, a)
            /\ \A Z : FocusWithin(ts[i], Z) => FocusWithin(ws[j], Z)

\* The tab at k is replaced by what is left of it.
LEMMA ShrinkTab ==
    ASSUME NEW ts, TabsOK(ts), NEW k \in DOMAIN ts, NEW u, TabOK(u), NEW p,
           u.id = ts[k].id, TabPanes(u) = TabPanes(ts[k]) \ {p}, p \in TabPanes(ts[k]),
           NEW a, Fits(ts[k].floats, a) => Fits(u.floats, a),
           \A Z : FocusWithin(ts[k], Z) => FocusWithin(u, Z)
    PROVE  Removed(ts, [ts EXCEPT ![k] = u], p, a)
<1>. DEFINE ws == [ts EXCEPT ![k] = u]
<1>1. /\ DOMAIN ws = DOMAIN ts /\ ws[k] = u
      /\ \A i \in DOMAIN ts : i # k => ws[i] = ts[i]
    BY DEF TabsOK
<1>2. u \in TabRecords
    BY DEF TabOK, TabForm
<1>3. ws \in Seq(TabRecords)
    BY <1>2, ExceptSeq, LenProperties DEF TabsOK
<1>. HIDE DEF ws
<1>4. \A i \in DOMAIN ts : i # k => TabPanes(ts[i]) \cap TabPanes(ts[k]) = {} /\ ts[i].id # ts[k].id
    BY DEF TabsOK
<1>5. TabsOK(ws)
  <2>1. ASSUME NEW i \in DOMAIN ts, NEW j \in DOMAIN ts, i # j
        PROVE  ws[i].id # ws[j].id /\ TabPanes(ws[i]) \cap TabPanes(ws[j]) = {}
    <3>1. CASE i # k /\ j # k
      BY <3>1, <2>1, <1>1 DEF TabsOK
    <3>2. CASE i = k
      BY <3>2, <2>1, <1>1, <1>4
    <3>3. CASE j = k
      BY <3>3, <2>1, <1>1, <1>4
    <3>. QED
      BY <3>1, <3>2, <3>3
  <2>2. \A i \in DOMAIN ts : TabOK(ws[i])
    BY <1>1 DEF TabsOK
  <2>. QED
    BY <2>1, <2>2, <1>1, <1>3 DEF TabsOK
<1>6. Len(ws) \in Nat /\ Len(ws) <= Len(ts)
  <2>1. Len(ws) \in Nat /\ Len(ts) \in Nat /\ DOMAIN ws = 1 .. Len(ws) /\ DOMAIN ts = 1 .. Len(ts)
    BY <1>3, LenProperties DEF TabsOK
  <2>. QED
    BY <2>1, <1>1
<1>7. Owned(ws) = Owned(ts) \ {p}
  <2>1. \A i \in DOMAIN ts : TabPanes(ws[i]) = TabPanes(ts[i]) \ {p}
    BY <1>1, <1>4
  <2>. QED
    BY <2>1, <1>1 DEF Owned
<1>8. ASSUME NEW j \in DOMAIN ws
      PROVE  /\ ws[j].id = ts[j].id /\ j \in DOMAIN ts
             /\ Fits(ts[j].floats, a) => Fits(ws[j].floats, a)
             /\ \A Z : FocusWithin(ts[j], Z) => FocusWithin(ws[j], Z)
  <2>1. CASE j = k
    BY <2>1, <1>1
  <2>2. CASE j # k
    BY <2>2, <1>1
  <2>. QED
    BY <2>1, <2>2
<1>9. Removed(ts, ws, p, a)
    BY <1>5, <1>6, <1>7, <1>8 DEF Removed
<1>. QED
    BY <1>9 DEF ws

\* The tab at k had no pane but p, and goes with it.
LEMMA DropTab ==
    ASSUME NEW ts, TabsOK(ts), NEW k \in DOMAIN ts, NEW p, TabPanes(ts[k]) = {p}, NEW a
    PROVE  Removed(ts, RemoveAt(ts, k), p, a)
<1>. DEFINE ws == RemoveAt(ts, k)
            n  == Len(ts)
<1>1. n \in Nat /\ DOMAIN ts = 1 .. n /\ ts \in Seq(TabRecords)
    BY LenProperties DEF TabsOK
<1>2. k \in 1 .. Len(ts)
    BY <1>1
<1>3. /\ ws \in Seq(TabRecords) /\ DOMAIN ws = 1 .. n - 1 /\ Len(ws) = n - 1
      /\ \A j \in 1 .. n - 1 :
           \E i \in 1 .. n \ {k} : ws[j] = ts[i] /\ i = IF j < k THEN j ELSE j + 1
      /\ \A i \in 1 .. n \ {k} : \E j \in 1 .. n - 1 : ws[j] = ts[i]
  <2>1. ws \in Seq(TabRecords) /\ WithoutAt(ts, k, ws)
    BY <1>1, <1>2, RemoveAtMembers
  <2>. HIDE DEF ws
  <2>. QED
    BY <2>1, Zenon DEF WithoutAt
<1>. HIDE DEF ws
<1>4. Len(ws) \in Nat /\ Len(ws) <= Len(ts)
    BY <1>1, <1>2, <1>3
<1>5. TabsOK(ws)
  <2>1. ASSUME NEW i \in DOMAIN ws, NEW j \in DOMAIN ws, i # j
        PROVE  ws[i].id # ws[j].id /\ TabPanes(ws[i]) \cap TabPanes(ws[j]) = {}
    <3>1. PICK g \in DOMAIN ts : ws[i] = ts[g] /\ g = IF i < k THEN i ELSE i + 1
      BY <1>1, <1>3
    <3>2. PICK h \in DOMAIN ts : ws[j] = ts[h] /\ h = IF j < k THEN j ELSE j + 1
      BY <1>1, <1>3
    <3>3. g # h
      <4>1. i \in Int /\ j \in Int /\ k \in Int
        BY <1>1, <1>2, <1>3
      <4>. QED
        BY ONLY <4>1, <3>1, <3>2, <2>1
    <3>. QED
      BY <3>1, <3>2, <3>3 DEF TabsOK
  <2>2. \A j \in DOMAIN ws : TabOK(ws[j])
    BY <1>1, <1>3 DEF TabsOK
  <2>. QED
    BY <2>1, <2>2, <1>3 DEF TabsOK
<1>6. Owned(ws) = Owned(ts) \ {p}
  <2>1. \A i \in DOMAIN ts : i # k => p \notin TabPanes(ts[i])
    BY DEF TabsOK
  <2>2. ASSUME NEW q \in Owned(ws) PROVE q \in Owned(ts) \ {p}
    <3>1. PICK j \in DOMAIN ws : q \in TabPanes(ws[j])
      BY DEF Owned
    <3>2. PICK i \in DOMAIN ts : ws[j] = ts[i] /\ i # k
      BY <3>1, <1>1, <1>3
    <3>3. q \in Owned(ts)
      BY <3>1, <3>2 DEF Owned
    <3>. QED
      BY <3>1, <3>2, <3>3, <2>1
  <2>3. ASSUME NEW q \in Owned(ts) \ {p} PROVE q \in Owned(ws)
    <3>1. PICK i \in DOMAIN ts : q \in TabPanes(ts[i])
      BY DEF Owned
    <3>2. i # k
      BY <3>1, <2>3
    <3>3. PICK j \in DOMAIN ws : ws[j] = ts[i]
      BY <3>2, <1>1, <1>3
    <3>. QED
      BY <3>1, <3>3 DEF Owned
  <2>. QED
    BY <2>2, <2>3
<1>7. \A j \in DOMAIN ws : \E i \in DOMAIN ts : ws[j] = ts[i]
    BY <1>1, <1>3
<1>8. Removed(ts, ws, p, a)
    BY <1>4, <1>5, <1>6, <1>7 DEF Removed
<1>. QED
    BY <1>8 DEF ws

\* close_pane on the tabs, whichever tab has the pane.
LEMMA RemoveKeeps ==
    ASSUME NEW ts, TabsOK(ts), NEW p \in PaneIds, NEW a
    PROVE  Removed(ts, RemovePane(ts, p), p, a)
<1>1. CASE OwnerIn(ts, p) = {}
  <2>1. RemovePane(ts, p) = ts
    BY <1>1 DEF RemovePane
  <2>2. p \notin Owned(ts)
    BY <1>1 DEF OwnerIn, Owned
  <2>3. Len(ts) \in Nat
    BY LenProperties DEF TabsOK
  <2>. QED
    BY <2>1, <2>2, <2>3 DEF Removed
<1>2. CASE OwnerIn(ts, p) # {}
  <2>. DEFINE k == CHOOSE i \in OwnerIn(ts, p) : TRUE
              u == ClosedIn(ts[k], p)
  <2>1. RemovePane(ts, p) = IF is_empty(u) THEN RemoveAt(ts, k) ELSE [ts EXCEPT ![k] = u]
    BY <1>2 DEF RemovePane
  <2>2. k \in DOMAIN ts /\ p \in TabPanes(ts[k])
    BY <1>2 DEF OwnerIn
  <2>. HIDE DEF k
  <2>3. TabOK(ts[k])
    BY <2>2 DEF TabsOK
  <2>4. /\ TabForm(u) /\ u.id = ts[k].id /\ TabPanes(u) = TabPanes(ts[k]) \ {p}
        /\ is_empty(u) <=> TabPanes(ts[k]) \subseteq {p}
        /\ Fits(ts[k].floats, a) => Fits(u.floats, a)
        /\ \A Z : FocusWithin(ts[k], Z) => FocusWithin(u, Z)
    BY <2>3, ClosedTab
  <2>. HIDE DEF u
  <2>5. CASE is_empty(u)
    <3>1. TabPanes(ts[k]) = {p}
      BY <2>2, <2>4, <2>5
    <3>2. Removed(ts, RemoveAt(ts, k), p, a)
      BY <2>2, <3>1, DropTab
    <3>. QED
      BY <3>2, <2>1, <2>5
  <2>6. CASE ~is_empty(u)
    <3>1. TabOK(u)
      BY <2>4, <2>6 DEF TabOK
    <3>2. Removed(ts, [ts EXCEPT ![k] = u], p, a)
      BY <2>2, <2>4, <3>1, ShrinkTab
    <3>. QED
      BY <3>2, <2>1, <2>6
  <2>. QED
    BY <2>5, <2>6
<1>. QED
    BY <1>1, <1>2

\* The removal of a pane, after whatever rollback.
LEMMA CloseStep ==
    ASSUME LayoutInv, Looping, NEW STATE ts, Kept(tabs, ts, Younger, {}, area), NEW p \in PaneIds,
           tabs' = RemovePane(ts, p), panes' = panes \ {p}, procs' \in SUBSET PaneIds,
           active_tab' = ClampIndex(active_tab, tabs'), DropEdits, Keep,
           next_pane_id' = next_pane_id, next_tab_id' = next_tab_id
    PROVE  StepOK
<1>1. /\ TypeOK /\ TabsOK(tabs) /\ AllFit(tabs, area) /\ running
      /\ Owned(tabs) \subseteq panes
      /\ Len(tabs) < next_tab_id /\ \A i \in DOMAIN tabs : tabs[i].id < next_tab_id
      /\ \A q \in Owned(tabs) \cup panes : q < next_pane_id
    BY DEF LayoutInv, Looping
<1>2. TabsOK(ts) /\ DOMAIN ts = DOMAIN tabs /\ \A i \in DOMAIN ts : ts[i].id = tabs[i].id
    BY DEF Kept, KeptTab
<1>3. Removed(ts, tabs', p, area)
    BY <1>2, RemoveKeeps
<1>4. /\ TabsOK(tabs') /\ Owned(tabs') = Owned(ts) \ {p}
      /\ Len(tabs') \in Nat /\ Len(tabs') <= Len(ts)
      /\ \A j \in DOMAIN tabs' :
           \E i \in DOMAIN ts :
              /\ tabs'[j].id = ts[i].id
              /\ Fits(ts[i].floats, area) => Fits(tabs'[j].floats, area)
              /\ \A Z : FocusWithin(ts[i], Z) => FocusWithin(tabs'[j], Z)
    BY <1>3 DEF Removed
<1>5. Owned(ts) \subseteq Owned(tabs) /\ Owned(tabs) \subseteq Owned(ts) \cup Younger
    BY KeptOwned
<1>6. Len(ts) = Len(tabs) /\ Len(tabs) \in Nat
  <2>1. /\ Len(ts) \in Nat /\ DOMAIN ts = 1 .. Len(ts)
        /\ Len(tabs) \in Nat /\ DOMAIN tabs = 1 .. Len(tabs)
    BY <1>1, <1>2, LenProperties DEF TabsOK
  <2>2. PICK m \in Nat, n \in Nat : m = Len(ts) /\ n = Len(tabs)
    BY <2>1
  <2>3. 1 .. m = 1 .. n
    BY <2>1, <2>2, <1>2
  <2>. QED
    BY <2>2, <2>3
<1>7. /\ running' = running /\ attached' = attached /\ area' = area
      /\ pointer_drag' = NoDrag /\ float_modal' = NoModal
    BY DEF DropEdits, Keep
<1>8. active_tab' \in 0 .. MaxTab - 1 /\ (tabs' # <<>> => active_tab' < Len(tabs'))
  <2>1. active_tab \in 0 .. MaxTab - 1 /\ active_tab < Len(tabs) /\ MaxTab \in Nat \ {0}
    BY <1>1, LayoutAssumption DEF TypeOK, Looping
  <2>2. tabs' = <<>> <=> Len(tabs') = 0
    BY <1>4, EmptySeq DEF TabsOK
  <2>3. PICK m \in Nat, k \in Nat, n \in Nat : m = Len(tabs') /\ k = active_tab /\ n = Len(tabs)
    BY <1>4, <1>6, <2>1
  <2>4. active_tab' = IF k < m THEN k ELSE IF m = 0 THEN 0 ELSE m - 1
    BY <2>3 DEF ClampIndex
  <2>5. m <= n /\ k < n /\ k < MaxTab
    BY <2>1, <2>3, <1>4, <1>6
  <2>6. active_tab' \in 0 .. MaxTab - 1 /\ (m # 0 => active_tab' < m)
    BY <2>1, <2>4, <2>5
  <2>. QED
    BY <2>2, <2>3, <2>6
<1>9. TypeOK'
  <2>1. /\ running' \in BOOLEAN /\ panes' \in SUBSET PaneIds
        /\ attached' \in Clients \cup {NoClient} /\ area' \in Areas
        /\ next_pane_id' \in 1 .. MaxPane + 1 /\ next_tab_id' \in 1 .. MaxTab + 1
    BY <1>1, <1>7 DEF TypeOK
  <2>2. tabs' \in Seq(TabRecords) /\ pointer_drag' \in DragRecords /\ float_modal' \in ModalRecords
    BY <1>4, <1>7, DroppedIsOK DEF TabsOK
  <2>. QED
    BY <2>1, <2>2, <1>8 DEF TypeOK, ModalRecords
<1>10. AllFit(tabs', area')
    BY <1>1, <1>4, <1>7, KeptFit DEF AllFit
<1>11. \A i \in DOMAIN tabs' : tabs'[i].id < next_tab_id'
    BY <1>1, <1>2, <1>4
<1>12. Len(tabs') < next_tab_id'
  <2>1. next_tab_id \in Int /\ Len(tabs') \in Int /\ Len(tabs) \in Int
    BY <1>1, <1>4, <1>6 DEF TypeOK
  <2>2. Len(tabs') <= Len(tabs) /\ Len(tabs) < next_tab_id
    BY <1>1, <1>4, <1>6
  <2>. QED
    BY <2>1, <2>2
<1>13. \A q \in Owned(tabs') \cup panes' : q < next_pane_id'
    BY <1>1, <1>4, <1>5
<1>14. Owned(tabs') \subseteq panes'
    BY <1>1, <1>4, <1>5
<1>15. DragOK(tabs', pointer_drag') /\ ModalOK(tabs', float_modal')
    BY <1>7, DroppedIsOK
<1>16. LayoutInv'
    BY <1>4, <1>9, <1>10, <1>11, <1>12, <1>13, <1>14, <1>15 DEF LayoutInv
<1>17. PanesStep
    BY <1>4, <1>5 DEF PanesStep
<1>18. FocusStep
  <2>. SUFFICES ASSUME \A i \in DOMAIN tabs : FocusSound(tabs[i]), NEW j \in DOMAIN tabs'
                PROVE  \/ FocusSound(tabs'[j])
                       \/ {tabs'[j].focused, tabs'[j].zoomed} \cap Younger # {}
    BY DEF FocusStep
  <2>1. \A i \in DOMAIN ts : FocusWithin(ts[i], Younger)
    BY FocusStays
  <2>2. FocusWithin(tabs'[j], Younger)
    BY <2>1, <1>4
  <2>. QED
    BY <2>2, WithinIsSound
<1>. QED
    BY <1>16, <1>17, <1>18 DEF StepOK

\* close_pane of the focused pane, asked by the client.
LEMMA ClosePaneStep ==
    ASSUME LayoutInv, ClosePane
    PROVE  StepOK
<1>. DEFINE p == ActiveTab(Settled).focused
<1>1. /\ ClientEvent /\ tabs' = RemovePane(Settled, p) /\ panes' = panes \ {p}
      /\ active_tab' = ClampIndex(active_tab, tabs') /\ DropEdits /\ Keep
      /\ procs' = procs /\ next_pane_id' = next_pane_id /\ next_tab_id' = next_tab_id
    BY DEF ClosePane
<1>2. Looping /\ Kept(tabs, Settled, Younger, {}, area) /\ TabOK(ActiveTab(Settled))
    BY <1>1, ClientStart
<1>3. p \in PaneIds
    BY <1>2 DEF TabOK, TabForm, TabRecords
<1>4. procs' \in SUBSET PaneIds
    BY <1>1 DEF LayoutInv, TypeOK
<1>. HIDE DEF p
<1>. QED
    BY <1>1, <1>2, <1>3, <1>4, CloseStep

\* close_pane rolls back the edits of other panes first.
LEMMA SettledForCloseKeeps ==
    ASSUME LayoutInv, running, NEW p
    PROVE  Kept(tabs, SettledForClose(p), Younger, {}, area)
<1>. DEFINE ts == IF pointer_drag.kind = "float" /\ pointer_drag.pane = p
                  THEN tabs ELSE cancel_pointer_drag(tabs)
<1>1. Kept(tabs, ts, Younger, {}, area)
    BY CancelKeeps, KeptSelf DEF LayoutInv
<1>2. SettledForClose(p) = IF float_modal.pane = p THEN ts ELSE end_float_mode(ts)
    BY DEF SettledForClose
<1>. HIDE DEF ts
<1>3. Kept(ts, end_float_mode(ts), Younger, {}, area)
  <2>1. TabsOK(ts)
    BY <1>1 DEF Kept
  <2>2. Kept(ts, end_float_mode(ts), {}, {}, area)
    BY <2>1, EndModeKeeps
  <2>. QED
    BY <2>2, KeptWeaken
<1>4. Kept(tabs, end_float_mode(ts), Younger, {}, area)
    BY <1>1, <1>3, KeptTrans
<1>. QED
    BY <1>1, <1>2, <1>4

\* close_pane asked by another connection, or by the exit of the process.
LEMMA CloseEventStep ==
    ASSUME LayoutInv, NEW p \in PaneIds, MsgClose(p) \/ PtyExit(p)
    PROVE  StepOK
<1>1. /\ Looping /\ close_pane(p) /\ Keep
      /\ next_pane_id' = next_pane_id /\ next_tab_id' = next_tab_id
    BY DEF MsgClose, PtyExit
<1>2. Kept(tabs, SettledForClose(p), Younger, {}, area)
    BY <1>1, SettledForCloseKeeps DEF Looping
<1>3. /\ tabs' = RemovePane(SettledForClose(p), p) /\ panes' = panes \ {p}
      /\ active_tab' = ClampIndex(active_tab, tabs') /\ DropEdits
    BY <1>1 DEF close_pane, DropEdits
<1>4. procs' \in SUBSET PaneIds
    BY DEF MsgClose, PtyExit, LayoutInv, TypeOK
<1>. QED
    BY <1>1, <1>2, <1>3, <1>4, CloseStep

----------------------------------------------------------------------------
(* The pointer and the keyboard edit mode. *)

\* What every event of the pointer and of the edit mode starts from.
LEMMA PointerStart ==
    ASSUME LayoutInv, ClientEvent
    PROVE  /\ Looping /\ running /\ TabsOK(tabs) /\ area \in Areas
           /\ Kept(tabs, cancel_pointer_drag(tabs), Younger, {}, area)
           /\ TabsOK(cancel_pointer_drag(tabs)) /\ DOMAIN cancel_pointer_drag(tabs) = DOMAIN tabs
           /\ active_tab + 1 \in DOMAIN tabs /\ active_tab \in 0 .. Len(tabs) - 1
           /\ pointer_drag \in DragRecords /\ float_modal \in ModalRecords
           /\ DragOK(tabs, pointer_drag) /\ ModalOK(tabs, float_modal)
<1>1. Looping /\ running
    BY DEF ClientEvent, Looping
<1>2. Kept(tabs, cancel_pointer_drag(tabs), Younger, {}, area)
    BY <1>1, CancelKeeps
<1>3. TabsOK(cancel_pointer_drag(tabs)) /\ DOMAIN cancel_pointer_drag(tabs) = DOMAIN tabs
    BY <1>2 DEF Kept
<1>4. active_tab + 1 \in DOMAIN tabs /\ active_tab \in 0 .. Len(tabs) - 1
    BY <1>1, ActiveIsTab
<1>. QED
    BY <1>1, <1>2, <1>3, <1>4 DEF LayoutInv, TypeOK, ModalRecords

\* What a press records refers to the tab and the float it hit.
LEMMA DragFromIsOK ==
    ASSUME NEW ts, TabsOK(ts), NEW k \in DOMAIN ts, NEW p \in PaneIds, NEW edges \in Grips,
           NEW shift \in BOOLEAN, area \in Areas
    PROVE  LET d == DragFrom(ts[k], p, edges, shift)
           IN  d \in DragRecords /\ DragOK(ts, d)
<1>. DEFINE t == ts[k]
            d == DragFrom(t, p, edges, shift)
<1>1. TabOK(t) /\ t.id \in 1 .. MaxTab /\ t.tree \in Seq(PaneIds) /\ IsInjective(t.tree)
    BY DEF TabsOK, TabOK, TabForm, TabRecords
<1>2. CASE p \in FloatIds(t.floats) /\ ~shift
  <2>. DEFINE rect == IF t.zoomed = p THEN area ELSE get(t.floats, p).rect
  <2>1. d = [kind |-> "float", tab |-> t.id, pane |-> p, edges |-> edges, original |-> rect]
    BY <1>2 DEF DragFrom
  <2>2. rect \in Rects
    BY <1>1, <1>2, AreaIsRect, GetFloat DEF TabOK, TabForm, FloatRecords
  <2>. HIDE DEF rect, d, t
  <2>3. d \in DragRecords
    BY <2>1, <2>2, <1>1 DEF DragRecords
  <2>. QED
    BY <2>1, <2>3, <1>2 DEF DragOK, t, d
<1>3. CASE p \notin FloatIds(t.floats) /\ t.tree # <<>>
  <2>1. d = [kind |-> "tiled", tab |-> t.id, original |-> t.tree]
    BY <1>3 DEF DragFrom
  <2>. HIDE DEF d, t
  <2>2. d \in DragRecords
    BY <2>1, <1>1 DEF DragRecords
  <2>. QED
    BY <2>1, <2>2, <1>1, <1>3 DEF DragOK, t, d
<1>4. CASE /\ ~(p \in FloatIds(t.floats) /\ ~shift)
           /\ ~(p \notin FloatIds(t.floats) /\ t.tree # <<>>)
  <2>1. d = NoDrag
    BY <1>4 DEF DragFrom
  <2>. QED
    BY <2>1, DroppedIsOK
<1>. QED
    BY <1>2, <1>3, <1>4

\* A press: rollback, end of the edit mode, focus, a drag from what was hit.
LEMMA MousePressStep ==
    ASSUME LayoutInv, NEW p \in PaneIds, NEW frame \in BOOLEAN, NEW edges \in Grips,
           NEW shift \in BOOLEAN, MousePress(p, frame, edges, shift)
    PROVE  StepOK
<1>. DEFINE ts == cancel_pointer_drag(tabs)
            k  == active_tab + 1
            t  == ts[k]
            changed == t.focused # p
            us == IF changed THEN end_float_mode(ts) ELSE ts
            u  == set_focus(us[k], p)
<1>1. /\ ClientEvent /\ p \in visible_projections(t)
      /\ tabs' = [us EXCEPT ![k] = u]
      /\ pointer_drag' = IF frame THEN DragFrom(t, p, edges, shift) ELSE NoDrag
      /\ float_modal' = IF changed THEN NoModal ELSE float_modal
      /\ NoSpawn /\ Keep /\ active_tab' = active_tab /\ next_tab_id' = next_tab_id
    BY DEF MousePress, ActiveTab
<1>2. /\ Looping /\ area \in Areas /\ Kept(tabs, ts, Younger, {}, area) /\ TabsOK(ts)
      /\ k \in DOMAIN ts /\ active_tab \in 0 .. Len(tabs) - 1
      /\ float_modal \in ModalRecords /\ ModalOK(tabs, float_modal)
    BY <1>1, PointerStart
<1>3. Kept(ts, us, {}, {}, area) /\ TabsOK(us) /\ k \in DOMAIN us
  <2>1. Kept(ts, us, {}, {}, area)
    BY <1>2, EndModeKeeps, KeptSelf
  <2>. QED
    BY <2>1, <1>2 DEF Kept
<1>4. us[k].zoomed = t.zoomed
  <2>1. t \in TabRecords
    BY <1>2 DEF TabsOK, TabOK, TabForm
  <2>2. end_float_mode(ts)[k].zoomed = t.zoomed
    BY <1>2, <2>1 DEF end_float_mode, MapTabs, TabRecords
  <2>. QED
    BY <2>2
<1>5. p \in TabPanes(t) \/ p = t.zoomed
  <2>1. visible(t) \subseteq DOMAIN t.floats
    BY DEF visible
  <2>. QED
    BY <1>1, <2>1 DEF visible_projections, TabPanes, FloatIds
<1>6. pointer_drag' \in DragRecords /\ DragOK(ts, pointer_drag')
    BY <1>1, <1>2, DragFromIsOK, DroppedIsOK
<1>7. float_modal' \in ModalRecords /\ ModalOK(tabs, float_modal')
    BY <1>1, <1>2, DroppedIsOK
<1>. HIDE DEF ts, us, k, changed
<1>8. TabOK(us[k]) /\ (p \in TabPanes(us[k]) \/ p = us[k].zoomed)
  <2>1. TabPanes(t) \subseteq TabPanes(us[k])
    BY <1>2, <1>3 DEF Kept, KeptTab, TabPanes
  <2>. QED
    BY <2>1, <1>3, <1>4, <1>5 DEF TabsOK
<1>9. KeptTab(us[k], u, {}, {}, area)
    BY <1>8, FocusTab
<1>. HIDE DEF u
<1>10. Kept(ts, tabs', {}, {}, area)
  <2>1. Kept(us, [us EXCEPT ![k] = u], {}, {}, area)
    BY <1>3, <1>9, ReplaceKept
  <2>2. Kept(us, tabs', {}, {}, area)
    BY <2>1, <1>1
  <2>. QED
    BY <2>2, <1>3, KeptTrans
<1>11. Kept(tabs, tabs', Younger, {}, area)
  <2>1. Kept(ts, tabs', Younger, {}, area)
    BY <1>10, KeptWeaken
  <2>. QED
    BY <2>1, <1>2, KeptTrans
<1>12. DragOK(tabs', pointer_drag')
    BY <1>6, <1>10, DragKept
<1>13. ModalOK(tabs', float_modal')
    BY <1>7, <1>11, ModalKept
<1>. QED
    BY <1>1, <1>2, <1>6, <1>7, <1>11, <1>12, <1>13, EditStep

\* A float of the active tab moved or resized.
LEMMA MoveFloatKeeps ==
    ASSUME LayoutInv, ClientEvent, NEW STATE p, NEW STATE rect,
           p \in FloatIds(tabs[active_tab + 1].floats) => rect \in Rects
    PROVE  Kept(tabs, [tabs EXCEPT ![active_tab + 1].floats = set_rect(@, p, rect, area)],
                {}, {}, area)
<1>. DEFINE k == active_tab + 1
            u == [tabs[k] EXCEPT !.floats = set_rect(tabs[k].floats, p, rect, area)]
<1>1. TabsOK(tabs) /\ area \in Areas /\ k \in DOMAIN tabs
    BY PointerStart
<1>2. [tabs EXCEPT ![active_tab + 1].floats = set_rect(@, p, rect, area)] = [tabs EXCEPT ![k] = u]
    OBVIOUS
<1>3. p \in FloatIds(tabs[k].floats) => rect \in Rects
    OBVIOUS
<1>. HIDE DEF k
<1>4. KeptTab(tabs[k], u, {}, {}, area)
    BY <1>1, <1>3, SetRectTab DEF TabsOK
<1>. HIDE DEF u
<1>5. Kept(tabs, [tabs EXCEPT ![k] = u], {}, {}, area)
    BY <1>1, <1>4, ReplaceKept
<1>. QED
    BY <1>2, <1>5

\* Events of the pointer and of the edit mode that keep every float and tree an
\* edit refers to.
LEMMA EditEventStep ==
    ASSUME LayoutInv, ClientEvent, Kept(tabs, tabs', {}, {}, area), NoSpawn, Keep,
           next_tab_id' = next_tab_id, active_tab' = active_tab,
           pointer_drag' \in {pointer_drag, NoDrag}, float_modal' \in {float_modal, NoModal}
    PROVE  StepOK
<1>1. /\ Looping /\ active_tab \in 0 .. Len(tabs) - 1
      /\ pointer_drag \in DragRecords /\ float_modal \in ModalRecords
      /\ DragOK(tabs, pointer_drag) /\ ModalOK(tabs, float_modal)
    BY PointerStart
<1>2. pointer_drag' \in DragRecords /\ DragOK(tabs, pointer_drag')
    BY <1>1, DroppedIsOK
<1>3. float_modal' \in ModalRecords /\ ModalOK(tabs, float_modal')
    BY <1>1, DroppedIsOK
<1>4. DragOK(tabs', pointer_drag')
    BY <1>2, DragKept
<1>5. ModalOK(tabs', float_modal')
    BY <1>3, ModalKept
<1>6. Kept(tabs, tabs', Younger, {}, area)
    BY KeptWeaken
<1>. QED
    BY <1>1, <1>2, <1>3, <1>4, <1>5, <1>6, EditStep

\* Events that roll a drag back and leave the edit mode.
LEMMA CancelStep ==
    ASSUME LayoutInv, ClientEvent, tabs' = cancel_pointer_drag(tabs), NoSpawn, Keep,
           next_tab_id' = next_tab_id, active_tab' = active_tab,
           pointer_drag' = NoDrag, float_modal' = float_modal
    PROVE  StepOK
<1>1. /\ Looping /\ active_tab \in 0 .. Len(tabs) - 1
      /\ Kept(tabs, tabs', Younger, {}, area)
      /\ float_modal \in ModalRecords /\ ModalOK(tabs, float_modal)
    BY PointerStart
<1>2. ModalOK(tabs', float_modal)
    BY <1>1, ModalKept
<1>. QED
    BY <1>1, <1>2, DroppedIsOK, EditStep

\* update_pointer_drag: the float moves, or a drag of another tab is rolled back.
LEMMA MouseMoveStep ==
    ASSUME LayoutInv, NEW motion \in Motions, MouseMove(motion)
    PROVE  StepOK
<1>. DEFINE d    == pointer_drag
            rect == Edited(d.original, d.edges, motion, area)
<1>1. /\ ClientEvent /\ NoSpawn /\ Keep /\ active_tab' = active_tab /\ next_tab_id' = next_tab_id
      /\ float_modal' = float_modal
    BY DEF MouseMove
<1>2. CASE tabs' = cancel_pointer_drag(tabs) /\ pointer_drag' = NoDrag
    BY <1>1, <1>2, CancelStep
<1>3. CASE /\ tabs' = [tabs EXCEPT ![active_tab + 1].floats = set_rect(@, d.pane, rect, area)]
           /\ d' = d /\ d.kind = "float"
  <2>1. d \in DragRecords /\ area \in Areas
    BY <1>1, PointerStart
  <2>2. d.original \in Rects
    BY <2>1, <1>3 DEF DragRecords, NoDrag
  <2>3. rect \in Rects
    BY <2>1, <2>2, EditedIsRect, LayoutAssumption
  <2>. HIDE DEF rect
  <2>4. Kept(tabs, tabs', {}, {}, area)
    BY <1>1, <1>3, <2>3, MoveFloatKeeps
  <2>. QED
    BY <1>1, <1>3, <2>4, EditEventStep
<1>. QED
    BY <1>2, <1>3 DEF MouseMove

\* The drag ends, committed or rolled back.
LEMMA MouseEndStep ==
    ASSUME LayoutInv, MouseRelease \/ MouseCancel
    PROVE  StepOK
<1>1. /\ ClientEvent /\ NoSpawn /\ Keep /\ active_tab' = active_tab /\ next_tab_id' = next_tab_id
      /\ float_modal' = float_modal /\ pointer_drag' = NoDrag
    BY DEF MouseRelease, MouseCancel
<1>2. CASE tabs' = tabs
  <2>1. Kept(tabs, tabs', {}, {}, area)
    BY <1>1, <1>2, PointerStart, KeptSelf
  <2>. QED
    BY <1>1, <2>1, EditEventStep
<1>3. CASE tabs' = cancel_pointer_drag(tabs)
    BY <1>1, <1>3, CancelStep
<1>. QED
    BY <1>2, <1>3 DEF MouseRelease, MouseCancel

\* The edit mode ends, committed or rolled back.
LEMMA FloatEditEndStep ==
    ASSUME LayoutInv, NEW restore \in BOOLEAN, FloatEditEnd(restore)
    PROVE  StepOK
<1>1. /\ ClientEvent /\ NoSpawn /\ Keep /\ active_tab' = active_tab /\ next_tab_id' = next_tab_id
      /\ float_modal' = NoModal /\ pointer_drag' = pointer_drag
      /\ tabs' = IF restore THEN end_float_mode(tabs) ELSE tabs
    BY DEF FloatEditEnd
<1>2. TabsOK(tabs)
    BY <1>1, PointerStart
<1>3. Kept(tabs, tabs', {}, {}, area)
    BY <1>1, <1>2, EndModeKeeps, KeptSelf
<1>. QED
    BY <1>1, <1>3, EditEventStep

\* float_edit moves or resizes the float, if it is in the active tab.
LEMMA FloatEditStepStep ==
    ASSUME LayoutInv, NEW motion \in Motions, FloatEditStep(motion)
    PROVE  StepOK
<1>. DEFINE fs   == tabs[active_tab + 1].floats
            p    == float_modal.pane
            rect == Edited(get(fs, p).rect, float_modal.edges, motion, area)
<1>1. /\ ClientEvent /\ NoSpawn /\ Keep /\ active_tab' = active_tab /\ next_tab_id' = next_tab_id
      /\ float_modal' = float_modal /\ pointer_drag' = pointer_drag
      /\ tabs' = [tabs EXCEPT ![active_tab + 1].floats = set_rect(@, p, rect, area)]
    BY DEF FloatEditStep
<1>2. TabsOK(tabs) /\ active_tab + 1 \in DOMAIN tabs /\ area \in Areas
    BY <1>1, PointerStart
<1>3. FloatsOK(fs)
    BY <1>2 DEF TabsOK, TabOK, TabForm
<1>4. p \in FloatIds(fs) => rect \in Rects
  <2>. HIDE DEF fs, p
  <2>. SUFFICES ASSUME p \in FloatIds(fs) PROVE rect \in Rects
    OBVIOUS
  <2>1. get(fs, p).rect \in Rects
    BY <1>3, GetFloat DEF FloatRecords
  <2>. QED
    BY <1>2, <2>1, EditedIsRect, LayoutAssumption
<1>. HIDE DEF rect
<1>5. Kept(tabs, tabs', {}, {}, area)
    BY <1>1, <1>4, MoveFloatKeeps
<1>. QED
    BY <1>1, <1>5, EditEventStep

----------------------------------------------------------------------------
(* Connections. *)

\* An event of the connections: no pane comes or goes, the loop goes on.
LEMMA ConnectionStep ==
    ASSUME LayoutInv, Looping, LeaveLayout, Kept(tabs, tabs', Younger, {}, area),
           AllFit(tabs', area'), area' \in Areas, attached' \in Clients \cup {NoClient},
           pointer_drag' \in DragRecords, DragOK(tabs', pointer_drag'),
           float_modal' \in ModalRecords, ModalOK(tabs', float_modal')
    PROVE  StepOK
<1>1. active_tab \in 0 .. Len(tabs) - 1
    BY ActiveIsTab
<1>2. next_pane_id \in 1 .. MaxPane + 1 /\ next_pane_id \in Int /\ procs \in SUBSET PaneIds
    BY DEF LayoutInv, TypeOK
<1>3. /\ running' = running /\ panes' = panes \cup {} /\ procs' \in SUBSET PaneIds
      /\ next_pane_id' = next_pane_id /\ next_tab_id' = next_tab_id /\ active_tab' = active_tab
    BY <1>2 DEF LeaveLayout, NoSpawn
<1>. QED
    BY <1>1, <1>2, <1>3, StepKeeps

\* The tabs fitted to the host of a client after both edits were rolled back.
LEMMA RefittedStep ==
    ASSUME LayoutInv, Looping, LeaveLayout, NEW a \in Areas, tabs' = ClampTabs(Settled, a),
           area' = a, attached' \in Clients \cup {NoClient}, DropEdits
    PROVE  StepOK
<1>1. Kept(tabs, Settled, Younger, {}, area) /\ TabsOK(Settled)
    BY SettledKeeps DEF Looping, Kept
<1>2. area \in Areas
    BY DEF LayoutInv, TypeOK
<1>3. Kept(Settled, tabs', {}, {}, area) /\ AllFit(tabs', a)
    BY <1>1, <1>2, ClampTabsKeeps
<1>4. Kept(tabs, tabs', Younger, {}, area)
  <2>1. Kept(Settled, tabs', Younger, {}, area)
    BY <1>3, KeptWeaken
  <2>. QED
    BY <2>1, <1>1, KeptTrans
<1>5. pointer_drag' = NoDrag /\ float_modal' = NoModal
    BY DEF DropEdits
<1>. QED
    BY <1>3, <1>4, <1>5, DroppedIsOK, ConnectionStep

\* The tabs with both edits rolled back, on the same host.
LEMMA SettledConnectionStep ==
    ASSUME LayoutInv, Looping, LeaveLayout, tabs' = Settled, area' = area,
           attached' \in Clients \cup {NoClient}, DropEdits
    PROVE  StepOK
<1>1. Kept(tabs, tabs', Younger, {}, area)
    BY SettledKeeps DEF Looping
<1>2. AllFit(tabs', area') /\ area' \in Areas
    BY <1>1, KeptFit DEF LayoutInv, TypeOK
<1>3. pointer_drag' = NoDrag /\ float_modal' = NoModal
    BY DEF DropEdits
<1>. QED
    BY <1>1, <1>2, <1>3, DroppedIsOK, ConnectionStep

\* The host changes its size under the attached client.
LEMMA HostResizeStep ==
    ASSUME LayoutInv, NEW a \in Areas, HostResize(a)
    PROVE  StepOK
<1>1. /\ Looping /\ LeaveLayout /\ tabs' = ClampTabs(Settled, a) /\ area' = a /\ DropEdits
      /\ attached' = attached
    BY DEF HostResize, ClientEvent
<1>2. attached' \in Clients \cup {NoClient}
    BY <1>1 DEF LayoutInv, TypeOK
<1>. QED
    BY <1>1, <1>2, RefittedStep

\* A client attaches, is refused, or replaces the one attached.
LEMMA AttachStep ==
    ASSUME LayoutInv, NEW c \in Clients, NEW replace \in BOOLEAN, NEW a \in Areas,
           Attach(c, replace, a)
    PROVE  StepOK
<1>1. Looping /\ LeaveLayout /\ DropEdits
    BY DEF Attach
<1>2. CASE tabs' = Settled /\ attached' = attached /\ area' = area
  <2>1. attached' \in Clients \cup {NoClient}
    BY <1>2 DEF LayoutInv, TypeOK
  <2>. QED
    BY <1>1, <1>2, <2>1, SettledConnectionStep
<1>3. CASE attached' = c /\ area' = a /\ tabs' = ClampTabs(Settled, a)
    BY <1>1, <1>3, RefittedStep
<1>. QED
    BY <1>2, <1>3 DEF Attach

\* The attached client leaves; its edits are rolled back.
LEMMA LeaveStep ==
    ASSUME LayoutInv, Leave
    PROVE  StepOK
<1>1. /\ Looping /\ LeaveLayout /\ DropEdits /\ tabs' = Settled /\ area' = area
      /\ attached' \in Clients \cup {NoClient}
    BY DEF Leave, ClientEvent
<1>. QED
    BY <1>1, SettledConnectionStep

\* A detach whose answer cannot be sent: only the drag is rolled back.
LEMMA DetachSendFailsStep ==
    ASSUME LayoutInv, DetachSendFails
    PROVE  StepOK
<1>1. /\ ClientEvent /\ LeaveLayout /\ tabs' = cancel_pointer_drag(tabs) /\ area' = area
      /\ attached' = attached /\ pointer_drag' = NoDrag /\ float_modal' = float_modal
    BY DEF DetachSendFails
<1>2. NoSpawn /\ Keep /\ next_tab_id' = next_tab_id /\ active_tab' = active_tab
    BY <1>1 DEF LeaveLayout, Keep
<1>. QED
    BY <1>1, <1>2, CancelStep

\* render gives the client up: both edits stay open.
LEMMA FrameDeliveryFailsStep ==
    ASSUME LayoutInv, FrameDeliveryFails
    PROVE  StepOK
<1>1. /\ ClientEvent /\ LeaveLayout /\ tabs' = tabs /\ area' = area /\ attached' = NoClient
      /\ pointer_drag' = pointer_drag /\ float_modal' = float_modal
    BY DEF FrameDeliveryFails
<1>2. Looping /\ Kept(tabs, tabs', Younger, {}, area)
    BY <1>1, PointerStart, KeptSelf
<1>3. /\ AllFit(tabs', area') /\ area' \in Areas /\ attached' \in Clients \cup {NoClient}
      /\ pointer_drag' \in DragRecords /\ DragOK(tabs', pointer_drag')
      /\ float_modal' \in ModalRecords /\ ModalOK(tabs', float_modal')
    BY <1>1, PointerStart DEF LayoutInv, TypeOK
<1>. QED
    BY <1>1, <1>2, <1>3, ConnectionStep

----------------------------------------------------------------------------
(* Automation requests and the end. *)

\* Events that leave the two edits as they are, in tabs that keep their panes.
LEMMA OpenEditsKept ==
    ASSUME LayoutInv, NEW STATE us, NEW STATE new, Kept(tabs, us, {}, new, area)
    PROVE  /\ Kept(tabs, us, Younger, new, area)
           /\ pointer_drag \in DragRecords /\ DragOK(us, pointer_drag)
           /\ float_modal \in ModalRecords /\ ModalOK(us, float_modal)
<1>1. /\ pointer_drag \in DragRecords /\ float_modal \in ModalRecords
      /\ DragOK(tabs, pointer_drag) /\ ModalOK(tabs, float_modal)
    BY DEF LayoutInv, TypeOK, ModalRecords
<1>. QED
    BY <1>1, KeptWeaken, DragKept, ModalKept

\* automation_split: a tile gets a neighbour while edits may be open.
LEMMA MsgSplitStep ==
    ASSUME LayoutInv, NEW p \in PaneIds, MsgSplit(p)
    PROVE  StepOK
<1>1. /\ Looping /\ spawn_pane /\ Keep /\ active_tab' = active_tab /\ next_tab_id' = next_tab_id
      /\ pointer_drag' = pointer_drag /\ float_modal' = float_modal
    BY DEF MsgSplit
<1>2. PICK i \in OwnerIn(tabs, p) :
         /\ p \in ToSet(tabs[i].tree)
         /\ tabs' = [tabs EXCEPT ![i] =
                       set_focus([tabs[i] EXCEPT
                                    !.tree = split_leaf(tabs[i].tree, p, next_pane_id)],
                                 next_pane_id)]
    BY DEF MsgSplit
<1>. DEFINE u == set_focus([tabs[i] EXCEPT !.tree = split_leaf(tabs[i].tree, p, next_pane_id)],
                           next_pane_id)
<1>3. tabs' = [tabs EXCEPT ![i] = u]
    BY <1>2
<1>4. i \in DOMAIN tabs /\ TabsOK(tabs) /\ TabOK(tabs[i])
    BY DEF OwnerIn, LayoutInv, TabsOK
<1>5. {next_pane_id} \cap Owned(tabs) = {}
    BY <1>4, KeptSelf, NextIsNew
<1>6. next_pane_id \in PaneIds
    BY <1>1, LayoutAssumption DEF LayoutInv, TypeOK, spawn_pane, PaneIds
<1>7. next_pane_id \notin TabPanes(tabs[i])
    BY <1>4, <1>5 DEF Owned
<1>8. KeptTab(tabs[i], u, {}, {next_pane_id}, area) /\ next_pane_id \in TabPanes(u)
    BY <1>2, <1>4, <1>6, <1>7, SplitTab
<1>. HIDE DEF u
<1>9. Kept(tabs, tabs', {}, {next_pane_id}, area)
    BY <1>3, <1>4, <1>5, <1>8, ReplaceKept
<1>10. next_pane_id \in Owned(tabs')
  <2>1. i \in DOMAIN tabs' /\ tabs'[i] = u
    BY <1>3, <1>4 DEF TabsOK
  <2>. QED
    BY <2>1, <1>8 DEF Owned
<1>11. active_tab' \in 0 .. Len(tabs) - 1
    BY <1>1, ActiveIsTab
<1>12. /\ Kept(tabs, tabs', Younger, {next_pane_id}, area)
       /\ pointer_drag' \in DragRecords /\ DragOK(tabs', pointer_drag')
       /\ float_modal' \in ModalRecords /\ ModalOK(tabs', float_modal')
    BY <1>1, <1>9, OpenEditsKept
<1>. QED
    BY <1>1, <1>10, <1>11, <1>12, SpawnStep

\* automation_focus: the zoom and the layer give way to the pane it focuses.
LEMMA MsgFocusStep ==
    ASSUME LayoutInv, NEW p \in PaneIds, MsgFocus(p)
    PROVE  StepOK
<1>1. /\ Looping /\ NoSpawn /\ Keep /\ next_tab_id' = next_tab_id
      /\ pointer_drag' = pointer_drag /\ float_modal' = float_modal
    BY DEF MsgFocus
<1>2. PICK i \in OwnerIn(tabs, p) :
         /\ tabs' = [tabs EXCEPT ![i] =
              set_focus([tabs[i] EXCEPT
                  !.ordinary_visible = @ \/ (p \in FloatIds(tabs[i].floats)
                                             /\ ~get(tabs[i].floats, p).pinned),
                  !.zoomed = IF @ # p THEN NoPane ELSE @], p)]
         /\ active_tab' = i - 1
    BY DEF MsgFocus
<1>. DEFINE t == tabs[i]
            visibility == t.ordinary_visible \/ (p \in FloatIds(t.floats) /\ ~get(t.floats, p).pinned)
            zoom == IF t.zoomed # p THEN NoPane ELSE t.zoomed
            u == [t EXCEPT !.ordinary_visible = visibility, !.zoomed = zoom]
            v == set_focus(u, p)
<1>3. tabs' = [tabs EXCEPT ![i] = v]
    BY <1>2
<1>4. i \in DOMAIN tabs /\ TabsOK(tabs) /\ TabOK(t) /\ p \in TabPanes(t)
    BY DEF OwnerIn, LayoutInv, TabsOK
<1>5. visibility \in BOOLEAN /\ zoom \in {t.zoomed, NoPane, t.focused}
    BY <1>4 DEF TabOK, TabForm, TabRecords
<1>. HIDE DEF t, visibility, zoom
<1>6. KeptTab(t, u, {}, {}, area)
    BY <1>4, <1>5, FlagsTab
<1>. HIDE DEF u
<1>7. TabOK(u) /\ p \in TabPanes(u)
    BY <1>4, <1>6 DEF KeptTab, TabPanes
<1>8. KeptTab(u, v, {}, {}, area)
    BY <1>7, FocusTab
<1>. HIDE DEF v
<1>9. KeptTab(t, v, {}, {}, area)
    BY <1>6, <1>8, KeptTabTrans
<1>10. Kept(tabs, tabs', {}, {}, area)
    BY <1>3, <1>4, <1>9, ReplaceKept DEF t
<1>11. active_tab' \in 0 .. Len(tabs) - 1
  <2>1. Len(tabs) \in Nat /\ DOMAIN tabs = 1 .. Len(tabs)
    BY <1>4, LenProperties DEF TabsOK
  <2>. QED
    BY <2>1, <1>2, <1>4
<1>12. /\ Kept(tabs, tabs', Younger, {}, area)
       /\ pointer_drag' \in DragRecords /\ DragOK(tabs', pointer_drag')
       /\ float_modal' \in ModalRecords /\ ModalOK(tabs', float_modal')
    BY <1>1, <1>10, OpenEditsKept
<1>. QED
    BY <1>1, <1>11, <1>12, EditStep

\* The end of the loop leaves the tabs as they are and no pane.
LEMMA TerminateStep ==
    ASSUME LayoutInv, Terminate
    PROVE  StepOK
<1>1. /\ running' = FALSE /\ panes' = {} /\ procs' = {} /\ tabs' = tabs
      /\ active_tab' = active_tab /\ pointer_drag' = pointer_drag /\ float_modal' = float_modal
      /\ attached' = attached /\ area' = area
      /\ next_pane_id' = next_pane_id /\ next_tab_id' = next_tab_id
    BY DEF Terminate
<1>2. TypeOK'
    BY <1>1 DEF LayoutInv, TypeOK
<1>3. LayoutInv'
    BY <1>1, <1>2 DEF LayoutInv
<1>4. PanesStep /\ FocusStep
    BY <1>1 DEF PanesStep, FocusStep
<1>. QED
    BY <1>3, <1>4 DEF StepOK

\* Nothing happens.
LEMMA StutterStep ==
    ASSUME LayoutInv, UNCHANGED vars
    PROVE  StepOK
<1>1. /\ running' = running /\ panes' = panes /\ procs' = procs /\ tabs' = tabs
      /\ active_tab' = active_tab /\ pointer_drag' = pointer_drag /\ float_modal' = float_modal
      /\ attached' = attached /\ area' = area
      /\ next_pane_id' = next_pane_id /\ next_tab_id' = next_tab_id
    BY DEF vars
<1>2. TypeOK'
    BY <1>1 DEF LayoutInv, TypeOK
<1>3. LayoutInv'
    BY <1>1, <1>2 DEF LayoutInv
<1>4. PanesStep
    BY <1>1 DEF PanesStep, LayoutInv
<1>5. FocusStep
    BY <1>1 DEF FocusStep
<1>. QED
    BY <1>3, <1>4, <1>5 DEF StepOK

\* Every step of the actor keeps the invariant and has the two action properties.
LEMMA EveryStep ==
    ASSUME LayoutInv, [Next]_vars
    PROVE  StepOK
<1>1. CASE ClientNext
    BY <1>1, OtherActionStep, SplitStep, NewTabStep, TabChoiceStep, ClosePaneStep, ToggleZoomStep,
       NewFloatingPaneStep, ToggleFloatingPanesStep, TogglePanePinnedStep, EnterFloatModeStep,
       FocusActionStep DEF ClientNext
<1>2. CASE PointerNext
    BY <1>2, MousePressStep, MouseMoveStep, MouseEndStep, FloatEditEndStep, FloatEditStepStep
       DEF PointerNext
<1>3. CASE ConnectionNext
    BY <1>3, HostResizeStep, AttachStep, LeaveStep, DetachSendFailsStep, FrameDeliveryFailsStep
       DEF ConnectionNext
<1>4. CASE PaneNext
    BY <1>4, MsgSplitStep, MsgFocusStep, CloseEventStep DEF PaneNext
<1>5. CASE Terminate
    BY <1>5, TerminateStep
<1>6. CASE UNCHANGED vars
    BY <1>6, StutterStep
<1>. QED
    BY <1>1, <1>2, <1>3, <1>4, <1>5, <1>6 DEF Next

\* The invariant holds of the session as it starts, with one tab and one pane.
LEMMA LayoutInit ==
    ASSUME Init
    PROVE  LayoutInv
<1>. DEFINE u == NewTabRecord(1, 1)
<1>1. /\ running = TRUE /\ panes = {1} /\ procs = {1} /\ tabs = <<u>> /\ active_tab = 0
      /\ pointer_drag = NoDrag /\ float_modal = NoModal /\ attached = NoClient
      /\ area \in Areas /\ next_pane_id = 2 /\ next_tab_id = 2
    BY DEF Init
<1>2. 1 \in PaneIds /\ 1 \in 1 .. MaxTab /\ 2 \in 1 .. MaxPane + 1 /\ 2 \in 1 .. MaxTab + 1
      /\ 0 \in 0 .. MaxTab - 1
    BY LayoutAssumption DEF PaneIds
<1>3. TabOK(u) /\ u.id = 1 /\ TabPanes(u) = {1} /\ \A a : Fits(u.floats, a)
    BY <1>2, NewTabOK
<1>. HIDE DEF u
<1>4. u \in TabRecords
    BY <1>3 DEF TabOK, TabForm
<1>5. /\ tabs \in Seq(TabRecords) /\ Len(tabs) = 1 /\ DOMAIN tabs = {1} /\ tabs[1] = u
      /\ tabs # <<>>
    BY <1>1, <1>4, EmptySeq
<1>6. TypeOK
    BY <1>1, <1>2, <1>5, DroppedIsOK DEF TypeOK, ModalRecords
<1>7. TabsOK(tabs) /\ AllFit(tabs, area) /\ Owned(tabs) = {1}
    BY <1>3, <1>5 DEF TabsOK, AllFit, Owned
<1>8. DragOK(tabs, pointer_drag) /\ ModalOK(tabs, float_modal)
    BY <1>1, DroppedIsOK
<1>9. Len(tabs) < next_tab_id /\ \A i \in DOMAIN tabs : tabs[i].id < next_tab_id
    BY <1>1, <1>3, <1>5
<1>. QED
    BY <1>1, <1>6, <1>7, <1>8, <1>9 DEF LayoutInv

----------------------------------------------------------------------------
(* Theorems. *)

\* The places of a sequence are as many as it is long.
LEMMA PlacesCount ==
    ASSUME NEW n \in Nat
    PROVE  IsFiniteSet(1 .. n) /\ Cardinality(1 .. n) = n
<1>1. /\ IsFiniteSet(1 .. n)
      /\ Cardinality(1 .. n) = IF 1 > n THEN 0 ELSE n - 1 + 1
    BY FS_Interval
<1>. QED
    BY <1>1

\* The number of panes of a tab is what its tree and its layer hold: no pane
\* twice, and none in both.
LEMMA TabCounts ==
    ASSUME NEW t, TabForm(t)
    PROVE  Len(t.tree) + Len(t.floats) = Cardinality(TabPanes(t))
<1>. DEFINE ids  == [i \in DOMAIN t.floats |-> t.floats[i].pane]
            tiles == ToSet(t.tree)
            over  == FloatIds(t.floats)
<1>1. /\ Len(t.tree) \in Nat /\ DOMAIN t.tree = 1 .. Len(t.tree) /\ t.tree \in Seq(PaneIds)
      /\ Len(t.floats) \in Nat /\ DOMAIN t.floats = 1 .. Len(t.floats)
    BY LenProperties DEF TabForm, TabRecords, FloatsOK
<1>2. IsFiniteSet(tiles) /\ Cardinality(tiles) = Len(t.tree)
  <2>1. t.tree \in Bijection(1 .. Len(t.tree), tiles)
    <3>1. t.tree \in [1 .. Len(t.tree) -> tiles]
      BY <1>1 DEF ToSet
    <3>2. \A x \in tiles : \E i \in 1 .. Len(t.tree) : t.tree[i] = x
      BY <1>1 DEF ToSet
    <3>3. \A i, j \in 1 .. Len(t.tree) : t.tree[i] = t.tree[j] => i = j
      BY <1>1 DEF TabForm, IsInjective
    <3>. QED
      BY <3>1, <3>2, <3>3 DEF Bijection, Injection, Surjection, IsInjective
  <2>2. ExistsBijection(1 .. Len(t.tree), tiles)
    BY <2>1 DEF ExistsBijection
  <2>3. IsFiniteSet(1 .. Len(t.tree)) /\ Cardinality(1 .. Len(t.tree)) = Len(t.tree)
    BY <1>1, PlacesCount
  <2>. HIDE DEF tiles
  <2>4. IsFiniteSet(tiles) /\ Cardinality(tiles) = Cardinality(1 .. Len(t.tree))
    BY <2>2, <2>3, FS_Bijection
  <2>. QED
    BY <2>3, <2>4
<1>3. IsFiniteSet(over) /\ Cardinality(over) = Len(t.floats)
  <2>1. ids \in Bijection(1 .. Len(t.floats), over)
    <3>1. ids \in [1 .. Len(t.floats) -> over]
      BY <1>1 DEF FloatIds
    <3>2. \A x \in over : \E i \in 1 .. Len(t.floats) : ids[i] = x
      BY <1>1 DEF FloatIds
    <3>3. \A i, j \in 1 .. Len(t.floats) : ids[i] = ids[j] => i = j
      BY <1>1 DEF TabForm, FloatsOK
    <3>. QED
      BY <3>1, <3>2, <3>3 DEF Bijection, Injection, Surjection, IsInjective
  <2>2. ExistsBijection(1 .. Len(t.floats), over)
    BY <2>1 DEF ExistsBijection
  <2>3. IsFiniteSet(1 .. Len(t.floats)) /\ Cardinality(1 .. Len(t.floats)) = Len(t.floats)
    BY <1>1, PlacesCount
  <2>. HIDE DEF over
  <2>4. IsFiniteSet(over) /\ Cardinality(over) = Cardinality(1 .. Len(t.floats))
    BY <2>2, <2>3, FS_Bijection
  <2>. QED
    BY <2>3, <2>4
<1>4. tiles \cap over = {}
    BY DEF TabForm
<1>. HIDE DEF tiles, over
<1>5. Cardinality(tiles \cap over) = 0
    BY <1>4, FS_EmptySet
<1>6. Cardinality(tiles \cup over) = Cardinality(tiles) + Cardinality(over) - Cardinality(tiles \cap over)
    BY <1>2, <1>3, FS_Union
<1>7. TabPanes(t) = tiles \cup over
    BY DEF TabPanes, tiles, over
<1>. QED
    BY <1>1, <1>2, <1>3, <1>5, <1>6, <1>7

\* The invariant says what LayoutPanesLive says, counts of panes included.
LEMMA InvIsPanesLive ==
    ASSUME LayoutInv
    PROVE  LayoutPanesLive
<1>1. TypeOK /\ TabsOK(tabs) /\ (running => Owned(tabs) \subseteq panes)
    BY DEF LayoutInv
<1>2. ASSUME NEW k \in DOMAIN tabs
      PROVE  LET t == tabs[k]
                 fs == t.floats
             IN  /\ Len(t.tree) + Len(fs) = Cardinality(TabPanes(t))
                 /\ ~is_empty(t)
                 /\ \A i, j \in DOMAIN fs : i < j => (fs[i].pinned => fs[j].pinned)
  <2>1. TabForm(tabs[k]) /\ ~is_empty(tabs[k])
    BY <1>1 DEF TabsOK, TabOK
  <2>2. Len(tabs[k].tree) + Len(tabs[k].floats) = Cardinality(TabPanes(tabs[k]))
    BY <2>1, TabCounts
  <2>3. \A i, j \in DOMAIN tabs[k].floats :
           i < j => (tabs[k].floats[i].pinned => tabs[k].floats[j].pinned)
    BY <2>1 DEF TabForm, FloatsOK
  <2>. QED
    BY <2>1, <2>2, <2>3, Zenon
<1>3. OwnedOnce
    BY <1>1, <1>2 DEF OwnedOnce, TabsOK
<1>. QED
    BY <1>1, <1>3 DEF LayoutPanesLive

\* The invariant says what EditTargetsLive says.
LEMMA InvIsTargetsLive ==
    ASSUME LayoutInv
    PROVE  EditTargetsLive
<1>1. /\ pointer_drag \in DragRecords
      /\ DragOK(tabs, pointer_drag) /\ ModalOK(tabs, float_modal)
      /\ running => Owned(tabs) \subseteq panes
    BY DEF LayoutInv, TypeOK
<1>2. ASSUME running, pointer_drag # NoDrag
      PROVE  \E i \in DOMAIN tabs :
                /\ tabs[i].id = pointer_drag.tab
                /\ IF pointer_drag.kind = "float"
                   THEN pointer_drag.pane \in FloatIds(tabs[i].floats)
                   ELSE ToSet(pointer_drag.original) \subseteq panes
  <2>1. pointer_drag.kind = "tiled" \/ pointer_drag.kind = "float"
    BY <1>1, <1>2 DEF DragRecords
  <2>2. CASE pointer_drag.kind = "tiled"
    <3>1. PICK i \in DOMAIN tabs : /\ tabs[i].id = pointer_drag.tab
                                   /\ ToSet(pointer_drag.original) \subseteq ToSet(tabs[i].tree)
      BY <1>1, <2>2 DEF DragOK
    <3>2. ToSet(tabs[i].tree) \subseteq panes
      BY <1>1, <1>2 DEF Owned, TabPanes
    <3>. QED
      BY <3>1, <3>2, <2>2
  <2>3. CASE pointer_drag.kind = "float"
    BY <1>1, <2>3 DEF DragOK
  <2>. QED
    BY <2>1, <2>2, <2>3
<1>3. float_modal # NoModal =>
         \E i \in DOMAIN tabs : float_modal.pane \in FloatIds(tabs[i].floats)
    BY <1>1 DEF ModalOK
<1>. QED
    BY <1>2, <1>3 DEF EditTargetsLive

\* The invariant holds in every state of every behaviour of the actor.
THEOREM LayoutInvHolds == Spec => []LayoutInv
<1>1. Init => LayoutInv
    BY LayoutInit
<1>2. LayoutInv /\ [Next]_vars => LayoutInv'
    BY EveryStep DEF StepOK
<1>. QED
    BY <1>1, <1>2, PTL DEF Spec

\* No interleaving of drags, edit modes, closes, exits, splits and attaches makes
\* a tab lay out a pane that is gone, or one pane twice (cancel_pointer_drag,
\* close_pane and FloatingLayer of the session actor).
THEOREM PanesLiveHolds == Spec => []LayoutPanesLive
<1>1. LayoutInv => LayoutPanesLive
    BY InvIsPanesLive
<1>. QED
    BY <1>1, LayoutInvHolds, PTL

\* Every float is inside the host it would be drawn on, on all four sides and no
\* smaller than a float may be, however it was moved, resized, restored or carried
\* to a smaller host (clamp_rect, clamp_all, update_rect).
THEOREM FloatsFitHolds == Spec => []FloatsFitHost
<1>1. LayoutInv => FloatsFitHost
    BY DEF LayoutInv, AllFit, Fits, FloatsFitHost
<1>. QED
    BY <1>1, LayoutInvHolds, PTL

\* What a rollback will write back is never stale because of a close
\* (pointer_drag and float_modal against close_pane).
THEOREM TargetsLiveHolds == Spec => []EditTargetsLive
<1>1. LayoutInv => EditTargetsLive
    BY InvIsTargetsLive
<1>. QED
    BY <1>1, LayoutInvHolds, PTL

\* A live pane stays laid out until it closes, but for the rollback of a tiled
\* drag that began before the pane was made (cancel_pointer_drag).
THEOREM PanesKeptHolds == Spec => PanesKept
<1>1. LayoutInv /\ [Next]_vars => PanesStep
    BY EveryStep DEF StepOK
<1>2. PanesStep =>
      (running' =>
       \A p \in panes' \ Owned(tabs') :
          p \in panes /\ (p \in Owned(tabs) => p \in Younger))
    BY DEF PanesStep
<1>. QED
    BY <1>1, <1>2, LayoutInvHolds, PTL DEF Spec, PanesKept

\* The focus and the zoom of a tab with tiles stay with its own panes through every
\* close, exit and rollback (close_pane, fallback_focus, cancel_pointer_drag).
THEOREM TiledFocusHolds == Spec => TiledFocusKept
<1>1. LayoutInv /\ [Next]_vars => FocusStep
    BY EveryStep DEF StepOK
<1>2. FocusStep =>
      ((\A i \in DOMAIN tabs : FocusSound(tabs[i])) =>
       \A i \in DOMAIN tabs' :
          FocusSound(tabs'[i]) \/ {tabs'[i].focused, tabs'[i].zoomed} \cap Younger # {})
    BY DEF FocusStep
<1>. QED
    BY <1>1, <1>2, LayoutInvHolds, PTL DEF Spec, TiledFocusKept
=============================================================================

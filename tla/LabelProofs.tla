---------------------------- MODULE LabelProofs ----------------------------
(***************************************************************************)
(* Proofs about the labels: whatever string somebody named a branch, a     *)
(* commit or an image, its label is one the API server accepts; and two    *)
(* strings that both had to be changed keep different labels.              *)
(***************************************************************************)
EXTENDS SourceLabels, WellFoundedInduction, SequenceTheorems, TLAPS

\* A set of positions has a first one.
LEMMA FirstPosition ==
  ASSUME NEW n \in Nat, NEW S, S \subseteq 1..n, S # {}
  PROVE  Min(S) \in S /\ \A i \in S : Min(S) <= i
<1> DEFINE R == {ss \in Nat \X Nat : ss[1] < ss[2]}
<1>1. IsWellFoundedOn(R, Nat)
  BY NatLessThanWellFounded DEF OpToRel
<1>2. S \subseteq Nat
  OBVIOUS
<1> HIDE DEF R
<1>3. PICK m \in S : \A i \in S : ~(<<i, m>> \in R)
  BY <1>1, <1>2, WFMin, Zenon
<1>4. ASSUME NEW i \in S PROVE m <= i
  <2>1. i \in Nat /\ m \in Nat /\ ~(<<i, m>> \in R)
    BY <1>2, <1>3
  <2>2. ~(i < m)
    BY <2>1, Zenon DEF R
  <2> QED BY <2>1, <2>2
<1> QED BY <1>4 DEF Min

\* ... and a last one.
LEMMA LastPosition ==
  ASSUME NEW n \in Nat, NEW S, S \subseteq 1..n, S # {}
  PROVE  Max(S) \in S /\ \A i \in S : i <= Max(S)
<1> DEFINE T == {n + 1 - i : i \in S}
<1>1. \A i \in S : i \in 1..n /\ n + 1 - i \in 1..n /\ n + 1 - i \in T
  OBVIOUS
<1>2. T \subseteq 1..n /\ T # {}
  BY <1>1
<1>3. PICK t \in T : \A u \in T : t <= u
  BY <1>1, <1>2, FirstPosition
<1>4. PICK m \in S : t = n + 1 - m
  BY <1>3
<1>5. ASSUME NEW i \in S PROVE i <= m
  <2>1. t <= n + 1 - i
    BY <1>1, <1>3
  <2> QED BY <1>1, <1>4, <2>1
<1> QED BY <1>5 DEF Max

LEMMA TrimmedLeft ==
  ASSUME NEW Chars, NEW s \in Seq(Chars), NEW keep
  PROVE  LET t == TrimLeft(s, keep)
         IN  /\ t \in Seq(Chars) /\ Len(t) <= Len(s)
             /\ t # <<>> => t[1] \in keep /\ t[Len(t)] = s[Len(s)]
<1> DEFINE kept == {i \in 1..Len(s) : s[i] \in keep}
<1>1. CASE kept = {}
  BY <1>1 DEF TrimLeft
<1>2. CASE kept # {}
  <2>1. Min(kept) \in kept
    <3>1. kept \subseteq 1..Len(s) /\ Len(s) \in Nat
      OBVIOUS
    <3> HIDE DEF kept
    <3> QED BY <1>2, <3>1, FirstPosition
  <2>2. TrimLeft(s, keep) = SubSeq(s, Min(kept), Len(s))
    BY <1>2 DEF TrimLeft
  <2> HIDE DEF kept
  <2>3. Min(kept) \in 1..Len(s) /\ s[Min(kept)] \in keep
    BY <2>1 DEF kept
  <2> QED BY <2>2, <2>3, SubSeqProperties
<1> QED BY <1>1, <1>2

LEMMA TrimmedRight ==
  ASSUME NEW Chars, NEW s \in Seq(Chars), NEW keep
  PROVE  LET t == TrimRight(s, keep)
         IN  /\ t \in Seq(Chars) /\ Len(t) <= Len(s)
             /\ t # <<>> => t[1] = s[1] /\ t[Len(t)] \in keep
<1> DEFINE kept == {i \in 1..Len(s) : s[i] \in keep}
<1>1. CASE kept = {}
  BY <1>1 DEF TrimRight
<1>2. CASE kept # {}
  <2>1. Max(kept) \in kept
    <3>1. kept \subseteq 1..Len(s) /\ Len(s) \in Nat
      OBVIOUS
    <3> HIDE DEF kept
    <3> QED BY <1>2, <3>1, LastPosition
  <2>2. TrimRight(s, keep) = SubSeq(s, 1, Max(kept))
    BY <1>2 DEF TrimRight
  <2> HIDE DEF kept
  <2>3. Max(kept) \in 1..Len(s) /\ s[Max(kept)] \in keep
    BY <2>1 DEF kept
  <2> QED BY <2>2, <2>3, SubSeqProperties
<1> QED BY <1>1, <1>2

LEMMA Spelled ==
  ASSUME NEW s \in Seq(Nat), NEW chars, Dash \in chars
  PROVE  Spell(s, chars) \in Seq(chars) /\ Len(Spell(s, chars)) = Len(s)
BY DEF Spell

LEMMA Truncated ==
  ASSUME NEW Chars, NEW s \in Seq(Chars), NEW n \in Nat
  PROVE  /\ Truncate(s, n) \in Seq(Chars) /\ Len(Truncate(s, n)) <= n
         /\ Truncate(s, n) # <<>> => s # <<>> /\ Truncate(s, n)[1] = s[1]
BY SubSeqProperties DEF Truncate

\* What is left of a string between its letters and digits.
LEMMA Trimmed ==
  ASSUME NEW Chars, NEW s \in Seq(Chars)
  PROVE  LET t == trimNonAlnum(s)
         IN  /\ t \in Seq(Chars) /\ Len(t) <= Len(s)
             /\ t # <<>> => t[1] \in Alnum /\ t[Len(t)] \in Alnum
<1> DEFINE left == TrimLeft(s, Alnum)
           t    == TrimRight(left, Alnum)
<1>1. /\ left \in Seq(Chars) /\ Len(left) <= Len(s)
      /\ left # <<>> => left[1] \in Alnum
  BY TrimmedLeft
<1> HIDE DEF left
<1>2. /\ t \in Seq(Chars) /\ Len(t) <= Len(left)
      /\ t # <<>> => t[1] = left[1] /\ t[Len(t)] \in Alnum
  BY <1>1, TrimmedRight
<1>3. t # <<>> => left # <<>>
  BY <1>1, <1>2
<1> QED BY <1>1, <1>2, <1>3 DEF trimNonAlnum, left

-----------------------------------------------------------------------------
(* Labels.                                                                  *)

\* The string without what a label cannot hold, with room left for the hash.
Base(raw) == trimNonAlnum(Truncate(Spell(raw, LabelChars), LabelMax - 1 - HashLen))

LEMMA BaseTyped ==
  ASSUME NEW raw \in Raw
  PROVE  /\ Base(raw) \in Seq(LabelChars) /\ Len(Base(raw)) <= LabelMax - 1 - HashLen
         /\ Base(raw) # <<>> => Base(raw)[1] \in Alnum
<1> DEFINE spelled == Spell(raw, LabelChars)
           room == LabelMax - 1 - HashLen
           cut  == Truncate(spelled, room)
<1>1. room \in Nat /\ raw \in Seq(Nat) /\ Dash \in LabelChars
  BY SourceLabelsAssumption DEF LabelChars
<1>2. spelled \in Seq(LabelChars)
  BY <1>1, Spelled
<1> HIDE DEF spelled, room
<1>3. cut \in Seq(LabelChars) /\ Len(cut) <= room
  BY <1>1, <1>2, Truncated
<1> HIDE DEF cut
<1>4. /\ trimNonAlnum(cut) \in Seq(LabelChars)
      /\ Len(trimNonAlnum(cut)) <= Len(cut)
      /\ trimNonAlnum(cut) # <<>> => trimNonAlnum(cut)[1] \in Alnum
  BY <1>3, Trimmed
<1>5. Len(trimNonAlnum(cut)) <= room
  BY <1>1, <1>3, <1>4
<1> QED BY <1>4, <1>5 DEF Base, cut, spelled, room

LEMMA HashTyped ==
  ASSUME NEW raw \in Raw
  PROVE  /\ ShortHash(raw) \in Seq(LabelChars) /\ Len(ShortHash(raw)) = HashLen
         /\ \A i \in 1..HashLen : ShortHash(raw)[i] \in Alnum
<1>1. Digits \union 97..102 \subseteq Alnum /\ Alnum \subseteq LabelChars
  BY DEF Alnum, Digits, Lower, LabelChars
<1> QED BY <1>1, SourceLabelsAssumption

\* Where a string was changed its label is a base and a hash, with a dash between
\* them, or the hash alone.
LEMMA ChangedLabel ==
  ASSUME NEW raw \in Raw, ~IsValidLabelValue(raw)
  PROVE  LET label == SanitizeLabelValue(raw)
             n     == Len(Base(raw))
         IN  /\ label \in Seq(LabelChars)
             /\ \/ n = 0 /\ label = ShortHash(raw)
                \/ /\ n > 0 /\ Len(label) = n + 1 + HashLen
                   /\ label[1] = Base(raw)[1]
                   /\ \A i \in 1..HashLen : label[n + 1 + i] = ShortHash(raw)[i]
<1> DEFINE base == Base(raw)
           hash == ShortHash(raw)
           stem == base \o <<Dash>>
<1>1. /\ base \in Seq(LabelChars) /\ hash \in Seq(LabelChars) /\ Len(hash) = HashLen
      /\ <<Dash>> \in Seq(LabelChars) /\ Len(base) \in Nat /\ HashLen \in Nat
  BY BaseTyped, HashTyped, SourceLabelsAssumption DEF LabelChars
<1>2. SanitizeLabelValue(raw) = IF base = <<>> THEN hash ELSE stem \o hash
  BY DEF SanitizeLabelValue, Base
<1> HIDE DEF base, hash
<1>3. /\ stem \in Seq(LabelChars) /\ Len(stem) = Len(base) + 1
      /\ Len(base) > 0 => stem[1] = base[1]
  BY <1>1, ConcatProperties
<1> HIDE DEF stem
<1>4. /\ stem \o hash \in Seq(LabelChars)
      /\ Len(stem \o hash) = Len(base) + 1 + HashLen
      /\ (stem \o hash)[1] = stem[1]
      /\ \A i \in 1..HashLen : (stem \o hash)[Len(base) + 1 + i] = hash[i]
  <2>1. /\ stem \o hash \in Seq(LabelChars)
        /\ Len(stem \o hash) = Len(stem) + HashLen
        /\ \A j \in 1..Len(stem) + HashLen : (stem \o hash)[j] =
              IF j <= Len(stem) THEN stem[j] ELSE hash[j - Len(stem)]
    BY <1>1, <1>3, ConcatProperties
  <2>2. ASSUME NEW i \in 1..HashLen
        PROVE  (stem \o hash)[Len(base) + 1 + i] = hash[i]
    <3>1. /\ Len(base) + 1 + i \in 1..Len(stem) + HashLen
          /\ ~(Len(base) + 1 + i <= Len(stem))
          /\ Len(base) + 1 + i - Len(stem) = i
      BY <1>1, <1>3
    <3> QED BY <2>1, <3>1
  <2>3. (stem \o hash)[1] = stem[1]
    BY <1>1, <1>3, <2>1
  <2> QED BY <1>3, <2>1, <2>2, <2>3
<1>5. base = <<>> <=> Len(base) = 0
  BY <1>1
<1> QED BY <1>1, <1>2, <1>3, <1>4, <1>5 DEF base, hash

\* Whatever a branch, a commit or an image was named, its label is accepted
\* (SanitizeLabelValue).
THEOREM SanitizedIsValid ==
  ASSUME NEW raw \in Raw
  PROVE  IsValidLabelValue(SanitizeLabelValue(raw))
<1>1. CASE IsValidLabelValue(raw)
  BY <1>1 DEF SanitizeLabelValue
<1>2. CASE ~IsValidLabelValue(raw)
  <2> DEFINE label == SanitizeLabelValue(raw)
  <2>1. /\ label \in Seq(LabelChars) /\ HashLen \in Nat \ {0} /\ LabelMax \in Nat
        /\ LabelMax > HashLen + 1
    BY <1>2, ChangedLabel, SourceLabelsAssumption
  <2>2. Len(label) \in 1..LabelMax /\ label[1] \in Alnum /\ label[Len(label)] \in Alnum
    <3>1. CASE Len(Base(raw)) = 0
      BY <1>2, <2>1, <3>1, ChangedLabel, HashTyped
    <3>2. CASE Len(Base(raw)) > 0
      <4>1. /\ Len(label) = Len(Base(raw)) + 1 + HashLen /\ label[1] = Base(raw)[1]
            /\ label[Len(Base(raw)) + 1 + HashLen] = ShortHash(raw)[HashLen]
        BY <1>2, <2>1, <3>2, ChangedLabel
      <4>2. ShortHash(raw)[HashLen] \in Alnum
        BY <2>1, HashTyped
      <4>3. Base(raw)[1] \in Alnum /\ Len(Base(raw)) <= LabelMax - 1 - HashLen
        BY <3>2, BaseTyped
      <4> QED BY <2>1, <3>2, <4>1, <4>2, <4>3
    <3> QED BY <3>1, <3>2, BaseTyped
  <2> QED BY <2>1, <2>2 DEF IsValidLabelValue
<1> QED BY <1>1, <1>2

\* Two strings that both had to be changed keep different labels when their hashes
\* differ, however alike what is left of them (SanitizeLabelValue).
THEOREM SanitizedStaysDistinct ==
  ASSUME NEW raw \in Raw, NEW other \in Raw, ShortHash(raw) # ShortHash(other),
         ~IsValidLabelValue(raw), ~IsValidLabelValue(other)
  PROVE  SanitizeLabelValue(raw) # SanitizeLabelValue(other)
<1> SUFFICES ASSUME SanitizeLabelValue(raw) = SanitizeLabelValue(other)
             PROVE  FALSE
  OBVIOUS
<1> DEFINE label == SanitizeLabelValue(raw)
<1>1. ASSUME NEW one \in {raw, other}, NEW i \in 1..HashLen
      PROVE  label[Len(label) - HashLen + i] = ShortHash(one)[i]
  <2>1. /\ HashLen \in Nat /\ Len(Base(one)) \in Nat /\ Len(ShortHash(one)) = HashLen
        /\ label = SanitizeLabelValue(one)
    BY BaseTyped, HashTyped, SourceLabelsAssumption
  <2>2. CASE Len(Base(one)) = 0
    BY <2>1, <2>2, ChangedLabel
  <2>3. CASE Len(Base(one)) > 0
    <3>1. Len(label) = Len(Base(one)) + 1 + HashLen
      BY <2>1, <2>3, ChangedLabel
    <3>2. label[Len(Base(one)) + 1 + i] = ShortHash(one)[i]
      BY <2>1, <2>3, ChangedLabel
    <3> QED BY <2>1, <3>1, <3>2
  <2> QED BY <2>1, <2>2, <2>3
<1>2. ShortHash(raw) = ShortHash(other)
  <2> DEFINE one == ShortHash(raw)
             two == ShortHash(other)
  <2>1. \A i \in 1..HashLen : one[i] = two[i]
    BY <1>1
  <2>2. /\ one \in [1..HashLen -> Digits \union 97..102]
        /\ two \in [1..HashLen -> Digits \union 97..102]
    BY SourceLabelsAssumption
  <2> HIDE DEF one, two
  <2>3. /\ one = [i \in 1..HashLen |-> one[i]] /\ two = [i \in 1..HashLen |-> two[i]]
    BY <2>2, Zenon
  <2>4. [i \in 1..HashLen |-> one[i]] = [i \in 1..HashLen |-> two[i]]
    BY <2>1, Zenon
  <2> QED BY <2>3, <2>4, Zenon DEF one, two
<1> QED BY <1>2

\* Whatever a branch was named, a run can be named after it (GenerateNamePrefix).
THEOREM PrefixIsValid ==
  ASSUME NEW raw \in Raw
  PROVE  IsValidPrefix(GenerateNamePrefix(raw))
<1> DEFINE notDash == Digits \union Lower
           chars   == notDash \union {Dash}
           lowered == Spell(ToLower(raw), chars)
           left    == TrimLeft(lowered, notDash)
           cut     == Truncate(left, PrefixMax - 1)
           base    == TrimRight(cut, notDash)
           named   == IF base = <<>> THEN <<114, 117, 110>> ELSE base
<1>1. /\ raw \in Seq(Nat) /\ PrefixMax \in Nat /\ PrefixMax > 3 /\ Dash \in chars
      /\ Dash \notin notDash /\ 114 \in notDash /\ 117 \in notDash /\ 110 \in notDash
  BY SourceLabelsAssumption DEF Digits, Lower, Dash
<1>2. ToLower(raw) \in Seq(Nat)
  <2>1. ASSUME NEW i \in 1..Len(raw)
        PROVE  (IF raw[i] \in Upper THEN raw[i] + 32 ELSE raw[i]) \in Nat
    BY <1>1
  <2> QED BY <1>1, <2>1 DEF ToLower
<1> HIDE DEF notDash
<1>3. lowered \in Seq(chars)
  BY <1>1, <1>2, Spelled
<1> HIDE DEF chars, lowered
<1>4. left \in Seq(chars) /\ (left # <<>> => left[1] \in notDash)
  BY <1>3, TrimmedLeft
<1> HIDE DEF left
<1>5. /\ cut \in Seq(chars) /\ Len(cut) <= PrefixMax - 1
      /\ cut # <<>> => cut[1] \in notDash
  BY <1>1, <1>4, Truncated
<1> HIDE DEF cut
<1>6. /\ base \in Seq(chars) /\ Len(base) <= Len(cut)
      /\ base # <<>> => base[1] = cut[1]
  BY <1>5, TrimmedRight
<1>7. base # <<>> => base[1] \in notDash
  BY <1>5, <1>6
<1>8. Len(base) <= PrefixMax - 1
  BY <1>1, <1>5, <1>6
<1> HIDE DEF base
<1>9. /\ named \in Seq(chars) /\ Len(named) \in 1..(PrefixMax - 1)
      /\ named[1] \in notDash
  <2>1. <<114, 117, 110>> \in Seq(chars)
    BY <1>1 DEF chars
  <2> QED BY <1>1, <1>6, <1>7, <1>8, <2>1
<1> HIDE DEF named
<1>10. /\ named \o <<Dash>> \in Seq(chars) /\ Len(named \o <<Dash>>) = Len(named) + 1
       /\ (named \o <<Dash>>)[1] = named[1]
  BY <1>1, <1>9
<1>11. GenerateNamePrefix(raw) = named \o <<Dash>>
  BY DEF GenerateNamePrefix, named, base, cut, left, lowered, chars, notDash
<1>12. /\ Len(GenerateNamePrefix(raw)) \in 2..PrefixMax
       /\ GenerateNamePrefix(raw)[1] # Dash
       /\ GenerateNamePrefix(raw) \in Seq(chars)
  BY <1>1, <1>9, <1>10, <1>11
<1> QED BY <1>12 DEF IsValidPrefix, chars, notDash
=============================================================================

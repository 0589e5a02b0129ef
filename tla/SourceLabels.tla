--------------------------- MODULE SourceLabels ---------------------------
(***************************************************************************)
(* The labels a run carries of the revision it is for, and the prefix of   *)
(* its name.  Both are made of strings other people choose: branch names,  *)
(* commits, image names and tags.  The API server refuses a run whose      *)
(* labels or name are not valid, and two references with the same labels   *)
(* share their runs.                                                       *)
(*                                                                         *)
(* A string is the sequence of the code points of its characters.          *)
(***************************************************************************)
EXTENDS Integers, Sequences, FiniteSetsExt

CONSTANTS
  Raw,           \* the strings to be made labels of
  ShortHash(_),  \* the first digits of the sha256 of a string
  HashLen,       \* 8 in the code
  LabelMax,      \* 63 in the code
  PrefixMax      \* 57 in the code: the longest prefix, with its last "-"

Digits == 48..57
Upper == 65..90
Lower == 97..122
Dash == 45
Slash == 47

Alnum == Digits \union Upper \union Lower

\* The letters and digits, "-", "_" and ".".
LabelChars == Alnum \union {Dash, 95, 46}

ASSUME SourceLabelsAssumption ==
  /\ HashLen \in Nat \ {0} /\ LabelMax \in Nat /\ PrefixMax \in Nat
  /\ LabelMax > HashLen + 1 /\ PrefixMax > 3
  /\ Raw \subseteq Seq(Nat)
  /\ \A raw \in Raw : ShortHash(raw) \in [1..HashLen -> Digits \union 97..102]

-----------------------------------------------------------------------------
(* What the API server demands.                                            *)

IsValidLabelValue(s) ==
  \/ s = <<>>
  \/ /\ Len(s) <= LabelMax
     /\ \A i \in 1..Len(s) : s[i] \in LabelChars
     /\ s[1] \in Alnum /\ s[Len(s)] \in Alnum

\* A generateName prefix: with a few letters appended it is a DNS label.
IsValidPrefix(s) ==
  /\ Len(s) \in 2..PrefixMax
  /\ \A i \in 1..Len(s) : s[i] \in Digits \union Lower \union {Dash}
  /\ s[1] # Dash

-----------------------------------------------------------------------------
(* Strings.                                                                *)

\* Every character that is not among those gives way to a dash.
Spell(s, chars) == [i \in 1..Len(s) |-> IF s[i] \in chars THEN s[i] ELSE Dash]

Truncate(s, n) == IF Len(s) > n THEN SubSeq(s, 1, n) ELSE s

TrimLeft(s, keep) ==
  LET kept == {i \in 1..Len(s) : s[i] \in keep}
  IN  IF kept = {} THEN <<>> ELSE SubSeq(s, Min(kept), Len(s))

TrimRight(s, keep) ==
  LET kept == {i \in 1..Len(s) : s[i] \in keep}
  IN  IF kept = {} THEN <<>> ELSE SubSeq(s, 1, Max(kept))

\* Mutant: nothing is trimmed after the cut.
trimNothing(s) == s

trimNonAlnum(s) == TrimRight(TrimLeft(s, Alnum), Alnum)

\* ASCII letters; no other letter of the instances has a lower case.
ToLower(s) == [i \in 1..Len(s) |-> IF s[i] \in Upper THEN s[i] + 32 ELSE s[i]]

-----------------------------------------------------------------------------
\* Mutant: two strings that are spelled alike have one label.
SanitizeWithoutHash(raw) ==
  IF IsValidLabelValue(raw) THEN raw
  ELSE trimNonAlnum(Truncate(Spell(raw, LabelChars), LabelMax))

\* A valid label value for any string: itself if it is one, or else what is left
\* of it, and a hash that tells it from the others.
SanitizeLabelValue(raw) ==
  LET base == trimNonAlnum(Truncate(Spell(raw, LabelChars), LabelMax - 1 - HashLen))
  IN  IF IsValidLabelValue(raw) THEN raw
      ELSE IF base = <<>> THEN ShortHash(raw)
      ELSE base \o <<Dash>> \o ShortHash(raw)

\* A prefix of a valid name for any string; the API server tells the names apart.
GenerateNamePrefix(raw) ==
  LET lowered == Spell(ToLower(raw), Digits \union Lower \union {Dash})
      notDash == Digits \union Lower
      base == TrimRight(Truncate(TrimLeft(lowered, notDash), PrefixMax - 1), notDash)
  IN  (IF base = <<>> THEN <<114, 117, 110>> ELSE base) \o <<Dash>>

-----------------------------------------------------------------------------
(* The labels of the three kinds of source.                                *)

rewriteBranchName(name) == [i \in 1..Len(name) |-> IF name[i] = Slash THEN Dash ELSE name[i]]

BranchLabels(name, commit) ==
  <<SanitizeLabelValue(rewriteBranchName(name)), SanitizeLabelValue(commit)>>

GitRepositoryLabels(branch, commit) ==
  <<SanitizeLabelValue(branch), SanitizeLabelValue(commit)>>

\* The last element of the path; the repository in front of it is no label.
ImageName(path) ==
  LET slashes == {i \in 1..Len(path) : path[i] = Slash} \union {0}
  IN  SubSeq(path, Max(slashes) + 1, Len(path))

ImagePolicyLabels(path, tag) ==
  <<SanitizeLabelValue(ImageName(path)), SanitizeLabelValue(tag)>>
=============================================================================

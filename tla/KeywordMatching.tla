--------------------------- MODULE KeywordMatching --------------------------
(***************************************************************************)
(* Fuzzy keywords (app/processing/keywords.py): a long phrase of one word  *)
(* also hits words that are one edit away.  A word is a sequence of        *)
(* letters; phrase and word are typed letter by letter.                    *)
(***************************************************************************)
EXTENDS Naturals, Sequences

CONSTANTS
  Letters,
  Shortest,  \* 6: shorter phrases and words are only matched exactly
  MaxLength  \* bound: letters of a word

VARIABLES phrase, word

keywordVars == <<phrase, word>>

\* The loop of levenshtein_at_most_one, the longer word having one letter more: skipped[i]
\* compares from position i of the shorter one on after a mismatch (mismatch_seen, the
\* long index is one ahead), walk[i] before any.
\* A mismatch skips a letter of both.
WalkFrom_Mutant(shorter, longer) ==
  LET skipped[i \in 1 .. Len(shorter) + 1] ==
        IF i > Len(shorter) THEN 1
        ELSE IF shorter[i] = longer[i + 1] THEN skipped[i + 1] ELSE 2
      walk[i \in 1 .. Len(shorter) + 1] ==
        IF i > Len(shorter) THEN 1
        ELSE IF shorter[i] = longer[i] THEN walk[i + 1] ELSE skipped[i + 1]
  IN  walk[1]

WalkFrom(shorter, longer) ==
  LET skipped[i \in 1 .. Len(shorter) + 1] ==
        IF i > Len(shorter) THEN 1
        ELSE IF shorter[i] = longer[i + 1] THEN skipped[i + 1] ELSE 2
      walk[i \in 1 .. Len(shorter) + 1] ==
        IF i > Len(shorter) THEN 1
        ELSE IF shorter[i] = longer[i] THEN walk[i + 1] ELSE skipped[i]
  IN  walk[1]

\* levenshtein_at_most_one: 2 stands for more than 1
Distance(left, right) ==
  LET mismatches == {i \in DOMAIN left : left[i] # right[i]} IN
  IF left = right THEN 0
  ELSE IF Len(left) > Len(right) + 1 \/ Len(right) > Len(left) + 1 THEN 2
  ELSE IF Len(left) = Len(right)
       THEN IF \A i, j \in mismatches : i = j THEN 1 ELSE 2
  ELSE IF Len(left) < Len(right) THEN WalkFrom(left, right) ELSE WalkFrom(right, left)

\* match_fuzzy_word, tried when the phrase itself does not occur
FuzzyHit ==
  Len(phrase) >= Shortest /\ Len(word) >= Shortest /\ Distance(phrase, word) <= 1

KeywordInit == phrase = <<>> /\ word = <<>>

Type(l) ==
  \/ Len(phrase) < MaxLength /\ phrase' = Append(phrase, l) /\ UNCHANGED word
  \/ Len(word) < MaxLength /\ word' = Append(word, l) /\ UNCHANGED phrase

KeywordNext == \E l \in Letters : Type(l)

KeywordSpec == KeywordInit /\ [][KeywordNext]_keywordVars

-----------------------------------------------------------------------------
(* Properties *)

Without(w, i) == SubSeq(w, 1, i - 1) \o SubSeq(w, i + 1, Len(w))

OneEdit(v, w) ==
  \/ v = w
  \/ \E i \in DOMAIN v : Without(v, i) = w
  \/ \E i \in DOMAIN w : Without(w, i) = v
  \/ \E i \in DOMAIN v : Len(v) = Len(w) /\ Without(v, i) = Without(w, i)

\* A word is hit exactly when one letter added, removed or replaced makes the
\* phrase of it, and both are long enough for that to mean something.
FuzzyIsOneEdit ==
  FuzzyHit <=> Len(phrase) >= Shortest /\ Len(word) >= Shortest /\ OneEdit(phrase, word)

=============================================================================

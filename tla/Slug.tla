-------------------------------- MODULE Slug --------------------------------
(***************************************************************************)
(* Slug.ts: the slug of an organization, given in a request or derived from *)
(* the organization's name.  A text is a sequence of characters, and a      *)
(* character stands for all those the code treats alike: "a" for a small    *)
(* letter or a digit, "A" for a capital, "accented" for a letter that NFD    *)
(* takes apart, "accent" for a diacritic by itself, "other" for the rest.    *)
(***************************************************************************)
EXTENDS Integers, Sequences, FiniteSets

CONSTANTS
    MinSlugLength, MaxSlugLength,
    TextLength      \* bound: the longest text checked

ASSUME SlugAssumption ==
    /\ MinSlugLength \in Nat \ {0} /\ TextLength \in Nat
    /\ MaxSlugLength \in Nat /\ MinSlugLength < MaxSlugLength

Characters == {"a", "A", "accented", "accent", "-", " ", "other"}

VARIABLE text   \* what a client gives for a slug, or for a name to derive one from

(* What a text is refused with is an exception; no slug is empty. *)
Refused == <<>>

-----------------------------------------------------------------------------
(* The k-th smallest of a finite set of numbers. *)
Nth(S, k) == CHOOSE i \in S : Cardinality({j \in S : j =< i}) = k

(* The characters of s at the positions in S, which is all that replacing matches by
   nothing, trimming and slicing leave of a text. *)
Kept(s, S) == [k \in 1..Cardinality(S) |-> s[Nth(S, k)]]

(* The text from its first to its last character outside S. *)
TrimEdges(s, S) ==
    Kept(s, {i \in DOMAIN s : /\ \E j \in 1..i : s[j] \notin S
                              /\ \E j \in i..Len(s) : s[j] \notin S})

Lower(s) == [i \in DOMAIN s |-> IF s[i] = "A" THEN "a" ELSE s[i]]

(* NFD takes an accented letter apart into the letter and a diacritic; all of these go. *)
WithoutDiacritics(s) ==
    Kept([i \in DOMAIN s |-> IF s[i] = "accented" THEN "a" ELSE s[i]],
         {i \in DOMAIN s : s[i] # "accent"})

(* Each run of anything but small letters and digits becomes one hyphen. *)
Hyphenate(s) ==
    Kept([i \in DOMAIN s |-> IF s[i] = "a" THEN "a" ELSE "-"],
         {i \in DOMAIN s : i = 1 \/ s[i] = "a" \/ s[i - 1] = "a"})

Slice(s) == Kept(s, DOMAIN s \cap 1..MaxSlugLength)

NormalizeTextTrimmedOnce(s) ==
    Slice(TrimEdges(Hyphenate(Lower(WithoutDiacritics(s))), {"-"}))

(* The cut may fall on a hyphen, so the edges are trimmed again after it. *)
NormalizeText(s) ==
    TrimEdges(Slice(TrimEdges(Hyphenate(Lower(WithoutDiacritics(s))), {"-"})), {"-"})

SlugShapeOfCharacters(s) == \A i \in DOMAIN s : s[i] \in {"a", "-"}

(* Groups of small letters and digits, with one hyphen between two of them. *)
SlugShape(s) ==
    /\ \A i \in DOMAIN s : s[i] \in {"a", "-"}
    /\ Head(s) = "a" /\ s[Len(s)] = "a"
    /\ \A i \in 2..Len(s) : ~(s[i - 1] = "-" /\ s[i] = "-")

(* Slug.Create: what is provided, without the blanks around it and in small letters. *)
ReadSlug(s) ==
    LET slug == Lower(TrimEdges(s, {" "}))
    IN  IF Len(slug) \in MinSlugLength..MaxSlugLength /\ SlugShape(slug) THEN slug ELSE Refused

SlugFromText(s) == ReadSlug(NormalizeText(s))

-----------------------------------------------------------------------------
(* Every text, a character at a time. *)
Compose == Len(text) < TextLength /\ \E c \in Characters : text' = Append(text, c)

Discard == text # <<>> /\ text' = <<>>

Texts == text = <<>> /\ [][Compose \/ Discard]_text

-----------------------------------------------------------------------------
Letters == {i \in DOMAIN text : text[i] \in {"a", "A", "accented"}}

(* Whatever stands between or around them, letters and digits enough for a slug make one,
   also where the cut at the length limit falls badly; a text without any makes none. *)
LettersMakeASlug ==
    /\ Cardinality(Letters) >= MinSlugLength => SlugFromText(text) # Refused
    /\ Letters = {} => SlugFromText(text) = Refused

(* A slug that was accepted is read as itself ever after: from the path of a request, from
   the snapshot in the cache, and as the name of an organization. *)
SlugsAreStable ==
    \A slug \in {ReadSlug(text), SlugFromText(text)} \ {Refused} :
        ReadSlug(slug) = slug /\ SlugFromText(slug) = slug
=============================================================================

--------------------------- MODULE Routing_proofs ---------------------------
(***************************************************************************)
(* Proofs about the router of Front, for every path: that a request is     *)
(* never handed to a handler for something that its URL does not name, and *)
(* that only names with the router's own words can be out of reach.        *)
(*                                                                         *)
(* The argument is about paths.  The last two segments of a path tell      *)
(* which pattern it could be the URL of, and where the name would end      *)
(* (Ending); so it has at most one reading (OneReading).  What a pattern   *)
(* finds with a valid reference is a reading (FoundStands): the router     *)
(* cannot hand on anything else.  Conversely a reading is found by its     *)
(* pattern, because no later place of the words leaves a reference of one  *)
(* segment (StandsFinds), and after a plain name no earlier pattern finds  *)
(* anything (NothingEarlier), except for the one that looks for "blobs",   *)
(* "uploads" in the URL of a new upload, which discards what it finds.     *)
(***************************************************************************)
EXTENDS Front_proofs, SequenceTheorems

-----------------------------------------------------------------------------
(* Every path has at most one reading *)

\* In p the words of the pattern k follow the first i segments, and after them
\* stands a reference of that kind.
Stands(p, k, i) ==
    LET w == Pattern[k].words IN
    /\ i > 0
    /\ i + Len(w) <= Len(p)
    /\ \A x \in 1..Len(w) : p[i + x] = w[x]
    /\ ValidReference(Pattern[k].kind, SubSeq(p, i + Len(w) + 1, Len(p)))

\* What stands before and after the n words that follow the first i segments.
Name(p, i) == SubSeq(p, 1, i)
Reference(p, k, i) == SubSeq(p, i + Len(Pattern[k].words) + 1, Len(p))

\* The empty segment.
Blank == ""

LEMMA ReferenceFacts ==
    ASSUME NEW k \in Kind, NEW a, ValidReference(k, a)
    PROVE  /\ k \in {"manifest", "upload", "blob", "referrers"} =>
                  Len(a) = 1 /\ a[1] \in Segment \ {Blank}
           /\ k \in {"uploads", "tags"} => Len(a) = 0
           /\ k = "upload" => a[1] \in UploadId
           /\ k \in {"blob", "referrers"} => a[1] \in Digest
<1>1. CASE k = "manifest"
  BY <1>1, SegmentAssumption DEF ValidReference, Blank
<1>2. CASE k = "upload"
  BY <1>2, SegmentAssumption DEF ValidReference, Blank
<1>3. CASE k = "blob" \/ k = "referrers"
  BY <1>3, SegmentAssumption DEF ValidReference, Blank
<1>4. CASE k = "uploads" \/ k = "tags"
  <2>1. a = <<>>
    BY <1>4 DEF ValidReference
  <2> QED BY <1>4, <2>1
<1> QED BY <1>1, <1>2, <1>3, <1>4 DEF Kind

\* The segments of what follows the words.
LEMMA RestFacts ==
    ASSUME NEW p \in Seq(Segment), NEW i \in Nat, NEW n \in Nat, i + n <= Len(p)
    PROVE  /\ SubSeq(p, i + n + 1, Len(p)) \in Seq(Segment)
           /\ Len(SubSeq(p, i + n + 1, Len(p))) = Len(p) - (i + n)
           /\ i + n = Len(p) - 1 =>
                  SubSeq(p, i + n + 1, Len(p))[1] = p[Len(p)]
<1>1. Len(p) \in Nat /\ \A x \in (i + n + 1)..Len(p) : p[x] \in Segment
  OBVIOUS
<1>2. /\ SubSeq(p, i + n + 1, Len(p)) \in Seq(Segment)
      /\ Len(SubSeq(p, i + n + 1, Len(p))) =
            IF i + n + 1 <= Len(p) THEN Len(p) - (i + n + 1) + 1 ELSE 0
      /\ \A x \in 1..(Len(p) - (i + n + 1) + 1) :
            SubSeq(p, i + n + 1, Len(p))[x] = p[i + n + 1 + x - 1]
  BY <1>1, SubSeqProperties
<1>3. Len(SubSeq(p, i + n + 1, Len(p))) = Len(p) - (i + n)
  BY <1>1, <1>2
<1>4. ASSUME i + n = Len(p) - 1
      PROVE  SubSeq(p, i + n + 1, Len(p))[1] = p[Len(p)]
  <2>1. 1 \in 1..(Len(p) - (i + n + 1) + 1) /\ i + n + 1 + 1 - 1 = Len(p)
    BY <1>1, <1>4
  <2> QED BY <1>2, <2>1
<1> QED BY <1>2, <1>3, <1>4

\* What can be told from the last of the L segments: where the words stand, and
\* which they are.
Ending(p, L, k, i) ==
    /\ k = 1 => i = L - 2 /\ p[L - 1] = "manifests"
    /\ k = 2 => i = L - 3 /\ p[L - 2] = "blobs" /\ p[L - 1] = "uploads"
                          /\ p[L] \in UploadId
    /\ k = 3 => i = L - 3 /\ p[L - 2] = "blobs" /\ p[L - 1] = "uploads"
                          /\ p[L] = Blank
    /\ k = 4 => i = L - 2 /\ p[L - 1] = "blobs" /\ p[L] = "uploads"
    /\ k = 5 => i = L - 2 /\ p[L - 1] = "blobs" /\ p[L] \in Digest
    /\ k = 6 => i = L - 2 /\ p[L - 1] = "tags" /\ p[L] = "list"
    /\ k = 7 => i = L - 2 /\ p[L - 1] = "referrers" /\ p[L] \in Digest

LEMMA StandsEnd ==
    ASSUME NEW p \in Seq(Segment), NEW k \in 1..7, NEW i \in Nat, Stands(p, k, i),
           NEW L \in Nat, L = Len(p)
    PROVE  Ending(p, L, k, i)
<1>1. k \in DOMAIN Pattern
  BY DEF Pattern
<1>0. PICK w : w = Pattern[k].words
  OBVIOUS
<1>2. PICK n \in 1..3 : n = Len(w) /\ w = Pattern[k].words
  BY <1>0, <1>1, PatternFacts
<1> DEFINE R == SubSeq(p, i + n + 1, Len(p))
<1>a. i + n <= Len(p)
  BY <1>2 DEF Stands
<1>b. /\ p[i + 1] = w[1]
      /\ n >= 2 => p[i + 2] = w[2]
      /\ n = 3 => p[i + 3] = w[3]
  <2>1. \A x \in 1..n : p[i + x] = w[x]
    BY <1>2 DEF Stands
  <2> QED BY <2>1
<1>c. PICK l \in Nat : l = Len(R)
  <2>1. R \in Seq(Segment)
    BY <1>a, RestFacts
  <2> HIDE DEF R
  <2> QED BY <2>1
<1>e. l = L - (i + n)
  BY <1>a, <1>c, RestFacts
<1>f. i + n = L - 1 => R[1] = p[L]
  BY <1>a, RestFacts
<1>d. Pattern[k].kind \in Kind /\ ValidReference(Pattern[k].kind, R)
  BY <1>1, <1>2, PatternFacts DEF Stands
<1> HIDE DEF R
<1>3. CASE k = 1
  <2>1. n = 1 /\ w[1] = "manifests" /\ Pattern[k].kind = "manifest"
    BY <1>2, <1>3 DEF Pattern
  <2>2. Len(R) = 1
    BY <1>d, <2>1, ReferenceFacts
  <2>3. l = 1
    BY <1>c, <2>2
  <2> QED BY <1>3, <1>b, <1>e, <1>f, <2>1, <2>2, <2>3 DEF Ending
<1>4. CASE k = 2
  <2>1. /\ n = 2 /\ w[1] = "blobs" /\ w[2] = "uploads"
        /\ Pattern[k].kind = "upload"
    BY <1>2, <1>4 DEF Pattern
  <2>2. Len(R) = 1 /\ R[1] \in UploadId
    BY <1>d, <2>1, ReferenceFacts
  <2>3. l = 1
    BY <1>c, <2>2
  <2> QED BY <1>4, <1>b, <1>e, <1>f, <2>1, <2>2, <2>3 DEF Ending
<1>5. CASE k = 3
  <2>1. /\ n = 3 /\ w[1] = "blobs" /\ w[2] = "uploads" /\ w[3] = Blank
        /\ Pattern[k].kind = "uploads"
    BY <1>2, <1>5 DEF Pattern, Blank
  <2>2. Len(R) = 0
    BY <1>d, <2>1, ReferenceFacts
  <2>3. l = 0
    BY <1>c, <2>2
  <2>4. i = L - 3 /\ i + 1 = L - 2 /\ i + 2 = L - 1 /\ i + 3 = L
    BY <1>e, <2>1, <2>3
  <2>5. p[L - 2] = "blobs" /\ p[L - 1] = "uploads" /\ p[L] = Blank
    BY <1>b, <2>1, <2>4
  <2> QED BY <1>5, <2>4, <2>5 DEF Ending
<1>6. CASE k = 4
  <2>1. /\ n = 2 /\ w[1] = "blobs" /\ w[2] = "uploads"
        /\ Pattern[k].kind = "uploads"
    BY <1>2, <1>6 DEF Pattern
  <2>2. Len(R) = 0
    BY <1>d, <2>1, ReferenceFacts
  <2>3. l = 0
    BY <1>c, <2>2
  <2> QED BY <1>6, <1>b, <1>e, <1>f, <2>1, <2>2, <2>3 DEF Ending
<1>7. CASE k = 5
  <2>1. n = 1 /\ w[1] = "blobs" /\ Pattern[k].kind = "blob"
    BY <1>2, <1>7 DEF Pattern
  <2>2. Len(R) = 1 /\ R[1] \in Digest
    BY <1>d, <2>1, ReferenceFacts
  <2>3. l = 1
    BY <1>c, <2>2
  <2> QED BY <1>7, <1>b, <1>e, <1>f, <2>1, <2>2, <2>3 DEF Ending
<1>8. CASE k = 6
  <2>1. n = 2 /\ w[1] = "tags" /\ w[2] = "list" /\ Pattern[k].kind = "tags"
    BY <1>2, <1>8 DEF Pattern
  <2>2. Len(R) = 0
    BY <1>d, <2>1, ReferenceFacts
  <2>3. l = 0
    BY <1>c, <2>2
  <2> QED BY <1>8, <1>b, <1>e, <1>f, <2>1, <2>2, <2>3 DEF Ending
<1>9. CASE k = 7
  <2>1. n = 1 /\ w[1] = "referrers" /\ Pattern[k].kind = "referrers"
    BY <1>2, <1>9 DEF Pattern
  <2>2. Len(R) = 1 /\ R[1] \in Digest
    BY <1>d, <2>1, ReferenceFacts
  <2>3. l = 1
    BY <1>c, <2>2
  <2> QED BY <1>9, <1>b, <1>e, <1>f, <2>1, <2>2, <2>3 DEF Ending
<1> QED BY <1>3, <1>4, <1>5, <1>6, <1>7, <1>8, <1>9

\* What no segment can be at once.
LEMMA SegmentFacts ==
    /\ Blank \notin UploadId /\ Blank \notin Digest /\ "uploads" \notin Digest
    /\ \A n \in RepoName : n # <<Blank>>
<1>1. Blank \notin UploadId /\ Blank \notin Digest /\ "uploads" \notin Digest
  BY SegmentAssumption, DigestAssumption DEF Blank
<1>2. ASSUME NEW n \in RepoName, n = <<Blank>> PROVE FALSE
  <2>1. n[1] # Blank
    BY SegmentAssumption DEF RepoName, Blank
  <2> QED BY <1>2, <2>1
<1> QED BY <1>1, <1>2

\* The last two segments tell every pattern from every other.
LEMMA OneReading ==
    ASSUME NEW p \in Seq(Segment), NEW k \in 1..7, NEW i \in Nat, Stands(p, k, i),
           NEW j \in 1..7, NEW h \in Nat, Stands(p, j, h)
    PROVE  k = j /\ i = h
<1>1. PICK L \in Nat : L = Len(p)
  OBVIOUS
<1>2. Ending(p, L, k, i) /\ Ending(p, L, j, h)
  BY <1>1, StandsEnd
<1>3. PICK x, y : x = p[L - 1] /\ y = p[L]
  OBVIOUS
<1> DEFINE E(l) ==
      /\ l = 1 => x = "manifests"
      /\ l = 2 => x = "uploads" /\ y \in UploadId
      /\ l = 3 => x = "uploads" /\ y = Blank
      /\ l = 4 => x = "blobs" /\ y = "uploads"
      /\ l = 5 => x = "blobs" /\ y \in Digest
      /\ l = 6 => x = "tags"
      /\ l = 7 => x = "referrers"
           F(l, g) == g = L - (IF l \in {2, 3} THEN 3 ELSE 2)
<1>4. E(k) /\ E(j)
  BY <1>2, <1>3 DEF Ending
<1>5. F(k, i) /\ F(j, h)
  BY <1>2 DEF Ending
<1>6. k = j
  <2> QED BY <1>4, SegmentFacts
<1> QED BY <1>5, <1>6

-----------------------------------------------------------------------------
(* What the router finds *)

Word == {"manifests", "blobs", "uploads", "tags", "list", "referrers", Blank}

LEMMA WordFacts ==
    /\ Pattern[1].words = <<"manifests">>        /\ ~Pattern[1].ends
    /\ Pattern[2].words = <<"blobs", "uploads">> /\ ~Pattern[2].ends
    /\ Pattern[3].words = <<"blobs", "uploads", Blank>> /\ Pattern[3].ends
    /\ Pattern[4].words = <<"blobs", "uploads">> /\ Pattern[4].ends
    /\ Pattern[5].words = <<"blobs">>            /\ ~Pattern[5].ends
    /\ Pattern[6].words = <<"tags", "list">>     /\ Pattern[6].ends
    /\ Pattern[7].words = <<"referrers">>        /\ ~Pattern[7].ends
BY DEF Pattern, Blank

LEMMA PatternShape ==
    ASSUME NEW k \in 1..7
    PROVE  /\ k \in DOMAIN Pattern
           /\ Pattern[k].kind \in Kind
           /\ Pattern[k].words \in Seq(Word)
           /\ Len(Pattern[k].words) \in 1..3
           /\ Pattern[k].ends <=> k \in {3, 4, 6}
           /\ Pattern[k].ends <=> Pattern[k].kind \in {"uploads", "tags"}
           /\ Pattern[k].kind = "manifest" <=> k = 1
<1>1. k \in DOMAIN Pattern
  BY DEF Pattern
<1>2. \A x, y, z \in Word : /\ <<x>> \in Seq(Word) /\ <<x, y>> \in Seq(Word)
                            /\ <<x, y, z>> \in Seq(Word)
  OBVIOUS
<1>3. {"manifests", "blobs", "uploads", "tags", "list", "referrers", Blank}
          \subseteq Word
  BY DEF Word
<1>4. Pattern[k].words \in Seq(Word)
  <2>1. k \in {1, 5, 7} \/ k \in {2, 4, 6} \/ k = 3
    OBVIOUS
  <2>2. ASSUME k \in {1, 5, 7}
        PROVE  \E x \in Word : Pattern[k].words = <<x>>
    BY <1>3, <2>2, WordFacts
  <2>3. ASSUME k \in {2, 4, 6}
        PROVE  \E x, y \in Word : Pattern[k].words = <<x, y>>
    BY <1>3, <2>3, WordFacts
  <2>4. ASSUME k = 3
        PROVE  \E x, y, z \in Word : Pattern[k].words = <<x, y, z>>
    BY <1>3, <2>4, WordFacts
  <2> QED BY <1>2, <2>1, <2>2, <2>3, <2>4
<1>5. Pattern[k].ends <=> k \in {3, 4, 6}
  BY WordFacts
<1>6. /\ Pattern[1].kind = "manifest" /\ Pattern[2].kind = "upload"
      /\ Pattern[3].kind = "uploads" /\ Pattern[4].kind = "uploads"
      /\ Pattern[5].kind = "blob" /\ Pattern[6].kind = "tags"
      /\ Pattern[7].kind = "referrers"
  BY DEF Pattern
<1>7. Pattern[k].ends <=> Pattern[k].kind \in {"uploads", "tags"}
  BY <1>6, WordFacts
<1>8. Pattern[k].kind = "manifest" <=> k = 1
  BY <1>6
<1> QED BY <1>1, <1>4, <1>5, <1>7, <1>8, PatternFacts

\* The segments of p from a on are w if each of them is.
LEMMA SliceFacts ==
    ASSUME NEW p \in Seq(Segment), NEW w \in Seq(Word), NEW a \in Nat, NEW b \in Nat,
           a + Len(w) = b, b <= Len(p)
    PROVE  SubSeq(p, a + 1, b) = w <=> \A x \in 1..Len(w) : p[a + x] = w[x]
<1>1. PICK n \in Nat : n = Len(w) /\ b = a + n
  OBVIOUS
<1>2. \A x \in (a + 1)..b : p[x] \in Segment \cup Word
  <2>1. \A x \in 1..Len(p) : p[x] \in Segment
    OBVIOUS
  <2> QED BY <2>1, <1>1
<1>3. /\ SubSeq(p, a + 1, b) \in Seq(Segment \cup Word)
      /\ Len(SubSeq(p, a + 1, b)) = IF a + 1 <= b THEN b - (a + 1) + 1 ELSE 0
      /\ \A x \in 1..(b - (a + 1) + 1) : SubSeq(p, a + 1, b)[x] = p[a + 1 + x - 1]
  BY <1>2, SubSeqProperties
<1>4. Len(SubSeq(p, a + 1, b)) = n
  BY <1>1, <1>3
<1>5. \A x \in 1..n : SubSeq(p, a + 1, b)[x] = p[a + x]
  <2>1. ASSUME NEW x \in 1..n PROVE x \in 1..(b - (a + 1) + 1) /\ a + 1 + x - 1 = a + x
    BY <1>1
  <2> QED BY <1>3, <2>1
<1>6. w \in Seq(Segment \cup Word)
  OBVIOUS
<1>7. ASSUME \A x \in 1..Len(w) : p[a + x] = w[x]
      PROVE  SubSeq(p, a + 1, b) = w
  <2>1. \A x \in 1..Len(SubSeq(p, a + 1, b)) : SubSeq(p, a + 1, b)[x] = w[x]
    BY <1>1, <1>4, <1>5, <1>7
  <2> QED BY <1>1, <1>3, <1>4, <1>6, <2>1, SeqEqual
<1>8. ASSUME SubSeq(p, a + 1, b) = w, NEW x \in 1..Len(w)
      PROVE  p[a + x] = w[x]
  BY <1>1, <1>5, <1>8
<1> QED BY <1>7, <1>8

\* h + 1 is a place of the words w.
LEMMA PlaceFacts ==
    ASSUME NEW p \in Seq(Segment), NEW w \in Seq(Word), NEW h \in Nat
    PROVE  h + 1 \in Places(p, w) <=>
               /\ h > 0 /\ h + 1 + Len(w) <= Len(p)
               /\ \A x \in 1..Len(w) : p[h + x] = w[x]
<1>1. PICK n \in Nat, L \in Nat : n = Len(w) /\ L = Len(p)
  OBVIOUS
<1>2. h + 1 \in 2..(L - n) <=> h > 0 /\ h + 1 + n <= L
  OBVIOUS
<1>3. h + 1 + n - 1 = h + n
  OBVIOUS
<1>4. h + 1 \in Places(p, w) <=>
          /\ h + 1 \in 2..(L - n)
          /\ SubSeq(p, h + 1, h + n) = w
  BY <1>1, <1>3 DEF Places
<1>5. ASSUME h + 1 + n <= L
      PROVE  SubSeq(p, h + 1, h + n) = w <=> \A x \in 1..Len(w) : p[h + x] = w[x]
  <2>1. PICK b \in Nat : b = h + n /\ b <= L
    BY <1>5
  <2>2. h + Len(w) = b /\ b <= Len(p)
    BY <1>1, <2>1
  <2>3. SubSeq(p, h + 1, b) = w <=> \A x \in 1..Len(w) : p[h + x] = w[x]
    BY <2>2, SliceFacts
  <2> QED BY <2>1, <2>3
<1> QED BY <1>1, <1>2, <1>4, <1>5

\* Without a place of their first word, words are not found.
LEMMA NotSplit ==
    ASSUME NEW p \in Seq(Segment), NEW w \in Seq(Word), Len(w) \in 1..3,
           NEW L \in Nat, L = Len(p),
           \A h \in 2..(L - Len(w)) : p[h] # w[1]
    PROVE  SplitLast(p, w) = {}
<1>1. ASSUME NEW i \in Places(p, w) PROVE FALSE
  <2>1. i \in 2..(L - Len(w)) /\ i \in Int
    BY DEF Places
  <2>2. PICK h \in Nat : h + 1 = i
    <3>1. i - 1 \in Nat /\ (i - 1) + 1 = i
      BY <2>1
    <3> QED BY <3>1
  <2>3. p[h + 1] = w[1]
    <3>1. 1 \in 1..Len(w) /\ h + 1 \in Places(p, w)
      BY <2>2
    <3> QED BY <3>1, PlaceFacts
  <2> QED BY <2>1, <2>2, <2>3
<1> QED BY <1>1 DEF SplitLast

\* A path in whose end a word is missing does not end with the words.
LEMMA NotSuffix ==
    ASSUME NEW p \in Seq(Segment), NEW w \in Seq(Word),
           NEW L \in Nat, L = Len(p), NEW a \in Nat, a + Len(w) = L,
           NEW x \in 1..Len(w), p[a + x] # w[x]
    PROVE  StripSuffix(p, w) = {}
<1>1. ASSUME NEW i \in {Len(p) - Len(w)}, i > 0, SubSeq(p, i + 1, Len(p)) = w
      PROVE  FALSE
  <2>1. PICK n \in Nat : n = Len(w)
    OBVIOUS
  <2>2. L - n = a
    BY <2>1
  <2>3. i = a
    BY <1>1, <2>1, <2>2
  <2>4. SubSeq(p, a + 1, L) = w
    BY <1>1, <2>3
  <2>5. L <= Len(p)
    OBVIOUS
  <2>6. \A y \in 1..Len(w) : p[a + y] = w[y]
    BY <2>4, <2>5, SliceFacts
  <2> QED BY <2>6
<1> QED BY <1>1 DEF StripSuffix

\* What stands before and after the last place of the words decides.
LEMMA LastPlace ==
    ASSUME NEW p \in Seq(Segment), NEW w \in Seq(Word), NEW i \in Nat,
           NEW j \in Nat, j = i + 1, j \in Places(p, w),
           \A g \in Places(p, w) : g <= j
    PROVE  /\ Cut(p, j, w) = <<Name(p, i), SubSeq(p, i + Len(w) + 1, Len(p))>>
           /\ SplitLast(p, w) =
                 {c \in {Cut(p, j, w)} : c[1] # <<Blank>> /\ c[2] # <<Blank>>}
<1>1. PICK n \in Nat : n = Len(w)
  OBVIOUS
<1>2. j - 1 = i /\ j + n = i + n + 1
  OBVIOUS
<1>3. Cut(p, j, w) = <<Name(p, i), SubSeq(p, i + Len(w) + 1, Len(p))>>
  BY <1>1, <1>2 DEF Cut, Name
<1>4. \A g \in Places(p, w) : g \in Int
  BY DEF Places
<1>5. {g \in Places(p, w) : \A f \in Places(p, w) : f <= g} = {j}
  <2>1. ASSUME NEW g \in Int, g \in Places(p, w), j <= g PROVE g = j
    BY <2>1
  <2> QED BY <1>4, <2>1
<1> DEFINE M == {g \in Places(p, w) : \A f \in Places(p, w) : f <= g}
<1>6. SplitLast(p, w) =
          {c \in {Cut(p, g, w) : g \in M} : c[1] # <<Blank>> /\ c[2] # <<Blank>>}
  BY DEF SplitLast, Blank
<1>7. {Cut(p, g, w) : g \in M} = {Cut(p, j, w)}
  BY <1>5
<1> QED BY <1>3, <1>6, <1>7

LEMMA ReferenceLength ==
    ASSUME NEW p \in Seq(Segment), NEW k \in 1..7, NEW i \in Nat, Stands(p, k, i)
    PROVE  Len(Reference(p, k, i)) = Len(p) - (i + Len(Pattern[k].words))
<1>1. PICK n \in Nat : n = Len(Pattern[k].words)
  BY PatternShape
<1>2. i + n <= Len(p)
  BY <1>1 DEF Stands
<1>3. Len(SubSeq(p, i + n + 1, Len(p))) = Len(p) - (i + n)
  BY <1>2, RestFacts
<1> QED BY <1>1, <1>2, <1>3 DEF Reference

\* The words that stand before a reference of one segment have no later place.
LEMMA StandsPlace ==
    ASSUME NEW p \in Seq(Segment), NEW k \in 1..7, NEW i \in Nat, Stands(p, k, i),
           ~Pattern[k].ends, NEW j \in Nat, j = i + 1
    PROVE  /\ j \in Places(p, Pattern[k].words)
           /\ \A g \in Places(p, Pattern[k].words) : g <= j
           /\ Reference(p, k, i) # <<Blank>>
<1>0. PICK w \in Seq(Word) : w = Pattern[k].words
  BY PatternShape
<1>1. PICK n \in Nat, L \in Nat : w = Pattern[k].words /\ n = Len(w) /\ L = Len(p)
  BY <1>0
<1>2. /\ Pattern[k].kind \in {"manifest", "upload", "blob", "referrers"}
      /\ ValidReference(Pattern[k].kind, Reference(p, k, i))
  BY PatternShape DEF Kind, Stands, Reference
<1>3. /\ Len(Reference(p, k, i)) = 1
      /\ Reference(p, k, i)[1] # Blank
  BY <1>2, ReferenceFacts DEF Kind
<1>4. i > 0 /\ i + n <= L /\ \A x \in 1..Len(w) : p[i + x] = w[x]
  BY <1>1 DEF Stands
<1>5. Len(Reference(p, k, i)) = L - (i + n)
  <2>1. Len(Reference(p, k, i)) = Len(p) - (i + Len(Pattern[k].words))
    BY ReferenceLength
  <2> QED BY <1>1, <2>1
<1>6. j + n = L
  <2>1. PICK l \in Nat : l = Len(Reference(p, k, i)) /\ l = 1 /\ l = L - (i + n)
    BY <1>3, <1>5
  <2> QED BY <2>1
<1>7. i + 1 + Len(w) <= Len(p)
  <2>1. i + 1 + n <= L
    BY <1>6
  <2> QED BY <1>1, <2>1
<1>8. i + 1 \in Places(p, w)
  BY <1>4, <1>7, PlaceFacts
<1>9. \A g \in Places(p, w) : g <= j
  <2>1. \A g \in 2..(L - n) : g <= j
    BY <1>6
  <2> QED BY <1>1, <2>1 DEF Places
<1> QED BY <1>1, <1>3, <1>8, <1>9

\* Where a pattern stands it is found, and nothing else by that pattern.
LEMMA StandsFinds ==
    ASSUME NEW p \in Seq(Segment), NEW k \in 1..7, NEW i \in Nat, Stands(p, k, i),
           Name(p, i) \in RepoName
    PROVE  Found(p, Pattern[k]) = {<<Name(p, i), Reference(p, k, i)>>}
<1>0. PICK w \in Seq(Word) : w = Pattern[k].words
  BY PatternShape
<1>1. PICK n \in Nat, L \in Nat : w = Pattern[k].words /\ n = Len(w) /\ L = Len(p)
  BY <1>0
<1>2. CASE ~Pattern[k].ends
  <2>1. PICK j \in Nat : j = i + 1
    OBVIOUS
  <2>2. /\ j \in Places(p, w) /\ \A g \in Places(p, w) : g <= j
        /\ Reference(p, k, i) # <<Blank>>
    BY <1>1, <1>2, <2>1, StandsPlace
  <2>3. /\ Cut(p, j, w) = <<Name(p, i), SubSeq(p, i + Len(w) + 1, Len(p))>>
        /\ SplitLast(p, w) =
              {c \in {Cut(p, j, w)} : c[1] # <<Blank>> /\ c[2] # <<Blank>>}
    BY <2>1, <2>2, LastPlace
  <2>a. PICK x, y : /\ x = Name(p, i) /\ y = Reference(p, k, i)
                    /\ Cut(p, j, w) = <<x, y>>
    BY <1>1, <2>3 DEF Reference
  <2>4. x # <<Blank>> /\ y # <<Blank>>
    BY <2>2, <2>a, SegmentFacts
  <2>5. \A c \in {Cut(p, j, w)} : c[1] # <<Blank>> /\ c[2] # <<Blank>>
    <3>1. Cut(p, j, w)[1] = x /\ Cut(p, j, w)[2] = y
      BY <2>a
    <3> QED BY <2>4, <3>1
  <2>6. SplitLast(p, w) = {<<Name(p, i), Reference(p, k, i)>>}
    BY <2>a, <2>3, <2>5
  <2> QED BY <1>1, <1>2, <2>6 DEF Found
<1>3. CASE Pattern[k].ends
  <2>1. /\ Pattern[k].kind \in {"uploads", "tags"}
        /\ ValidReference(Pattern[k].kind, Reference(p, k, i))
    BY <1>3, PatternShape DEF Stands, Reference
  <2>2. Reference(p, k, i) = <<>> /\ Len(Reference(p, k, i)) = 0
    <3>1. Reference(p, k, i) = <<>>
      BY <2>1 DEF ValidReference
    <3> QED BY <3>1
  <2>3. i > 0 /\ i + n <= L /\ \A x \in 1..Len(w) : p[i + x] = w[x]
    BY <1>1 DEF Stands
  <2>4. Len(Reference(p, k, i)) = L - (i + n)
    <3>1. Len(Reference(p, k, i)) = Len(p) - (i + Len(Pattern[k].words))
      BY ReferenceLength
    <3> QED BY <1>1, <3>1
  <2>5. i + n = L /\ L - n = i
    BY <2>2, <2>3, <2>4
  <2>6. i + Len(w) = L /\ L <= Len(p)
    BY <1>1, <2>5
  <2>7. SubSeq(p, i + 1, L) = w
    BY <2>3, <2>6, SliceFacts
  <2>8. StripSuffix(p, w) =
            {<<SubSeq(p, 1, L - n), <<>>>> :
                g \in {f \in {L - n} : f > 0 /\ SubSeq(p, f + 1, L) = w}}
    BY <1>1 DEF StripSuffix
  <2>9. {f \in {L - n} : f > 0 /\ SubSeq(p, f + 1, L) = w} = {i}
    BY <2>3, <2>5, <2>7
  <2>10. StripSuffix(p, w) = {<<Name(p, i), Reference(p, k, i)>>}
    BY <2>2, <2>5, <2>8, <2>9 DEF Name
  <2> QED BY <1>1, <1>3, <2>10 DEF Found
<1> QED BY <1>2, <1>3

\* What a pattern finds stands there, if its reference is valid.
LEMMA FoundStands ==
    ASSUME NEW p \in Seq(Segment), NEW k \in 1..7, NEW c \in Found(p, Pattern[k]),
           ValidReference(Pattern[k].kind, c[2])
    PROVE  \E i \in Nat : Stands(p, k, i) /\ c = <<Name(p, i), Reference(p, k, i)>>
<1>0. PICK w \in Seq(Word) : w = Pattern[k].words
  BY PatternShape
<1>1. PICK n \in Nat, L \in Nat : w = Pattern[k].words /\ n = Len(w) /\ L = Len(p)
  BY <1>0
<1>2. CASE ~Pattern[k].ends
  <2>1. PICK j \in Places(p, w) : c = Cut(p, j, w)
    BY <1>1, <1>2 DEF Found, SplitLast
  <2>2. j \in 2..(L - n)
    BY <1>1, <2>1 DEF Places
  <2>3. PICK i \in Nat : i + 1 = j /\ j - 1 = i /\ j + n = i + n + 1
    <3>1. j - 1 \in Nat /\ (j - 1) + 1 = j /\ j + n = (j - 1) + n + 1
      BY <2>2
    <3> QED BY <3>1
  <2>4. i > 0 /\ i + 1 + n <= L /\ \A x \in 1..Len(w) : p[i + x] = w[x]
    BY <1>1, <2>3, PlaceFacts
  <2>5. c = <<Name(p, i), Reference(p, k, i)>>
    BY <1>1, <2>1, <2>3 DEF Cut, Name, Reference
  <2>6. i + n <= L
    BY <2>4
  <2>7. ValidReference(Pattern[k].kind, Reference(p, k, i))
    BY <2>5
  <2>8. Stands(p, k, i)
    BY <1>1, <2>4, <2>6, <2>7 DEF Stands, Reference
  <2> QED BY <2>5, <2>8
<1>3. CASE Pattern[k].ends
  <2>1. StripSuffix(p, w) =
            {<<SubSeq(p, 1, L - n), <<>>>> :
                g \in {f \in {L - n} : f > 0 /\ SubSeq(p, f + 1, L) = w}}
    BY <1>1 DEF StripSuffix
  <2>2. /\ c = <<SubSeq(p, 1, L - n), <<>>>>
        /\ L - n > 0 /\ SubSeq(p, L - n + 1, L) = w
    BY <1>1, <1>3, <2>1 DEF Found
  <2>3. PICK i \in Nat : i = L - n /\ i > 0 /\ i + n = L
    BY <2>2
  <2>4. i + Len(w) = L /\ L <= Len(p)
    BY <1>1, <2>3
  <2>5. SubSeq(p, i + 1, L) = w
    BY <2>2, <2>3
  <2>6. \A x \in 1..Len(w) : p[i + x] = w[x]
    BY <2>4, <2>5, SliceFacts
  <2>7. L + 1 \in Int /\ L < L + 1
    OBVIOUS
  <2>8. Reference(p, k, i) = <<>>
    <3>1. SubSeq(p, L + 1, L) = <<>>
      BY <2>7, SubSeqEmpty
    <3> QED BY <1>1, <2>3, <3>1 DEF Reference
  <2>9. c = <<Name(p, i), Reference(p, k, i)>>
    BY <2>2, <2>3, <2>8 DEF Name
  <2>10. ValidReference(Pattern[k].kind, Reference(p, k, i))
    BY <2>9
  <2>11. i + n <= L
    BY <2>3
  <2>12. Stands(p, k, i)
    BY <1>1, <2>3, <2>6, <2>10, <2>11 DEF Stands, Reference
  <2> QED BY <2>9, <2>12
<1> QED BY <1>2, <1>3

\* No segment of a plain name but the first decides.
LEMMA PlainPath ==
    ASSUME NEW p \in Seq(Segment), NEW i \in Nat, i <= Len(p), IsPlain(Name(p, i))
    PROVE  \A h \in 2..i : p[h] # "manifests" /\ p[h] # "blobs"
<1>1. \A x \in 1..i : p[x] \in Segment
  OBVIOUS
<1>2. /\ Len(Name(p, i)) = IF 1 <= i THEN i - 1 + 1 ELSE 0
      /\ \A x \in 1..(i - 1 + 1) : Name(p, i)[x] = p[1 + x - 1]
  BY <1>1, SubSeqProperties DEF Name
<1>3. Len(Name(p, i)) = i
  BY <1>2
<1>4. \A h \in 2..i : Name(p, i)[h] = p[h]
  <2>1. ASSUME NEW h \in 2..i PROVE h \in 1..(i - 1 + 1) /\ 1 + h - 1 = h
    OBVIOUS
  <2> QED BY <1>2, <2>1
<1> QED BY <1>3, <1>4 DEF IsPlain

\* Where the pattern k stands after a plain name, no earlier pattern finds
\* anything.
LEMMA NothingEarlier ==
    ASSUME NEW p \in Seq(Segment), NEW k \in 1..7, NEW i \in Nat, Stands(p, k, i),
           IsPlain(Name(p, i)), NEW j \in 1..(k - 1)
    PROVE  Found(p, Pattern[j]) = {}
<1>1. PICK L \in Nat : L = Len(p)
  OBVIOUS
<1>2. Ending(p, L, k, i)
  BY <1>1, StandsEnd
<1>3. i > 0 /\ i <= Len(p)
  <2>1. PICK n \in Nat : n = Len(Pattern[k].words)
    BY PatternShape
  <2> QED BY <2>1 DEF Stands
<1>4. \A h \in 2..i : p[h] # "manifests" /\ p[h] # "blobs"
  BY <1>3, PlainPath
<1>5. k \in 2..7 /\ j \in 1..6
  OBVIOUS
<1>6. k \in 4..7 => i = L - 2
  BY <1>2 DEF Ending
<1>7. /\ <<"manifests">> \in Seq(Word) /\ <<"blobs">> \in Seq(Word)
      /\ <<"blobs", "uploads">> \in Seq(Word) /\ <<"tags", "list">> \in Seq(Word)
      /\ <<"blobs", "uploads", Blank>> \in Seq(Word)
  BY DEF Word
<1>8. CASE j = 1
  <2>1. \A h \in (i + 1)..(L - 1) : p[h] # "manifests"
    BY <1>2, <1>5 DEF Ending
  <2>2. \A h \in 2..(L - 1) : p[h] # "manifests"
    <3>1. \A h \in 2..(L - 1) : h \in 2..i \/ h \in (i + 1)..(L - 1)
      OBVIOUS
    <3> QED BY <1>4, <2>1, <3>1
  <2>3. PICK w \in Seq(Word) : w = <<"manifests">> /\ Len(w) = 1 /\ w[1] = "manifests"
    BY <1>7
  <2>4. Len(w) \in 1..3 /\ \A h \in 2..(L - Len(w)) : p[h] # w[1]
    BY <2>2, <2>3
  <2>5. SplitLast(p, w) = {}
    BY <1>1, <2>4, NotSplit
  <2> QED BY <1>8, <2>3, <2>5, WordFacts DEF Found
<1>9. CASE j = 2 /\ k # 3
  <2>1. i = L - 2
    BY <1>5, <1>6, <1>9
  <2>2. PICK w \in Seq(Word) : /\ w = <<"blobs", "uploads">>
                               /\ Len(w) = 2 /\ w[1] = "blobs"
    BY <1>7
  <2>3. Len(w) \in 1..3 /\ \A h \in 2..(L - Len(w)) : p[h] # w[1]
    BY <1>4, <2>1, <2>2
  <2>4. SplitLast(p, w) = {}
    BY <1>1, <2>3, NotSplit
  <2> QED BY <1>9, <2>2, <2>4, WordFacts DEF Found
<1>10. CASE j = 2 /\ k = 3
  <2> DEFINE w == <<"blobs", "uploads">>
  <2>1. /\ i = L - 3 /\ p[L - 2] = "blobs" /\ p[L - 1] = "uploads"
        /\ p[L] = Blank
    BY <1>2, <1>10 DEF Ending
  <2>2. PICK g \in Nat : g = i + 1 /\ g = L - 2
    BY <2>1
  <2>3. Len(w) = 2 /\ w[1] = "blobs" /\ w[2] = "uploads" /\ w \in Seq(Word)
    BY <1>7
  <2> HIDE DEF w
  <2>4. i + 1 + Len(w) <= Len(p)
    BY <1>1, <2>1, <2>3
  <2>5. \A x \in 1..Len(w) : p[i + x] = w[x]
    <3>1. p[i + 1] = w[1] /\ p[i + 2] = w[2]
      <4>1. i + 1 = L - 2 /\ i + 2 = L - 1
        BY <2>1
      <4> QED BY <2>1, <2>3, <4>1
    <3>2. \A x \in 1..Len(w) : x = 1 \/ x = 2
      BY <2>3
    <3> QED BY <3>1, <3>2
  <2>6. g \in Places(p, w)
    BY <1>3, <2>2, <2>3, <2>4, <2>5, PlaceFacts
  <2>7. \A f \in Places(p, w) : f <= g
    <3>1. \A f \in 2..(L - 2) : f <= g
      BY <2>2
    <3> QED BY <1>1, <2>3, <3>1 DEF Places
  <2>8. /\ Cut(p, g, w) = <<Name(p, i), SubSeq(p, i + Len(w) + 1, Len(p))>>
        /\ SplitLast(p, w) =
              {c \in {Cut(p, g, w)} : c[1] # <<Blank>> /\ c[2] # <<Blank>>}
    BY <2>2, <2>3, <2>6, <2>7, LastPlace
  <2>9. SubSeq(p, i + Len(w) + 1, Len(p)) = <<Blank>>
    <3>1. i + 2 <= Len(p) /\ i + 2 = Len(p) - 1 /\ Len(p) - (i + 2) = 1
      <4>0. i + 3 = L
        BY <2>1
      <4>1. i + 2 <= L /\ i + 2 = L - 1 /\ L - (i + 2) = 1
        BY <4>0
      <4> QED BY <1>1, <4>1
    <3>2. PICK s \in Seq(Segment) : s = SubSeq(p, i + 2 + 1, Len(p))
      BY <3>1, RestFacts
    <3>3. Len(s) = 1 /\ s[1] = p[Len(p)]
      BY <3>1, <3>2, RestFacts
    <3>4. s = <<s[1]>>
      BY <3>3
    <3> QED BY <1>1, <2>1, <2>3, <3>2, <3>3, <3>4
  <2>10. Cut(p, g, w)[2] = <<Blank>>
    BY <2>8, <2>9
  <2>11. SplitLast(p, w) = {}
    BY <2>8, <2>10
  <2> QED BY <1>10, <2>11, WordFacts DEF Found, w
<1>11. CASE j = 3
  <2>1. i = L - 2 /\ p[L] # Blank
    <3>1. "uploads" # Blank /\ "list" # Blank
      BY DEF Blank
    <3> QED BY <1>2, <1>6, <1>11, <3>1, SegmentFacts DEF Ending
  <2>2. PICK a \in Nat : a + 3 = L
    <3>1. L - 3 \in Nat /\ (L - 3) + 3 = L
      BY <1>3, <2>1
    <3> QED BY <3>1
  <2>3. PICK w \in Seq(Word) : /\ w = <<"blobs", "uploads", Blank>>
                               /\ Len(w) = 3 /\ w[3] = Blank
    BY <1>7
  <2>4. a + Len(w) = L /\ 3 \in 1..Len(w) /\ p[a + 3] # w[3]
    BY <2>1, <2>2, <2>3
  <2>5. StripSuffix(p, w) = {}
    BY <1>1, <2>4, NotSuffix
  <2> QED BY <1>11, <2>3, <2>5, WordFacts DEF Found
<1>12. CASE j = 4
  <2>1. i = L - 2 /\ p[L] # "uploads"
    BY <1>2, <1>6, <1>12, SegmentFacts DEF Ending
  <2>2. PICK w \in Seq(Word) : /\ w = <<"blobs", "uploads">>
                               /\ Len(w) = 2 /\ w[2] = "uploads"
    BY <1>7
  <2>3. i + Len(w) = L /\ 2 \in 1..Len(w) /\ p[i + 2] # w[2]
    <3>1. i + 2 = L
      BY <2>1
    <3> QED BY <2>1, <2>2, <3>1
  <2>4. StripSuffix(p, w) = {}
    BY <1>1, <2>3, NotSuffix
  <2> QED BY <1>12, <2>2, <2>4, WordFacts DEF Found
<1>13. CASE j = 5
  <2>1. i = L - 2 /\ p[L - 1] # "blobs"
    BY <1>2, <1>6, <1>13 DEF Ending
  <2>2. \A h \in 2..(L - 1) : p[h] # "blobs"
    <3>1. \A h \in 2..(L - 1) : h \in 2..i \/ h = L - 1
      BY <2>1
    <3> QED BY <1>4, <2>1, <3>1
  <2>3. PICK w \in Seq(Word) : w = <<"blobs">> /\ Len(w) = 1 /\ w[1] = "blobs"
    BY <1>7
  <2>4. Len(w) \in 1..3 /\ \A h \in 2..(L - Len(w)) : p[h] # w[1]
    BY <2>2, <2>3
  <2>5. SplitLast(p, w) = {}
    BY <1>1, <2>4, NotSplit
  <2> QED BY <1>13, <2>3, <2>5, WordFacts DEF Found
<1>14. CASE j = 6
  <2>1. i = L - 2 /\ p[L - 1] # "tags"
    BY <1>2, <1>6, <1>14 DEF Ending
  <2>2. PICK w \in Seq(Word) : /\ w = <<"tags", "list">>
                               /\ Len(w) = 2 /\ w[1] = "tags"
    BY <1>7
  <2>3. i + Len(w) = L /\ 1 \in 1..Len(w) /\ p[i + 1] # w[1]
    <3>1. i + 2 = L /\ i + 1 = L - 1
      BY <2>1
    <3> QED BY <2>1, <2>2, <3>1
  <2>4. StripSuffix(p, w) = {}
    BY <1>1, <2>3, NotSuffix
  <2> QED BY <1>14, <2>2, <2>4, WordFacts DEF Found
<1> QED BY <1>5, <1>8, <1>9, <1>10, <1>11, <1>12, <1>13, <1>14

\* Where a pattern stands it decides, unless the name could deceive the router.
LEMMA StandsDecides ==
    ASSUME NEW p \in Seq(Segment), NEW k \in 1..7, NEW i \in Nat, Stands(p, k, i),
           Name(p, i) \in RepoName, k = 1 \/ IsPlain(Name(p, i))
    PROVE  /\ IsDeciding(k, p)
           /\ Found(p, Pattern[k]) = {<<Name(p, i), Reference(p, k, i)>>}
<1>1. Found(p, Pattern[k]) = {<<Name(p, i), Reference(p, k, i)>>}
  BY StandsFinds
<1>2. ASSUME NEW j \in 1..(k - 1) PROVE Found(p, Pattern[j]) = {}
  <2>1. CASE k = 1
    BY <2>1
  <2>2. CASE IsPlain(Name(p, i))
    BY <2>2, NothingEarlier
  <2> QED BY <2>1, <2>2
<1> QED BY <1>1, <1>2 DEF IsDeciding

\* Of the patterns at most one decides.
LEMMA OneDecides ==
    ASSUME NEW p, NEW k \in 1..7, NEW j \in 1..7, IsDeciding(k, p), IsDeciding(j, p)
    PROVE  k = j
<1>1. k < j \/ j < k \/ k = j
  OBVIOUS
<1>2. ASSUME NEW x \in 1..7, NEW y \in 1..7, x < y, IsDeciding(x, p), IsDeciding(y, p)
      PROVE  FALSE
  <2>1. x \in 1..(y - 1)
    BY <1>2
  <2> QED BY <1>2, <2>1 DEF IsDeciding
<1> QED BY <1>1, <1>2

\* The readings of a path are where a pattern stands after a name.
LEMMA ReadingStands ==
    ASSUME NEW p \in Seq(Segment), NEW u \in Readings(p)
    PROVE  /\ u[1] \in 1..7
           /\ \E i \in Nat : /\ Stands(p, u[1], i)
                            /\ u[2] = Name(p, i) /\ u[2] \in RepoName
                            /\ u[3] = Reference(p, u[1], i)
<1>1. PICK k \in DOMAIN Pattern, i \in 1..Len(p) : u = Parts(p, k, i)
  BY DEF Readings
<1>2. k \in 1..7 /\ i \in Nat /\ i > 0
  BY DEF Pattern
<1>3. u[1] = k /\ u[2] = Name(p, i) /\ u[3] = Reference(p, k, i)
  BY <1>1 DEF Parts, Name, Reference
<1>4. /\ p = (u[2] \o Pattern[k].words) \o u[3]
      /\ u[2] \in RepoName /\ ValidReference(Pattern[k].kind, u[3])
  <2>1. /\ p = u[2] \o Pattern[u[1]].words \o u[3]
        /\ u[2] \in RepoName /\ ValidReference(Pattern[u[1]].kind, u[3])
    <3>1. IsReading(p, u)
      BY DEF Readings
    <3> QED BY <3>1, Zenon DEF IsReading
  <2> QED BY <1>3, <2>1, Zenon
<1>5. PICK w \in Seq(Word) : w = Pattern[k].words
  BY <1>2, PatternShape
<1>6. PICK n \in Nat, L \in Nat : n = Len(w) /\ L = Len(p)
  OBVIOUS
<1> DEFINE S == Segment \cup Word
<1>7. p \in Seq(S) /\ w \in Seq(S)
  OBVIOUS
<1>8. Name(p, i) \in Seq(S) /\ Len(Name(p, i)) = i
  <2>1. i <= L /\ \A x \in 1..i : p[x] \in S
    BY <1>6, <1>7
  <2>2. /\ SubSeq(p, 1, i) \in Seq(S)
        /\ Len(SubSeq(p, 1, i)) = IF 1 <= i THEN i - 1 + 1 ELSE 0
    BY <1>2, <2>1, SubSeqProperties
  <2> QED BY <1>2, <2>2 DEF Name
<1>9. Reference(p, k, i) \in Seq(S)
  <2>1. i + n + 1 \in Int /\ \A x \in (i + n + 1)..L : p[x] \in S
    BY <1>2, <1>6, <1>7
  <2>2. SubSeq(p, i + n + 1, L) \in Seq(S)
    BY <2>1, SubSeqProperties
  <2> QED BY <1>5, <1>6, <2>2 DEF Reference
<1> HIDE DEF S
<1>10. PICK a \in Seq(S), b \in Seq(S), c \in Seq(S) :
           /\ a = Name(p, i) /\ b = a \o w /\ c = Reference(p, k, i)
           /\ p = b \o c /\ Len(a) = i
  <2>1. Name(p, i) \o w \in Seq(S)
    BY <1>7, <1>8, ConcatProperties
  <2> QED BY <1>3, <1>4, <1>5, <1>8, <1>9, <2>1
<1>11. /\ Len(b) = i + n
       /\ \A x \in 1..(i + n) : b[x] = IF x <= i THEN a[x] ELSE w[x - i]
  <2>1. /\ Len(a \o w) = Len(a) + Len(w)
        /\ \A x \in 1..(Len(a) + Len(w)) :
               (a \o w)[x] = IF x <= Len(a) THEN a[x] ELSE w[x - Len(a)]
    BY <1>7, ConcatProperties
  <2> QED BY <1>6, <1>10, <2>1
<1>12. PICK l \in Nat : l = Len(c)
  OBVIOUS
<1>13. /\ L = i + n + l
       /\ \A x \in 1..(i + n + l) :
              p[x] = IF x <= i + n THEN b[x] ELSE c[x - (i + n)]
  <2>1. /\ Len(b \o c) = Len(b) + Len(c)
        /\ \A x \in 1..(Len(b) + Len(c)) :
               (b \o c)[x] = IF x <= Len(b) THEN b[x] ELSE c[x - Len(b)]
    BY ConcatProperties
  <2>2. p = b \o c /\ Len(p) = L /\ Len(b) = i + n /\ Len(c) = l
    BY <1>6, <1>10, <1>11, <1>12
  <2> QED BY <2>1, <2>2
<1>14. i + n <= L
  BY <1>2, <1>13
<1>15. \A x \in 1..n : p[i + x] = w[x]
  <2>1. ASSUME NEW x \in 1..n
        PROVE  p[i + x] = w[x]
    <3>1. PICK y \in Nat : y = i + x /\ y \in 1..(i + n) /\ y > i /\ y - i = x
      BY <1>2
    <3>2. y \in 1..(i + n + l) /\ y <= i + n
      BY <1>2, <3>1
    <3>3. p[y] = b[y] /\ b[y] = w[y - i]
      BY <1>2, <1>11, <1>13, <3>1, <3>2
    <3> QED BY <3>1, <3>3
  <2> QED BY <2>1
<1>16. ValidReference(Pattern[k].kind, Reference(p, k, i))
  BY <1>3, <1>4
<1>17. Stands(p, k, i)
  BY <1>2, <1>5, <1>6, <1>14, <1>15, <1>16 DEF Stands, Reference
<1> QED BY <1>2, <1>3, <1>4, <1>17

\* No path is ambiguous: it is the URL of at most one object.
THEOREM ReadingUnique ==
    ASSUME NEW p \in Seq(Segment), NEW u \in Readings(p), NEW v \in Readings(p)
    PROVE  u[1] = v[1] /\ u[2] = v[2] /\ u[3] = v[3]
<1>1. PICK i \in Nat : /\ Stands(p, u[1], i)
                       /\ u[2] = Name(p, i) /\ u[3] = Reference(p, u[1], i)
  BY ReadingStands
<1>2. PICK h \in Nat : /\ Stands(p, v[1], h)
                       /\ v[2] = Name(p, h) /\ v[3] = Reference(p, v[1], h)
  BY ReadingStands
<1>3. u[1] \in 1..7 /\ v[1] \in 1..7
  BY ReadingStands
<1>4. u[1] = v[1] /\ i = h
  BY <1>1, <1>2, <1>3, OneReading
<1> QED BY <1>1, <1>2, <1>4

-----------------------------------------------------------------------------
(* What becomes of a request whose URL has a reading *)

\* The request q may be let pass to its handler o of the kind k with the
\* reference a.
Answered(q, k, a, o) ==
    /\ q.method \in DOMAIN Operation[k]
    /\ o = Operation[k][q.method]
    /\ o = "delete_manifest" => a[1] \in Digest
    /\ o = "complete_upload" => q.digest

\* The outcome o for the name n and the reference a is right for the request q
\* if its URL reads as the pattern k after i segments.
Fits(q, o, n, a, k, i) ==
    LET rest == Tail(q.path)
        kind == Pattern[k].kind
    IN  /\ \/ o \in Refusal
           \/ /\ \E m \in DOMAIN Operation[kind] : o = Operation[kind][m]
              /\ n = Name(rest, i)
              /\ a = Reference(rest, k, i)
        /\ \A x : /\ o # "401"
                  /\ kind = "manifest" \/ IsPlain(Name(rest, i))
                  /\ Answered(q, kind, Reference(rest, k, i), x)
                  => o = x

Suits(q, o, n, a) ==
    DataPlane(q.path) =>
        \A k \in 1..7, i \in Nat :
            Stands(Tail(q.path), k, i) /\ Name(Tail(q.path), i) \in RepoName
            => Fits(q, o, n, a, k, i)

\* Whatever has become of a request suits its URL.
AllSuit ==
    \A r \in DOMAIN req :
        req[r].pc = "done" => Suits(req[r], req[r].op, req[r].name, req[r].ref)

RoutedInv == FrontInv /\ AllSuit

LEMMA RoutedInvSuffices ==
    ASSUME RoutedInv
    PROVE  RoutedOrRefused /\ PlainNamesRouted
<1>1. SUFFICES ASSUME NEW r \in DOMAIN req, At(r, "done"), DataPlane(req[r].path),
                      NEW u \in Readings(Tail(req[r].path))
      PROVE  LET q == req[r]
                 k == Pattern[u[1]].kind
             IN  /\ \/ q.op \in Refusal
                    \/ /\ \E m \in DOMAIN Operation[k] : q.op = Operation[k][m]
                       /\ q.name = u[2] /\ q.ref = u[3]
                 /\ /\ q.op # "401"
                    /\ k = "manifest" \/ IsPlain(u[2])
                    /\ Answered(q, k, u[3], Operation[k][q.method])
                    => q.op = Operation[k][q.method]
  <2>1. RoutedOrRefused
    BY <1>1 DEF RoutedOrRefused
  <2>2. PlainNamesRouted
    BY <1>1 DEF PlainNamesRouted, Answered
  <2> QED BY <2>1, <2>2
<1>2. PICK q, p : q = req[r] /\ p = Tail(q.path)
  OBVIOUS
<1>3. p \in Seq(Segment) /\ u \in Readings(p)
  BY <1>2, PathFacts DEF RoutedInv
<1>4. PICK i \in Nat : /\ Stands(p, u[1], i)
                       /\ u[2] = Name(p, i) /\ u[2] \in RepoName
                       /\ u[3] = Reference(p, u[1], i)
  BY <1>3, ReadingStands
<1>5. u[1] \in 1..7
  BY <1>3, ReadingStands
<1>6. Suits(q, q.op, q.name, q.ref) /\ DataPlane(q.path)
  BY <1>1, <1>2 DEF RoutedInv, AllSuit, At
<1>7. Fits(q, q.op, q.name, q.ref, u[1], i)
  BY <1>2, <1>4, <1>5, <1>6 DEF Suits
<1> QED BY <1>2, <1>4, <1>7 DEF Fits

\* The outcome o for nn and aa is that of a URL of the kind k from which the
\* router has told the name n and the reference a.
Outcome(r, k, n, a, o, nn, aa) ==
    /\ Answer(r, o, nn, aa)
    /\ \/ o \in Refusal
       \/ /\ \E m \in DOMAIN Operation[k] : o = Operation[k][m]
          /\ nn = n /\ aa = a
          /\ n \in RepoName /\ ValidReference(k, a)
    /\ \A x : n \in RepoName /\ ValidReference(k, a) /\ Answered(req[r], k, a, x)
            => o = x

LEMMA RouteNamedOutcome ==
    ASSUME NEW r, NEW k \in Kind, NEW n \in Seq(Segment), NEW a \in Seq(Segment),
           RouteNamed(r, k, n, a)
    PROVE  \E o \in Handlers \cup Refusal, nn \in Seq(Segment), aa \in Seq(Segment) :
              Outcome(r, k, n, a, o, nn, aa)
<1>1. {"NAME_INVALID", "405", "UNSUPPORTED", "DIGEST_INVALID",
       InvalidReference(k)} \subseteq Refusal
  BY DEF Refusal, InvalidReference
<1>2. PICK e \in Seq(Segment) : e = <<>>
  <2>1. <<>> \in Seq(Segment)
    OBVIOUS
  <2> QED BY <2>1
<1>3. ASSUME NEW o \in Refusal, Refuse(r, o),
             \A x : ~(/\ n \in RepoName /\ ValidReference(k, a)
                      /\ Answered(req[r], k, a, x))
      PROVE  Outcome(r, k, n, a, o, e, e)
  BY <1>2, <1>3 DEF Refuse, Outcome
<1> DEFINE m == req[r].method
           by == Operation[k]
<1>4. CASE n \notin RepoName
  <2>1. Refuse(r, "NAME_INVALID")
    BY <1>4 DEF RouteNamed
  <2> QED BY <1>1, <1>2, <1>3, <1>4, <2>1
<1>5. CASE n \in RepoName /\ ~ValidReference(k, a)
  <2>1. Refuse(r, InvalidReference(k))
    BY <1>5 DEF RouteNamed
  <2> QED BY <1>1, <1>2, <1>3, <1>5, <2>1
<1>6. CASE n \in RepoName /\ ValidReference(k, a) /\ m \notin DOMAIN by
  <2>1. Refuse(r, "405")
    BY <1>6 DEF RouteNamed
  <2>2. \A x : ~Answered(req[r], k, a, x)
    BY <1>6 DEF Answered
  <2> QED BY <1>1, <1>2, <1>3, <2>1, <2>2
<1>7. CASE /\ n \in RepoName /\ ValidReference(k, a) /\ m \in DOMAIN by
           /\ by[m] = "delete_manifest" /\ a[1] \notin Digest
  <2>1. Refuse(r, "UNSUPPORTED")
    BY <1>7 DEF RouteNamed
  <2>2. \A x : ~Answered(req[r], k, a, x)
    BY <1>7 DEF Answered
  <2> QED BY <1>1, <1>2, <1>3, <2>1, <2>2
<1>8. CASE /\ n \in RepoName /\ ValidReference(k, a) /\ m \in DOMAIN by
           /\ ~(by[m] = "delete_manifest" /\ a[1] \notin Digest)
           /\ by[m] = "complete_upload" /\ ~req[r].digest
  <2>1. Refuse(r, "DIGEST_INVALID")
    BY <1>8 DEF RouteNamed
  <2>2. \A x : ~Answered(req[r], k, a, x)
    BY <1>8 DEF Answered
  <2> QED BY <1>1, <1>2, <1>3, <2>1, <2>2
<1>9. CASE /\ n \in RepoName /\ ValidReference(k, a) /\ m \in DOMAIN by
           /\ ~(by[m] = "delete_manifest" /\ a[1] \notin Digest)
           /\ ~(by[m] = "complete_upload" /\ ~req[r].digest)
  <2>1. Answer(r, by[m], n, a)
    BY <1>9 DEF RouteNamed
  <2>2. by[m] \in Handlers
    BY <1>9, OperationFacts
  <2>3. \A x : Answered(req[r], k, a, x) => by[m] = x
    BY DEF Answered
  <2>4. Outcome(r, k, n, a, by[m], n, a)
    BY <1>9, <2>1, <2>3 DEF Outcome
  <2> QED BY <2>2, <2>4
<1> QED BY <1>4, <1>5, <1>6, <1>7, <1>8, <1>9

\* A request whose URL has a reading is routed by it or refused.
LEMMA NamedSuits ==
    ASSUME RoutedInv, NEW r \in Slot, DispatchNamed(r)
    PROVE  \E o \in Handlers \cup Refusal, n \in Seq(Segment), a \in Seq(Segment) :
              Answer(r, o, n, a) /\ Suits(req[r], o, n, a)
<1>1. r \in DOMAIN req /\ FrontInv
  BY DEF RoutedInv, DispatchNamed, At
<1>2. PICK p \in Seq(Segment) : p = Tail(req[r].path)
  <2>1. Tail(req[r].path) \in Seq(Segment)
    BY <1>1, PathFacts
  <2> QED BY <2>1
<1>3. PICK k \in 1..7 : /\ IsDeciding(k, p)
                        /\ \E c \in Found(p, Pattern[k]) :
                              RouteNamed(r, Pattern[k].kind, c[1], c[2])
  <2>1. DOMAIN Pattern = 1..7
    BY DEF Pattern
  <2> QED BY <1>2, <2>1 DEF DispatchNamed
<1>4. PICK c \in Found(p, Pattern[k]) : RouteNamed(r, Pattern[k].kind, c[1], c[2])
  BY <1>3
<1>5. /\ Pattern[k].kind \in Kind
      /\ c[1] \in Seq(Segment) /\ c[2] \in Seq(Segment)
  BY PatternShape, FoundFacts
<1>6. PICK o \in Handlers \cup Refusal, n \in Seq(Segment), a \in Seq(Segment) :
          /\ Answer(r, o, n, a)
          /\ \/ o \in Refusal
             \/ /\ \E m \in DOMAIN Operation[Pattern[k].kind] :
                      o = Operation[Pattern[k].kind][m]
                /\ n = c[1] /\ a = c[2]
                /\ c[1] \in RepoName /\ ValidReference(Pattern[k].kind, c[2])
          /\ \A x : /\ c[1] \in RepoName /\ ValidReference(Pattern[k].kind, c[2])
                    /\ Answered(req[r], Pattern[k].kind, c[2], x)
                    => o = x
  <2>1. PICK f \in Kind, b \in Seq(Segment), d \in Seq(Segment) :
            f = Pattern[k].kind /\ b = c[1] /\ d = c[2]
    BY <1>5
  <2>2. RouteNamed(r, f, b, d)
    BY <1>4, <2>1
  <2>3. \E o \in Handlers \cup Refusal, n \in Seq(Segment), a \in Seq(Segment) :
            Outcome(r, f, b, d, o, n, a)
    BY <2>2, RouteNamedOutcome
  <2> QED BY <2>1, <2>3 DEF Outcome
<1>7. ASSUME NEW j \in 1..7, NEW i \in Nat, Stands(p, j, i), Name(p, i) \in RepoName
      PROVE  Fits(req[r], o, n, a, j, i)
  <2>1. ASSUME o \notin Refusal
        PROVE  /\ \E m \in DOMAIN Operation[Pattern[j].kind] :
                     o = Operation[Pattern[j].kind][m]
               /\ n = Name(p, i) /\ a = Reference(p, j, i)
    <3>1. n = c[1] /\ a = c[2] /\ ValidReference(Pattern[k].kind, c[2])
      BY <1>6, <2>1
    <3>2. PICK h \in Nat :
              Stands(p, k, h) /\ c = <<Name(p, h), Reference(p, k, h)>>
      BY <3>1, FoundStands
    <3>3. j = k /\ i = h
      BY <1>7, <3>2, OneReading
    <3> QED BY <1>6, <2>1, <3>1, <3>2, <3>3
  <2>2. ASSUME NEW x, Pattern[j].kind = "manifest" \/ IsPlain(Name(p, i)),
               Answered(req[r], Pattern[j].kind, Reference(p, j, i), x)
        PROVE  o = x
    <3>1. j = 1 \/ IsPlain(Name(p, i))
      BY <2>2, PatternShape
    <3>2. /\ IsDeciding(j, p)
          /\ Found(p, Pattern[j]) = {<<Name(p, i), Reference(p, j, i)>>}
      BY <1>7, <3>1, StandsDecides
    <3>3. j = k
      BY <1>3, <3>2, OneDecides
    <3>4. c[1] = Name(p, i) /\ c[2] = Reference(p, j, i)
      BY <3>2, <3>3
    <3>5. ValidReference(Pattern[j].kind, Reference(p, j, i))
      BY <1>7 DEF Stands, Reference
    <3> QED BY <1>6, <1>7, <2>2, <3>3, <3>4, <3>5
  <2> QED BY <1>2, <2>1, <2>2 DEF Fits
<1>8. Suits(req[r], o, n, a)
  BY <1>2, <1>7 DEF Suits
<1> QED BY <1>6, <1>8

\* The URLs below /v2/ that name no repository have no reading.
LEMMA FixedSuits ==
    ASSUME RoutedInv, NEW r \in Slot, DispatchFixed(r)
    PROVE  \E o \in Handlers \cup Refusal, n \in Seq(Segment), a \in Seq(Segment) :
              Answer(r, o, n, a) /\ Suits(req[r], o, n, a)
<1>1. r \in DOMAIN req /\ FrontInv
  BY DEF RoutedInv, DispatchFixed, At
<1>2. PICK f \in Fixed :
          /\ f.path = req[r].path
          /\ IF req[r].method \in DOMAIN f.by
             THEN Answer(r, f.by[req[r].method], <<>>, <<>>)
             ELSE Refuse(r, "405")
  BY DEF DispatchFixed
<1>3. PICK e \in Seq(Segment) : e = <<>>
  <2>1. <<>> \in Seq(Segment)
    OBVIOUS
  <2> QED BY <2>1
<1>4. \E o \in Handlers \cup Refusal : Answer(r, o, e, e)
  <2>1. CASE req[r].method \in DOMAIN f.by
    BY <1>2, <1>3, <2>1, FixedFacts
  <2>2. CASE req[r].method \notin DOMAIN f.by
    BY <1>2, <1>3, <2>2 DEF Refuse, Refusal
  <2> QED BY <2>1, <2>2
<1>5. DataPlane(f.path) => Len(f.path) = 2
  <2>1. PICK y, b : \/ f = [path |-> <<"v2", y>>, by |-> b]
                    \/ f = [path |-> <<"api", "v1", y>>, by |-> b]
                    \/ f = [path |-> <<"api", "v1", "gc", y>>, by |-> b]
    BY Zenon DEF Fixed
  <2>2. CASE f = [path |-> <<"v2", y>>, by |-> b]
    BY <2>2
  <2>3. CASE f # [path |-> <<"v2", y>>, by |-> b]
    BY <2>1, <2>3 DEF DataPlane
  <2> QED BY <2>2, <2>3
<1>6. PICK q : q = req[r] /\ q.path = f.path
  BY <1>2
<1>7. q.path \in Seq(Segment) /\ q.path # <<>>
  BY <1>1, <1>6, PathFacts
<1>8. ASSUME DataPlane(q.path), NEW k \in 1..7, NEW i \in Nat,
             Stands(Tail(q.path), k, i)
      PROVE  FALSE
  <2>1. Len(Tail(q.path)) = 1
    BY <1>5, <1>6, <1>7, <1>8
  <2>2. PICK n \in Nat : n = Len(Pattern[k].words)
    BY PatternShape
  <2>3. i > 0 /\ i + n <= 1
    BY <1>8, <2>1, <2>2 DEF Stands
  <2>4. n > 0
    <3>1. n \in 1..3
      BY <2>2, PatternShape
    <3> QED BY <3>1
  <2> QED BY <2>3, <2>4
<1>9. \A o : Suits(q, o, e, e)
  BY <1>8 DEF Suits
<1> QED BY <1>4, <1>6, <1>9

\* A URL that the router does not know has no reading, or one that is about
\* something with a deceptive name.
LEMMA UnknownSuits ==
    ASSUME RoutedInv, NEW r \in Slot, DispatchUnknown(r)
    PROVE  \E o \in Handlers \cup Refusal, n \in Seq(Segment), a \in Seq(Segment) :
              Answer(r, o, n, a) /\ Suits(req[r], o, n, a)
<1>1. r \in DOMAIN req /\ FrontInv
  BY DEF RoutedInv, DispatchUnknown, At
<1>2. PICK p \in Seq(Segment) : p = Tail(req[r].path)
  <2>1. Tail(req[r].path) \in Seq(Segment)
    BY <1>1, PathFacts
  <2> QED BY <2>1
<1>3. DataPlane(req[r].path) => \A k \in 1..7 : Found(p, Pattern[k]) = {}
  <2>1. DOMAIN Pattern = 1..7
    BY DEF Pattern
  <2> QED BY <1>2, <2>1 DEF DispatchUnknown
<1>4. PICK e \in Seq(Segment), o \in Refusal : o = "404" /\ Answer(r, o, e, e)
  <2>1. <<>> \in Seq(Segment) /\ "404" \in Refusal
    BY DEF Refusal
  <2> QED BY <2>1 DEF DispatchUnknown, Refuse
<1>5. ASSUME DataPlane(req[r].path), NEW k \in 1..7, NEW i \in Nat,
             Stands(p, k, i), Name(p, i) \in RepoName,
             Pattern[k].kind = "manifest" \/ IsPlain(Name(p, i))
      PROVE  FALSE
  <2>1. k = 1 \/ IsPlain(Name(p, i))
    BY <1>5, PatternShape
  <2>2. Found(p, Pattern[k]) = {<<Name(p, i), Reference(p, k, i)>>}
    BY <1>5, <2>1, StandsDecides
  <2> QED BY <1>3, <1>5, <2>2
<1>6. Suits(req[r], o, e, e)
  BY <1>2, <1>4, <1>5 DEF Suits, Fits
<1> QED BY <1>4, <1>6

\* What suits a request suits it when it is done.
LEMMA DoneSuits ==
    ASSUME NEW q \in RequestState, NEW o \in Handlers \cup Refusal,
           NEW n \in Seq(Segment), NEW a \in Seq(Segment), Suits(q, o, n, a),
           NEW x, x = Done(q, o, n, a)
    PROVE  Suits(x, x.op, x.name, x.ref)
<1>1. /\ x.path = q.path /\ x.method = q.method /\ x.digest = q.digest
      /\ x.op = o /\ x.name = n /\ x.ref = a
  BY DEF Done, RequestState
<1>2. \A k, b, y : Answered(x, k, b, y) <=> Answered(q, k, b, y)
  BY <1>1 DEF Answered
<1>3. \A k, i : Fits(q, o, n, a, k, i) => Fits(x, o, n, a, k, i)
  BY <1>1, <1>2 DEF Fits
<1> QED BY <1>1, <1>3 DEF Suits

\* One request changes, to one that suits or is not done.
LEMMA SlotSuits ==
    ASSUME AllSuit, NEW r, NEW x, req' = With(req, r, x),
           x.pc = "done" => Suits(x, x.op, x.name, x.ref)
    PROVE  AllSuit'
<1>1. \A s \in DOMAIN req' :
          req'[s] = x \/ (s \in DOMAIN req /\ req'[s] = req[s])
  BY DEF With
<1> QED BY <1>1 DEF AllSuit

LEMMA RestSuits ==
    ASSUME AllSuit, \A s \in DOMAIN req' : s \in DOMAIN req /\ req'[s] = req[s]
    PROVE  AllSuit'
BY DEF AllSuit

LEMMA DispatchSuits ==
    ASSUME RoutedInv, NEW r \in Slot,
           DispatchNamed(r) \/ DispatchFixed(r) \/ DispatchUnknown(r)
    PROVE  AllSuit'
<1>1. PICK o \in Handlers \cup Refusal, n \in Seq(Segment), a \in Seq(Segment) :
          Answer(r, o, n, a) /\ Suits(req[r], o, n, a)
  BY NamedSuits, FixedSuits, UnknownSuits
<1>2. r \in DOMAIN req /\ FrontInv
  BY DEF RoutedInv, DispatchNamed, DispatchFixed, DispatchUnknown, At
<1>3. req[r] \in RequestState
  BY <1>2, PathFacts
<1>4. PICK x : x = Done(req[r], o, n, a) /\ req' = With(req, r, x)
  BY <1>1 DEF Answer
<1>5. Suits(x, x.op, x.name, x.ref)
  BY <1>1, <1>3, <1>4, DoneSuits
<1> QED BY <1>4, <1>5, SlotSuits DEF RoutedInv

\* The middleware gives no outcome but 401, and the health checks are not below
\* /v2/.
LEMMA ReceiveSuits ==
    ASSUME RoutedInv, NEW r \in Slot, Receive(r)
    PROVE  AllSuit'
<1>1. PICK m \in Method, p \in Path, d \in BOOLEAN, h \in Header :
          Authenticate(r, m, p, d, h) \/ CheckHealth(r, m, p, d, h)
  BY DEF Receive
<1>2. PICK e \in Seq(Segment) : e = <<>>
  <2>1. <<>> \in Seq(Segment)
    OBVIOUS
  <2> QED BY <2>1
<1>3. CASE Authenticate(r, m, p, d, h)
  <2>1. PICK i, q, x, o :
            /\ i = AuthInfo(h) /\ q = Arrived(m, p, d, h, i)
            /\ o = "401" /\ x = Done(q, o, e, e)
            /\ req' = With(req, r, IF Passes(m, p, i) THEN q ELSE x)
    BY <1>2, <1>3 DEF Authenticate
  <2>2. o \in Refusal
    BY <2>1 DEF Refusal
  <2>3. q \in RequestState /\ q.pc = "route"
    BY <2>1, <2>2, AuthInfoFacts, ArrivedFields
  <2>4. Suits(q, o, e, e)
    BY <2>1, <2>2 DEF Suits, Fits
  <2>5. Suits(x, x.op, x.name, x.ref)
    BY <1>2, <2>1, <2>2, <2>3, <2>4, DoneSuits
  <2>6. q.pc # "done"
    BY <2>3
  <2> QED BY <2>1, <2>5, <2>6, SlotSuits DEF RoutedInv
<1>4. CASE CheckHealth(r, m, p, d, h)
  <2>1. PICK q, x, o :
            /\ o \in {"health", "405"} /\ q = Arrived(m, p, d, h, Anonymous)
            /\ x = Done(q, o, <<>>, <<>>) /\ req' = With(req, r, x)
    BY <1>4 DEF CheckHealth
  <2>2. o \in Refusal \cup {"health"}
    BY <2>1 DEF Refusal
  <2>3. Anonymous \in [tenant : Tenant, authenticated : BOOLEAN]
    BY InfoFacts, TenantAssumption DEF Anonymous
  <2>4. q.path = p /\ q \in RequestState
    BY <2>1, <2>2, <2>3, ArrivedFields
  <2>5. x.path = p
    BY <2>1, <2>4 DEF Done, RequestState
  <2>6. ~DataPlane(p)
    BY <1>4 DEF CheckHealth, Health, DataPlane
  <2>7. Suits(x, x.op, x.name, x.ref)
    BY <2>5, <2>6 DEF Suits
  <2> QED BY <2>1, <2>7, SlotSuits DEF RoutedInv
<1> QED BY <1>1, <1>3, <1>4

LEMMA InitRouted == Init => RoutedInv
BY InitFront DEF Init, RoutedInv, AllSuit, Empty

LEMMA NextRouted == RoutedInv /\ [Next]_vars => RoutedInv'
<1> SUFFICES ASSUME RoutedInv, [Next]_vars PROVE RoutedInv'
  OBVIOUS
<1>1. FrontInv'
  BY NextFront DEF RoutedInv
<1>2. ASSUME NEW r \in Slot, Receive(r) PROVE AllSuit'
  BY <1>2, ReceiveSuits
<1>3. ASSUME NEW r \in Slot,
             DispatchNamed(r) \/ DispatchFixed(r) \/ DispatchUnknown(r)
      PROVE  AllSuit'
  BY <1>3, DispatchSuits
<1>4. ASSUME NEW r \in Slot, Reply(r) PROVE AllSuit'
  <2>1. \A s \in DOMAIN req' : s \in DOMAIN req /\ req'[s] = req[s]
    BY <1>4 DEF Reply, Without
  <2> QED BY <2>1, RestSuits DEF RoutedInv
<1>5. ASSUME UNCHANGED vars PROVE AllSuit'
  <2>1. req' = req
    BY <1>5 DEF vars
  <2>2. \A s \in DOMAIN req' : s \in DOMAIN req /\ req'[s] = req[s]
    BY <2>1
  <2> QED BY <2>2, RestSuits DEF RoutedInv
<1>6. AllSuit'
  BY <1>2, <1>3, <1>4, <1>5 DEF Next
<1> QED BY <1>1, <1>6 DEF RoutedInv

THEOREM RoutedInvCorrect == Spec => []RoutedInv
BY InitRouted, NextRouted, PTL DEF Spec

\* Whatever the path, a request whose URL names an object is refused or handed
\* to a handler for that object, of that repository and kind.
THEOREM RoutedOrRefusedCorrect == Spec => []RoutedOrRefused
BY RoutedInvCorrect, RoutedInvSuffices, PTL

\* Whatever the path, a request that is let pass reaches its handler if it is
\* about a manifest or its repository has a plain name.
THEOREM PlainNamesRoutedCorrect == Spec => []PlainNamesRouted
BY RoutedInvCorrect, RoutedInvSuffices, PTL
=============================================================================

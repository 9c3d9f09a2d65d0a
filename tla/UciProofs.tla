------------------------------- MODULE UciProofs -------------------------------
(***************************************************************************)
(* Proofs about Uci, for any texts written by hand and any values that the *)
(* edits write.                                                            *)
(*                                                                         *)
(* The parser goes over the text letter by letter (OnePass), so that what  *)
(* it makes of a text that was put together from parts is made of the      *)
(* parts one after the other.  The text that renderUCI makes is then taken *)
(* apart: a quoted word, a line, a section, the sections; each of them     *)
(* either adds to what was read what it was rendered from, or has a line   *)
(* break in a word, which ends the reading for good.                       *)
(***************************************************************************)
EXTENDS Uci, FiniteSetTheorems, SequenceTheorems, TLAPS

Plain == Letters \ {"newline"}

-----------------------------------------------------------------------------
(* Texts in parts.                                                         *)

(* A run of the loop that puts together the first parts of ss.             *)
Joins(p, ss, n) ==
  /\ p[0] = << >>
  /\ \A k \in 1 .. n : p[k] = p[k - 1] \o ss[k]

(* The loop of the tokenizer, for the induction it brings.                 *)
Tokenizer == INSTANCE Iteration WITH Round <- Scan

LEMMA PartsAre ==
  ASSUME NEW X, NEW ss \in Seq(X)
  PROVE  Len(ss) \in Nat /\ \A k \in 1 .. Len(ss) : ss[k] \in X
OBVIOUS

LEMMA JoinsExists ==
  ASSUME NEW X, NEW ss \in Seq(Seq(X))
  PROVE  \E p \in [0 .. Len(ss) -> Seq(X)] : Joins(p, ss, Len(ss))
<1> DEFINE N == Len(ss)
<1>1. N \in Nat /\ \A k \in 1 .. N : ss[k] \in Seq(X)
  BY PartsAre
<1> DEFINE T == {n \in 0 .. N : \E p \in [0 .. n -> Seq(X)] : Joins(p, ss, n)}
<1> HIDE DEF N
<1>2. 0 \in T
  <2> DEFINE p == [k \in 0 .. 0 |-> << >>]
  <2>1. p \in [0 .. 0 -> Seq(X)] /\ Joins(p, ss, 0)
    BY DEF Joins
  <2> HIDE DEF p
  <2>2. 0 \in 0 .. N
    BY <1>1
  <2> QED BY <2>1, <2>2
<1>3. ASSUME NEW n \in 0 .. N - 1, n \in T
      PROVE  n + 1 \in T
  <2>1. PICK p \in [0 .. n -> Seq(X)] : Joins(p, ss, n)
    BY <1>3
  <2>2. n \in Nat /\ n + 1 \in 1 .. N /\ n + 1 \in 0 .. N /\ (n + 1) - 1 = n
    BY <1>1
  <2> DEFINE q == [k \in 0 .. n + 1 |-> IF k = n + 1 THEN p[n] \o ss[n + 1] ELSE p[k]]
  <2>3. q \in [0 .. n + 1 -> Seq(X)]
    <3>1. p[n] \in Seq(X) /\ ss[n + 1] \in Seq(X)
      BY <1>1, <2>2
    <3>2. p[n] \o ss[n + 1] \in Seq(X)
      BY <3>1, ConcatProperties
    <3>3. ASSUME NEW k \in 0 .. n + 1, k # n + 1 PROVE p[k] \in Seq(X)
      BY <2>2, <3>3
    <3> QED BY <3>2, <3>3
  <2>4. Joins(q, ss, n + 1)
    <3>1. q[0] = << >>
      BY <2>1, <2>2 DEF Joins
    <3>2. ASSUME NEW k \in 1 .. n + 1 PROVE q[k] = q[k - 1] \o ss[k]
      <4>1. CASE k = n + 1
        <5>1. q[k] = p[n] \o ss[n + 1] /\ q[k - 1] = p[n]
          BY <2>2, <4>1
        <5> QED BY <4>1, <5>1
      <4>2. CASE k # n + 1
        <5>1. k \in 1 .. n /\ q[k] = p[k] /\ q[k - 1] = p[k - 1]
          BY <2>2, <4>2
        <5> HIDE DEF q
        <5> QED BY <2>1, <5>1 DEF Joins
      <4> QED BY <4>1, <4>2
    <3> HIDE DEF q
    <3> QED BY <3>1, <3>2 DEF Joins
  <2> HIDE DEF q
  <2> QED BY <2>2, <2>3, <2>4
<1> HIDE DEF T
<1>4. N \in T
  <2>1. \A n \in 0 .. N : n \in T
    BY <1>1, <1>2, <1>3, Tokenizer!InductTo
  <2> QED BY <1>1, <2>1
<1> QED BY <1>4 DEF T, N

LEMMA FlattenRun ==
  ASSUME NEW X, NEW ss \in Seq(Seq(X))
  PROVE  \E p \in [0 .. Len(ss) -> Seq(X)] :
           Joins(p, ss, Len(ss)) /\ FlattenSeq(ss) = p[Len(ss)]
<1> DEFINE N == Len(ss)
           Step(g) == [i \in 1 .. N |-> IF i = 1 THEN ss[i] ELSE g[i - 1] \o ss[i]]
           f == CHOOSE g : g = Step(g)
<1>1. N \in Nat /\ \A k \in 1 .. N : ss[k] \in Seq(X)
  BY PartsAre
<1>2. PICK p \in [0 .. N -> Seq(X)] : Joins(p, ss, N)
  BY JoinsExists
<1>3. CASE N = 0
  BY <1>2, <1>3 DEF FlattenSeq, Joins
<1>4. CASE N # 0
  <2>1. \E g : g = Step(g)
    <3> DEFINE h == [i \in 1 .. N |-> p[i]]
    <3>1. ASSUME NEW i \in 1 .. N PROVE h[i] = IF i = 1 THEN ss[i] ELSE h[i - 1] \o ss[i]
      <4>1. h[i] = p[i - 1] \o ss[i] /\ ss[i] \in Seq(X)
        BY <1>1, <1>2 DEF Joins
      <4>2. CASE i = 1
        <5>1. p[i - 1] = << >>
          BY <1>2, <4>2 DEF Joins
        <5> QED BY <4>1, <4>2, <5>1, ConcatEmptySeq
      <4>3. CASE i # 1
        <5>1. h[i - 1] = p[i - 1]
          BY <1>1, <4>3
        <5> HIDE DEF h
        <5> QED BY <4>1, <4>3, <5>1
      <4> QED BY <4>2, <4>3
    <3>2. h = Step(h)
      BY <3>1
    <3> QED BY <3>2
  <2>2. f = Step(f)
    <3> HIDE DEF Step
    <3> QED BY <2>1
  <2>3. FlattenSeq(ss) = f[N]
    BY <1>1, <1>4 DEF FlattenSeq
  <2> DEFINE T == {n \in 0 .. N : n # 0 => f[n] = p[n]}
  <2> HIDE DEF f
  <2>4. ASSUME NEW n \in 0 .. N - 1, n \in T
        PROVE  n + 1 \in T
    <3>1. n + 1 \in 1 .. N /\ (n + 1) - 1 = n /\ n + 1 \in 0 .. N
      BY <1>1
    <3>2. f[n + 1] = IF n + 1 = 1 THEN ss[n + 1] ELSE f[n] \o ss[n + 1]
      BY <2>2, <3>1
    <3>3. p[n + 1] = p[n] \o ss[n + 1] /\ ss[n + 1] \in Seq(X)
      BY <1>1, <1>2, <3>1 DEF Joins
    <3>4. f[n + 1] = p[n + 1]
      <4>1. CASE n = 0
        <5>1. p[n] = << >>
          BY <1>2, <4>1 DEF Joins
        <5>2. << >> \o ss[n + 1] = ss[n + 1]
          BY <3>3, ConcatEmptySeq
        <5> QED BY <3>2, <3>3, <4>1, <5>1, <5>2
      <4>2. CASE n # 0
        <5>1. f[n] = p[n]
          BY <2>4, <4>2
        <5>2. n + 1 # 1
          BY <2>4, <4>2
        <5> QED BY <3>2, <3>3, <5>1, <5>2
      <4> QED BY <4>1, <4>2
    <3> QED BY <3>1, <3>4
  <2>5. 0 \in T
    BY <1>1
  <2>6. N \in T
    <3> HIDE DEF T, N
    <3>1. \A n \in 0 .. N : n \in T
      BY <1>1, <2>4, <2>5, Tokenizer!InductTo
    <3> QED BY <1>1, <3>1
  <2> QED BY <1>2, <1>4, <2>3, <2>6
<1> QED BY <1>3, <1>4

-----------------------------------------------------------------------------
(* The parser in one pass.                                                 *)

(* What was read of the lines before, and how far the line at hand is.     *)
At(read, st) == [read |-> read, st |-> st]

Walk(w, ch) ==
  IF ch = "newline" THEN At(ReadTokens(w.read, LineEnd(w.st)), LineStart)
                    ELSE At(w.read, Scan(w.st, ch))

Splitter == INSTANCE Iteration WITH Round <- AddLetter
Reader == INSTANCE Iteration WITH Round <- ParseLine
Walker == INSTANCE Iteration WITH Round <- Walk

Pass(w, letters) == Walker!Fold(w, letters)
Final(w) == ReadTokens(w.read, LineEnd(w.st))

LEMMA Loops ==
  ASSUME NEW s
  PROVE  /\ TokenizeUCI(s) = LineEnd(Tokenizer!Fold(LineStart, s))
         /\ Lines(s) = Splitter!Fold(<< << >> >>, s)
         /\ ParseUCI(s) = Reader!Fold(Got(<< >>), Lines(s))
<1>1. TokenizeUCI(s) = LineEnd(Tokenizer!Fold(LineStart, s))
  BY DEF TokenizeUCI, FoldLeft, MapThenFoldSet, Max, Tokenizer!Fold
<1>2. Lines(s) = Splitter!Fold(<< << >> >>, s)
  BY DEF Lines, FoldLeft, MapThenFoldSet, Max, Splitter!Fold
<1>3. ParseUCI(s) = Reader!Fold(Got(<< >>), Lines(s))
  BY DEF ParseUCI, FoldLeft, MapThenFoldSet, Max, Reader!Fold
<1> QED BY <1>1, <1>2, <1>3

(* The lines that are there stand for a place in the pass.                 *)
Place(lines) ==
  At(Reader!Fold(Got(<< >>), Front(lines)), Tokenizer!Fold(LineStart, Last(lines)))

LEMMA FrontAndLast ==
  ASSUME NEW X, NEW s \in Seq(X), s # << >>
  PROVE  Front(s) \in Seq(X) /\ Last(s) \in X /\ s = Append(Front(s), Last(s))
BY DEF Front, Last

LEMMA FrontOfAppend ==
  ASSUME NEW X, NEW s \in Seq(X), NEW e \in X
  PROVE  Front(Append(s, e)) = s /\ Last(Append(s, e)) = e
BY DEF Front, Last

LEMMA LastReplaced ==
  ASSUME NEW X, NEW s \in Seq(X), NEW d \in X, NEW e \in X, NEW a, a = Append(s, d)
  PROVE  ReplaceAt(a, Len(a), e) = Append(s, e)
<1> DEFINE b == Append(s, e)  c == ReplaceAt(a, Len(a), e)
<1>1. /\ a \in Seq(X) /\ Len(a) = Len(s) + 1 /\ \A i \in 1 .. Len(s) : a[i] = s[i]
      /\ b \in Seq(X) /\ Len(b) = Len(s) + 1 /\ \A i \in 1 .. Len(s) : b[i] = s[i]
      /\ b[Len(s) + 1] = e /\ Len(s) \in Nat
  BY AppendProperties, LenProperties
<1> HIDE DEF b
<1>2. Len(a) \in 1 .. Len(a)
  BY <1>1
<1>3. /\ c \in Seq(X) /\ Len(c) = Len(a)
      /\ \A j \in 1 .. Len(a) : c[j] = IF j = Len(a) THEN e ELSE a[j]
  <2> DEFINE n == Len(a)
  <2>1. n \in Nat /\ n \in 1 .. n /\ a \in [1 .. n -> X]
    BY <1>1, <1>2, LenProperties
  <2>2. c = [a EXCEPT ![n] = e]
    BY DEF ReplaceAt
  <2> HIDE DEF n, c
  <2>3. c \in [1 .. n -> X] /\ \A j \in 1 .. n : c[j] = IF j = n THEN e ELSE a[j]
    BY <2>1, <2>2
  <2>4. c \in Seq(X) /\ Len(c) = n
    BY <2>1, <2>3
  <2> QED BY <2>3, <2>4 DEF n
<1> HIDE DEF c
<1>4. \A i \in 1 .. Len(c) : c[i] = b[i]
  BY <1>1, <1>3
<1>5. c = b
  BY <1>1, <1>3, <1>4, SeqEqual
<1> QED BY <1>5 DEF b, c

LEMMA PlaceOfLines ==
  ASSUME NEW lines \in Seq(Seq(Letters)), lines # << >>
  PROVE  /\ Reader!Fold(Got(<< >>), lines) = Final(Place(lines))
         /\ \A ch \in Letters :
              LET next == AddLetter(lines, ch)
              IN  next \in Seq(Seq(Letters)) /\ next # << >> /\ Place(next) = Walk(Place(lines), ch)
<1> DEFINE f == Front(lines)
           l == Last(lines)
           read == Reader!Fold(Got(<< >>), f)
           st == Tokenizer!Fold(LineStart, l)
<1>1. f \in Seq(Seq(Letters)) /\ l \in Seq(Letters) /\ lines = Append(f, l)
  BY FrontAndLast
<1>2. Place(lines).read = read /\ Place(lines).st = st
  BY DEF Place, At
<1> HIDE DEF f, l, read, st
<1>3. Reader!Fold(Got(<< >>), lines) = ReadTokens(read, LineEnd(st))
  <2>1. Reader!Fold(Got(<< >>), Append(f, l)) = ParseLine(read, l)
    BY <1>1, Reader!FoldLast DEF read
  <2> QED BY <1>1, <2>1, Loops DEF ParseLine, st
<1>4. Reader!Fold(Got(<< >>), lines) = Final(Place(lines))
  BY <1>2, <1>3 DEF Final
<1>5. ASSUME NEW ch \in Letters
      PROVE  LET next == AddLetter(lines, ch)
             IN  next \in Seq(Seq(Letters)) /\ next # << >> /\ Place(next) = Walk(Place(lines), ch)
  <2>1. CASE ch = "newline"
    <3>1. AddLetter(lines, ch) = Append(lines, << >>)
      BY <2>1 DEF AddLetter
    <3>2. << >> \in Seq(Letters)
      OBVIOUS
    <3>3. Place(Append(lines, << >>)) = At(ReadTokens(read, LineEnd(st)), LineStart)
      <4>1. Front(Append(lines, << >>)) = lines /\ Last(Append(lines, << >>)) = << >>
        BY <3>2, FrontOfAppend
      <4>2. Tokenizer!Fold(LineStart, << >>) = LineStart
        BY Tokenizer!FoldEmpty
      <4> QED BY <1>3, <4>1, <4>2 DEF Place
    <3>4. Append(lines, << >>) \in Seq(Seq(Letters)) /\ Append(lines, << >>) # << >>
      BY <3>2, AppendProperties
    <3> QED BY <1>2, <2>1, <3>1, <3>3, <3>4 DEF Walk
  <2>2. CASE ch # "newline"
    <3>1. AddLetter(lines, ch) = Append(f, Append(l, ch))
      <4>1. AddLetter(lines, ch) = ReplaceAt(lines, Len(lines), Append(l, ch))
        BY <2>2 DEF AddLetter, l, Last
      <4>2. Append(l, ch) \in Seq(Letters)
        BY <1>1
      <4> DEFINE X == Seq(Letters)
                 e == Append(l, ch)
      <4> HIDE DEF X, e
      <4>3. f \in Seq(X) /\ l \in X /\ e \in X
        BY <1>1, <4>2 DEF X, e
      <4>4. ReplaceAt(lines, Len(lines), e) = Append(f, e)
        BY <1>1, <4>3, LastReplaced
      <4> QED BY <4>1, <4>4 DEF e
    <3>2. Append(l, ch) \in Seq(Letters)
      BY <1>1
    <3>3. Place(Append(f, Append(l, ch))) = At(read, Scan(st, ch))
      <4>1. Front(Append(f, Append(l, ch))) = f /\ Last(Append(f, Append(l, ch))) = Append(l, ch)
        BY <1>1, <3>2, FrontOfAppend
      <4>2. Tokenizer!Fold(LineStart, Append(l, ch)) = Scan(st, ch)
        BY <1>1, Tokenizer!FoldLast DEF st
      <4> QED BY <4>1, <4>2 DEF Place, read
    <3>4. Append(f, Append(l, ch)) \in Seq(Seq(Letters)) /\ Append(f, Append(l, ch)) # << >>
      BY <1>1, <3>2, AppendProperties
    <3> QED BY <1>2, <2>2, <3>1, <3>3, <3>4 DEF Walk
  <2> QED BY <2>1, <2>2
<1> QED BY <1>4, <1>5

FirstState == At(Got(<< >>), LineStart)

LEMMA OnePass ==
  ASSUME NEW t \in Seq(Letters)
  PROVE  ParseUCI(t) = Final(Pass(FirstState, t))
<1> DEFINE N == Len(t)
<1>1. N \in Nat /\ \A k \in 1 .. N : t[k] \in Letters
  BY PartsAre
<1>2. PICK l : Splitter!IsRun(l, << << >> >>, t) /\ Splitter!Fold(<< << >> >>, t) = l[N]
  BY Splitter!FoldRun
<1>3. PICK w : Walker!IsRun(w, FirstState, t) /\ Walker!Fold(FirstState, t) = w[N]
  BY Walker!FoldRun
<1> DEFINE T == {k \in 0 .. N : l[k] \in Seq(Seq(Letters)) /\ l[k] # << >> /\ w[k] = Place(l[k])}
<1>4. 0 \in T
  <2>1. l[0] = << << >> >> /\ w[0] = FirstState
    BY <1>2, <1>3 DEF Splitter!IsRun, Walker!IsRun
  <2>2. << << >> >> \in Seq(Seq(Letters)) /\ << << >> >> # << >>
    OBVIOUS
  <2>3. Place(<< << >> >>) = FirstState
    <3>1. Front(<< << >> >>) = << >> /\ Last(<< << >> >>) = << >>
      BY DEF Front, Last
    <3> QED BY <3>1, Reader!FoldEmpty, Tokenizer!FoldEmpty DEF Place, FirstState
  <2>4. 0 \in 0 .. N
    BY <1>1
  <2> HIDE DEF N
  <2> QED BY <2>1, <2>2, <2>3, <2>4
<1>5. ASSUME NEW k \in 0 .. N - 1, k \in T
      PROVE  k + 1 \in T
  <2>1. k + 1 \in 1 .. N /\ k + 1 \in 0 .. N /\ (k + 1) - 1 = k
    BY <1>1
  <2>2. l[k + 1] = AddLetter(l[k], t[k + 1]) /\ w[k + 1] = Walk(w[k], t[k + 1])
    BY <1>2, <1>3, <2>1 DEF Splitter!IsRun, Walker!IsRun
  <2>3. t[k + 1] \in Letters
    BY <1>1, <2>1
  <2> QED BY <1>5, <2>1, <2>2, <2>3, PlaceOfLines
<1>6. N \in T
  <2> HIDE DEF T, N
  <2>1. \A n \in 0 .. N : n \in T
    BY <1>1, <1>4, <1>5, Tokenizer!InductTo
  <2> QED BY <1>1, <2>1
<1>7. l[N] = Lines(t)
  BY <1>2, Loops
<1>8. Reader!Fold(Got(<< >>), l[N]) = Final(w[N])
  BY <1>6, PlaceOfLines
<1> QED BY <1>3, <1>7, <1>8, Loops DEF Pass

(* What is made of a text in parts.                                        *)
LEMMA PassInParts ==
  /\ \A w : Pass(w, << >>) = w
  /\ \A w, ch : Pass(w, <<ch>>) = Walk(w, ch)
  /\ \A w : \A s, t \in Seq(Letters) : Pass(w, s \o t) = Pass(Pass(w, s), t)
BY Walker!FoldEmpty, Walker!FoldOne, Walker!FoldConcat DEF Pass

-----------------------------------------------------------------------------
(* Letter by letter through what renderUCI writes.                         *)

Between(tokens) ==
  [tokens |-> tokens, current |-> << >>, inToken |-> FALSE,
   quote |-> NoQuote, escaped |-> FALSE, finished |-> FALSE]

InWord(tokens, current, quote) ==
  [tokens |-> tokens, current |-> current, inToken |-> TRUE,
   quote |-> quote, escaped |-> FALSE, finished |-> FALSE]

(* Nothing more can be read.                                               *)
Lost(w) == w = At(Failed, w.st)

LEMMA WalkBetween ==
  ASSUME NEW r, NEW tokens
  PROVE  /\ Walk(At(r, Between(tokens)), "doublequote")
              = At(r, InWord(tokens, << >>, "doublequote"))
         /\ \A ch \in {"config", "option", "list"} :
              Walk(At(r, Between(tokens)), ch) = At(r, InWord(tokens, <<ch>>, NoQuote))
         /\ Walk(At(r, Between(tokens)), "space") = At(r, Between(tokens))
<1>1. Scan(Between(tokens), "doublequote") = InWord(tokens, << >>, "doublequote")
  BY DEF Scan, Unquoted, Between, InWord, Quotes, NoQuote
<1>2. ASSUME NEW ch \in {"config", "option", "list"}
      PROVE  Scan(Between(tokens), ch) = InWord(tokens, <<ch>>, NoQuote)
  <2>1. Scan(Between(tokens), ch) = Put(Between(tokens), ch)
    BY <1>2 DEF Scan, Unquoted, Between, Quotes, NoQuote
  <2>2. Append(<< >>, ch) = <<ch>>
    OBVIOUS
  <2> QED BY <2>1, <2>2 DEF Put, Between, InWord
<1>3. Scan(Between(tokens), "space") = Between(tokens)
  BY DEF Scan, Unquoted, Between, Quotes, NoQuote
<1> QED BY <1>1, <1>2, <1>3 DEF Walk, At

LEMMA WalkLetter ==
  ASSUME NEW r, NEW tokens, NEW current, NEW ch \in Plain \ {"backslash", "doublequote"}
  PROVE  Walk(At(r, InWord(tokens, current, "doublequote")), ch)
           = At(r, InWord(tokens, Append(current, ch), "doublequote"))
<1> DEFINE st == InWord(tokens, current, "doublequote")
<1>1. Scan(st, ch) = InWord(tokens, Append(current, ch), "doublequote")
  <2>1. Scan(st, ch) = Put(st, ch)
    BY DEF Scan, Quoted, InWord, NoQuote
  <2> QED BY <2>1 DEF Put, InWord
<1> HIDE DEF st
<1>2. ch # "newline"
  BY DEF Plain
<1> QED BY <1>1, <1>2 DEF Walk, At, st

LEMMA WalkEscaped ==
  ASSUME NEW r, NEW tokens, NEW current, NEW ch \in {"backslash", "doublequote"}
  PROVE  Walk(Walk(At(r, InWord(tokens, current, "doublequote")), "backslash"), ch)
           = At(r, InWord(tokens, Append(current, ch), "doublequote"))
<1> DEFINE st == InWord(tokens, current, "doublequote")
           escaped == [InWord(tokens, current, "doublequote") EXCEPT !.escaped = TRUE]
<1>1. Scan(st, "backslash") = escaped
  BY DEF Scan, Quoted, InWord, NoQuote
<1>2. Scan(escaped, ch) = InWord(tokens, Append(current, ch), "doublequote")
  BY DEF Scan, InWord, Put
<1> HIDE DEF st, escaped
<1> QED BY <1>1, <1>2 DEF Walk, At, st

LEMMA WalkQuoted ==
  ASSUME NEW r, NEW tokens, NEW current
  PROVE  /\ Lost(Walk(At(r, InWord(tokens, current, "doublequote")), "newline"))
         /\ Walk(At(r, InWord(tokens, current, "doublequote")), "doublequote")
              = At(r, InWord(tokens, current, NoQuote))
<1> DEFINE st == InWord(tokens, current, "doublequote")
<1>1. LineEnd(st) = Failed /\ \A x : ReadTokens(x, Failed) = Failed
  BY DEF LineEnd, InWord, NoQuote, ReadTokens, Failed
<1>2. Scan(st, "doublequote") = InWord(tokens, current, NoQuote)
  BY DEF Scan, Quoted, InWord, NoQuote
<1> HIDE DEF st
<1>3. Lost(Walk(At(r, st), "newline"))
  BY <1>1 DEF Walk, Lost, At
<1> QED BY <1>2, <1>3 DEF Walk, At, st

LEMMA WalkOn ==
  ASSUME NEW r, NEW tokens, NEW current
  PROVE  /\ Walk(At(r, InWord(tokens, current, NoQuote)), "space")
              = At(r, Between(Append(tokens, current)))
         /\ Walk(At(r, InWord(tokens, current, NoQuote)), "newline")
              = At(ReadTokens(r, Got(Append(tokens, current))), LineStart)
         /\ r.ok => Walk(At(r, LineStart), "newline") = At(r, LineStart)
<1>1. Scan(InWord(tokens, current, NoQuote), "space") = Between(Append(tokens, current))
  BY DEF Scan, Unquoted, InWord, Between, Quotes, NoQuote
<1>2. LineEnd(InWord(tokens, current, NoQuote)) = Got(Append(tokens, current))
  BY DEF LineEnd, InWord
<1>3. ASSUME r.ok PROVE ReadTokens(r, LineEnd(LineStart)) = r
  BY <1>3 DEF LineEnd, LineStart, ReadTokens, Got, NoQuote
<1> QED BY <1>1, <1>2, <1>3 DEF Walk, At

LEMMA LostStays ==
  ASSUME NEW w, Lost(w), NEW s \in Seq(Letters)
  PROVE  Lost(Pass(w, s)) /\ Final(w) = Failed
<1>1. \A x : ReadTokens(Failed, x) = Failed
  BY DEF ReadTokens, Failed
<1>2. ASSUME NEW v, Lost(v), NEW ch PROVE Lost(Walk(v, ch))
  BY <1>1, <1>2 DEF Lost, Walk, At
<1>3. PICK r : Walker!IsRun(r, w, s) /\ Walker!Fold(w, s) = r[Len(s)]
  BY Walker!FoldRun
<1> DEFINE N == Len(s)
           T == {k \in 0 .. N : Lost(r[k])}
<1>4. N \in Nat
  OBVIOUS
<1>5. 0 \in T
  BY <1>3, <1>4 DEF Walker!IsRun
<1>6. ASSUME NEW k \in 0 .. N - 1, k \in T
      PROVE  k + 1 \in T
  <2>1. k + 1 \in 1 .. N /\ k + 1 \in 0 .. N /\ (k + 1) - 1 = k
    BY <1>4
  <2>2. r[k + 1] = Walk(r[k], s[k + 1])
    BY <1>3, <2>1 DEF Walker!IsRun
  <2> QED BY <1>2, <1>6, <2>1, <2>2
<1>7. N \in T
  <2> HIDE DEF T, N
  <2>1. \A n \in 0 .. N : n \in T
    BY <1>4, <1>5, <1>6, Tokenizer!InductTo
  <2> QED BY <1>4, <2>1
<1>8. Final(w) = Failed
  BY <1>1 DEF Lost, Final, At
<1> QED BY <1>3, <1>7, <1>8 DEF Pass

-----------------------------------------------------------------------------
(* Words.                                                                  *)

Torn(words) == \E v \in words : \E i \in 1 .. Len(v) : v[i] = "newline"

(* From w the pass over s ends with done, unless a line break in one of    *)
(* the words that s was made from is in the way.                           *)
Reads(w, s, words, done) == IF Torn(words) THEN Lost(Pass(w, s)) ELSE Pass(w, s) = done

Escaped(v) ==
  [i \in DOMAIN v |-> IF v[i] \in {"backslash", "doublequote"} THEN <<"backslash", v[i]>> ELSE <<v[i]>>]

LEMMA EscapedParts ==
  ASSUME NEW v \in Seq(Letters)
  PROVE  /\ Escaped(v) \in Seq(Seq(Letters)) /\ Len(Escaped(v)) = Len(v)
         /\ QuoteUCI(v) = <<"doublequote">> \o FlattenSeq(Escaped(v)) \o <<"doublequote">>
<1>1. ASSUME NEW i \in DOMAIN v PROVE Escaped(v)[i] \in Seq(Letters)
  <2>1. v[i] \in Letters /\ "backslash" \in Letters
    BY DEF Letters
  <2>2. <<"backslash", v[i]>> \in Seq(Letters) /\ <<v[i]>> \in Seq(Letters)
    BY <2>1
  <2> QED BY <2>2 DEF Escaped
<1>2. Escaped(v) \in [1 .. Len(v) -> Seq(Letters)]
  <2>1. DOMAIN v = 1 .. Len(v)
    OBVIOUS
  <2>2. Escaped(v) = [i \in 1 .. Len(v) |-> Escaped(v)[i]]
    BY <2>1 DEF Escaped
  <2> QED BY <1>1, <2>1, <2>2
<1>3. Len(v) \in Nat
  OBVIOUS
<1>4. QuoteUCI(v) = <<"doublequote">> \o FlattenSeq(Escaped(v)) \o <<"doublequote">>
  BY DEF QuoteUCI, Escaped
<1> QED BY <1>2, <1>3, <1>4

(* One part after the other.                                               *)
LEMMA ReadsThen ==
  ASSUME NEW w, NEW mid, NEW done, NEW s \in Seq(Letters), NEW t \in Seq(Letters),
         NEW P, NEW Q, Reads(w, s, P, mid), Reads(mid, t, Q, done)
  PROVE  Reads(w, s \o t, P \cup Q, done)
<1>1. Pass(w, s \o t) = Pass(Pass(w, s), t)
  BY PassInParts
<1>2. Torn(P \cup Q) <=> Torn(P) \/ Torn(Q)
  BY DEF Torn
<1>3. CASE Torn(P)
  <2>1. Lost(Pass(w, s))
    BY <1>3 DEF Reads
  <2>2. Lost(Pass(Pass(w, s), t))
    BY <2>1, LostStays
  <2>3. Lost(Pass(w, s \o t))
    BY <1>1, <2>2
  <2> QED BY <1>2, <1>3, <2>3 DEF Reads
<1>4. CASE ~Torn(P)
  <2>1. Pass(w, s) = mid
    BY <1>4 DEF Reads
  <2>2. Pass(w, s \o t) = Pass(mid, t)
    BY <1>1, <2>1
  <2>3. Lost(Pass(w, s \o t)) <=> Lost(Pass(mid, t))
    BY <2>2
  <2> QED BY <1>2, <1>4, <2>2, <2>3 DEF Reads
<1> QED BY <1>3, <1>4

(* Many parts, each made from its words.                                   *)
LEMMA ReadsAll ==
  ASSUME NEW ss \in Seq(Seq(Letters)), NEW at, NEW words,
         \A k \in 1 .. Len(ss) : Reads(at[k - 1], ss[k], words[k], at[k])
  PROVE  /\ FlattenSeq(ss) \in Seq(Letters)
         /\ Reads(at[0], FlattenSeq(ss), UNION {words[k] : k \in 1 .. Len(ss)}, at[Len(ss)])
<1> DEFINE N == Len(ss)
           So(k) == UNION {words[i] : i \in 1 .. k}
<1>1. N \in Nat /\ \A k \in 1 .. N : ss[k] \in Seq(Letters)
  BY PartsAre
<1>2. PICK p \in [0 .. N -> Seq(Letters)] : Joins(p, ss, N) /\ FlattenSeq(ss) = p[N]
  BY FlattenRun
<1>3. \A k \in 1 .. N : Reads(at[k - 1], ss[k], words[k], at[k])
  OBVIOUS
<1> HIDE DEF N
<1> DEFINE T == {k \in 0 .. N : Reads(at[0], p[k], So(k), at[k])}
<1>4. 0 \in T
  <2>1. p[0] = << >> /\ So(0) = {} /\ 0 \in 0 .. N
    BY <1>1, <1>2 DEF Joins
  <2>2. Pass(at[0], << >>) = at[0]
    BY PassInParts
  <2> HIDE DEF So
  <2>3. Pass(at[0], p[0]) = at[0] /\ ~Torn(So(0))
    BY <2>1, <2>2 DEF Torn
  <2> QED BY <2>1, <2>3 DEF Reads
<1>5. ASSUME NEW k \in 0 .. N - 1, k \in T
      PROVE  k + 1 \in T
  <2>1. k + 1 \in 1 .. N /\ k + 1 \in 0 .. N /\ (k + 1) - 1 = k /\ k \in 0 .. N
    BY <1>1
  <2>2. p[k] \in Seq(Letters) /\ ss[k + 1] \in Seq(Letters)
    BY <1>1, <1>2, <2>1
  <2>3. p[k + 1] = p[k] \o ss[k + 1]
    <3>1. p[k + 1] = p[(k + 1) - 1] \o ss[k + 1]
      BY <1>2, <2>1 DEF Joins
    <3> QED BY <2>1, <3>1
  <2>4. Reads(at[0], p[k], So(k), at[k])
    BY <1>5
  <2>5. Reads(at[k], ss[k + 1], words[k + 1], at[k + 1])
    <3>1. Reads(at[(k + 1) - 1], ss[k + 1], words[k + 1], at[k + 1])
      BY <1>3, <2>1
    <3> QED BY <2>1, <3>1
  <2>6. So(k + 1) = So(k) \cup words[k + 1]
    <3>1. \A i : i \in 1 .. k + 1 <=> i \in 1 .. k \/ i = k + 1
      BY <2>1
    <3> QED BY <3>1
  <2> HIDE DEF So
  <2>7. Reads(at[0], p[k] \o ss[k + 1], So(k) \cup words[k + 1], at[k + 1])
    BY <2>2, <2>4, <2>5, ReadsThen
  <2>8. Reads(at[0], p[k + 1], So(k + 1), at[k + 1])
    BY <2>3, <2>6, <2>7
  <2> QED BY <2>1, <2>8
<1>6. N \in T
  <2> HIDE DEF T
  <2>1. \A n \in 0 .. N : n \in T
    BY <1>1, <1>4, <1>5, Tokenizer!InductTo
  <2> QED BY <1>1, <2>1
<1>7. Reads(at[0], p[N], So(N), at[N]) /\ p[N] \in Seq(Letters)
  BY <1>1, <1>2, <1>6
<1>8. FlattenSeq(ss) = p[N]
  BY <1>2
<1> HIDE DEF So
<1>9. Reads(at[0], FlattenSeq(ss), So(N), at[N]) /\ FlattenSeq(ss) \in Seq(Letters)
  BY <1>7, <1>8
<1> QED BY <1>9 DEF N, So

(* One letter, and one word as good as another.                            *)
LEMMA ReadsOne ==
  ASSUME NEW w, NEW ch, NEW done, Walk(w, ch) = done
  PROVE  Reads(w, <<ch>>, {}, done)
<1>1. ~Torn({})
  BY DEF Torn
<1> QED BY <1>1, PassInParts DEF Reads

LEMMA ReadsSame ==
  ASSUME NEW w, NEW s, NEW done, NEW P, NEW Q, Reads(w, s, P, done), Torn(P) <=> Torn(Q)
  PROVE  Reads(w, s, Q, done)
BY DEF Reads

(* One letter of a word, as it is written.                                 *)
LEMMA LetterRead ==
  ASSUME NEW r, NEW tokens, NEW current, NEW ch \in Letters, NEW e,
         e = IF ch \in {"backslash", "doublequote"} THEN <<"backslash", ch>> ELSE <<ch>>
  PROVE  Reads(At(r, InWord(tokens, current, "doublequote")), e, {<<ch>>},
               At(r, InWord(tokens, Append(current, ch), "doublequote")))
<1> DEFINE w == At(r, InWord(tokens, current, "doublequote"))
           done == At(r, InWord(tokens, Append(current, ch), "doublequote"))
<1>1. ch \in Plain \ {"backslash", "doublequote"} => Walk(w, ch) = done
  BY WalkLetter
<1>2. ch \in {"backslash", "doublequote"} => Walk(Walk(w, "backslash"), ch) = done
  BY WalkEscaped
<1>5. Lost(Walk(w, "newline"))
  BY WalkQuoted
<1> HIDE DEF w, done
<1>6. Torn({<<ch>>}) <=> ch = "newline"
  BY DEF Torn
<1>3. CASE ch \in {"backslash", "doublequote"}
  <2>1. <<"backslash", ch>> = <<"backslash">> \o <<ch>> /\ <<"backslash">> \in Seq(Letters) /\ <<ch>> \in Seq(Letters)
    BY DEF Letters
  <2>2. Pass(w, <<"backslash", ch>>) = Walk(Walk(w, "backslash"), ch)
    <3>1. Pass(w, <<"backslash">> \o <<ch>>) = Pass(Pass(w, <<"backslash">>), <<ch>>)
      BY <2>1, PassInParts
    <3>2. Pass(w, <<"backslash">>) = Walk(w, "backslash")
      BY PassInParts
    <3>3. Pass(Walk(w, "backslash"), <<ch>>) = Walk(Walk(w, "backslash"), ch)
      BY PassInParts
    <3> QED BY <2>1, <3>1, <3>2, <3>3
  <2>3. ch # "newline" /\ e = <<"backslash", ch>>
    BY <1>3
  <2>4. Pass(w, e) = done
    BY <1>2, <1>3, <2>2, <2>3
  <2>5. Reads(w, e, {<<ch>>}, done)
    BY <1>6, <2>3, <2>4 DEF Reads
  <2> QED BY <2>5 DEF w, done
<1>4. CASE ch \notin {"backslash", "doublequote"}
  <2>1. Pass(w, e) = Walk(w, ch)
    <3>1. e = <<ch>>
      BY <1>4
    <3> QED BY <3>1, PassInParts
  <2>2. CASE ch = "newline"
    <3>1. Lost(Pass(w, e))
      BY <1>5, <2>1, <2>2
    <3>2. Reads(w, e, {<<ch>>}, done)
      BY <1>6, <2>2, <3>1 DEF Reads
    <3> QED BY <3>2 DEF w, done
  <2>3. CASE ch # "newline"
    <3>1. ch \in Plain \ {"backslash", "doublequote"}
      BY <1>4, <2>3 DEF Plain
    <3>2. Reads(w, e, {<<ch>>}, done)
      BY <1>1, <1>6, <2>1, <2>3, <3>1 DEF Reads
    <3> QED BY <3>2 DEF w, done
  <2> QED BY <2>2, <2>3
<1> QED BY <1>3, <1>4

(* A quoted word is read as it was, and its line breaks end the reading.   *)
LEMMA WordRead ==
  ASSUME NEW r, NEW tokens, NEW v \in Seq(Letters)
  PROVE  /\ QuoteUCI(v) \in Seq(Letters)
         /\ Reads(At(r, Between(tokens)), QuoteUCI(v), {v}, At(r, InWord(tokens, v, NoQuote)))
<1> DEFINE N == Len(v)  ss == Escaped(v)
           start == At(r, Between(tokens))
           done == At(r, InWord(tokens, v, NoQuote))
           Upto(k) == At(r, InWord(tokens, SubSeq(v, 1, k), "doublequote"))
           at == [k \in 0 .. N |-> Upto(k)]
           words == [k \in 1 .. N |-> {<<v[k]>>}]
           q == <<"doublequote">>
           f == FlattenSeq(ss)
<1>1. ss \in Seq(Seq(Letters)) /\ Len(ss) = N /\ N \in Nat
  BY EscapedParts
<1>2. ASSUME NEW k \in 1 .. N PROVE Reads(at[k - 1], ss[k], words[k], at[k])
  <2>1. SubSeq(v, 1, k - 1) \in Seq(Letters) /\ Append(SubSeq(v, 1, k - 1), v[k]) = SubSeq(v, 1, k)
    BY <1>1
  <2>2. Reads(Upto(k - 1), ss[k], {<<v[k]>>}, Upto(k))
    <3>1. /\ v[k] \in Letters
          /\ ss[k] = IF v[k] \in {"backslash", "doublequote"} THEN <<"backslash", v[k]>> ELSE <<v[k]>>
      BY DEF Escaped
    <3>2. Reads(At(r, InWord(tokens, SubSeq(v, 1, k - 1), "doublequote")), ss[k], {<<v[k]>>},
                At(r, InWord(tokens, Append(SubSeq(v, 1, k - 1), v[k]), "doublequote")))
      BY <3>1, LetterRead
    <3> QED BY <2>1, <3>2
  <2>3. k - 1 \in 0 .. N /\ k \in 0 .. N
    BY <1>1
  <2> HIDE DEF Upto, ss
  <2>4. at[k - 1] = Upto(k - 1) /\ at[k] = Upto(k) /\ words[k] = {<<v[k]>>}
    BY <2>3
  <2> HIDE DEF at, words
  <2> QED BY <2>2, <2>4
<1>3. at[0] = Upto(0) /\ at[N] = Upto(N)
  <2>1. 0 \in 0 .. N /\ N \in 0 .. N
    BY <1>1
  <2> HIDE DEF Upto, N
  <2> QED BY <2>1
<1>4. f \in Seq(Letters) /\ Reads(Upto(0), f, UNION {words[k] : k \in 1 .. N}, Upto(N))
  <2> HIDE DEF at, words, ss, N, Upto
  <2>1. \A k \in 1 .. Len(ss) : Reads(at[k - 1], ss[k], words[k], at[k])
    BY <1>1, <1>2
  <2>2. /\ FlattenSeq(ss) \in Seq(Letters)
        /\ Reads(at[0], FlattenSeq(ss), UNION {words[k] : k \in 1 .. Len(ss)}, at[Len(ss)])
    BY <1>1, <2>1, ReadsAll
  <2> QED BY <1>1, <1>3, <2>2 DEF f
<1>5. Torn(UNION {words[k] : k \in 1 .. N}) <=> Torn({v})
  <2>1. UNION {words[k] : k \in 1 .. N} = {<<v[k]>> : k \in 1 .. N}
    <3>1. \A k \in 1 .. N : words[k] = {<<v[k]>>}
      OBVIOUS
    <3> HIDE DEF words, N
    <3> DEFINE U == UNION {words[k] : k \in 1 .. N}
               V == {<<v[k]>> : k \in 1 .. N}
    <3>2. ASSUME NEW x \in U PROVE x \in V
      <4>1. PICK k \in 1 .. N : x \in words[k]
        BY <3>2
      <4> QED BY <3>1, <4>1
    <3>3. ASSUME NEW x \in V PROVE x \in U
      <4>1. PICK k \in 1 .. N : x = <<v[k]>>
        BY <3>3
      <4>2. x \in words[k]
        BY <3>1, <4>1
      <4> QED BY <4>2
    <3> HIDE DEF U, V
    <3>4. U = V
      BY <3>2, <3>3
    <3> QED BY <3>4 DEF U, V
  <2> DEFINE V == {<<v[k]>> : k \in 1 .. N}
  <2>2. Torn(V) <=> \E k \in 1 .. N : v[k] = "newline"
    <3>1. ASSUME NEW k \in 1 .. N, v[k] = "newline" PROVE Torn(V)
      <4>1. <<v[k]>> \in V /\ 1 \in 1 .. Len(<<v[k]>>) /\ <<v[k]>>[1] = "newline"
        BY <3>1
      <4> HIDE DEF V
      <4> QED BY <4>1 DEF Torn
    <3>2. ASSUME Torn(V) PROVE \E k \in 1 .. N : v[k] = "newline"
      <4>1. PICK k \in 1 .. N : \E i \in 1 .. Len(<<v[k]>>) : <<v[k]>>[i] = "newline"
        BY <3>2 DEF Torn
      <4>2. v[k] = "newline"
        BY <4>1
      <4> QED BY <4>2
    <3> QED BY <3>1, <3>2
  <2> QED BY <2>1, <2>2 DEF Torn
<1>6. Reads(start, q, {}, Upto(0))
  <2>1. Walk(start, "doublequote") = Upto(0)
    <3>1. SubSeq(v, 1, 0) = << >>
      OBVIOUS
    <3> QED BY <3>1, WalkBetween
  <2> HIDE DEF start, Upto
  <2> QED BY <2>1, ReadsOne
<1>7. Reads(Upto(N), q, {}, done)
  <2>1. SubSeq(v, 1, N) = v
    OBVIOUS
  <2>2. Walk(At(r, InWord(tokens, v, "doublequote")), "doublequote") = done
    BY WalkQuoted
  <2>3. Upto(N) = At(r, InWord(tokens, v, "doublequote"))
    BY <2>1
  <2> HIDE DEF done, Upto
  <2>4. Walk(Upto(N), "doublequote") = done
    BY <2>2, <2>3
  <2> QED BY <2>4, ReadsOne
<1>8. q \in Seq(Letters) /\ QuoteUCI(v) = (q \o f) \o q
  BY EscapedParts DEF Letters
<1> HIDE DEF start, done, Upto, q, f, words, N
<1>9. Reads(Upto(0), f, {v}, Upto(N))
  BY <1>4, <1>5, ReadsSame
<1>10. Reads(start, q \o f, {} \cup {v}, Upto(N))
  BY <1>4, <1>6, <1>8, <1>9, ReadsThen
<1>11. q \o f \in Seq(Letters) /\ {} \cup {v} = {v}
  BY <1>4, <1>8
<1>12. Reads(start, (q \o f) \o q, {v} \cup {}, done)
  BY <1>7, <1>8, <1>10, <1>11, ReadsThen
<1>13. Reads(start, QuoteUCI(v), {v}, done)
  <2>1. {v} \cup {} = {v}
    OBVIOUS
  <2> QED BY <1>8, <1>12, <2>1
<1>14. QuoteUCI(v) \in Seq(Letters)
  BY <1>8, <1>11
<1> QED BY <1>13, <1>14 DEF start, done

-----------------------------------------------------------------------------
(* Lines.                                                                  *)

LEMMA Pair ==
  ASSUME NEW X, NEW x \in X, NEW y \in X
  PROVE  /\ <<x>> \in Seq(X) /\ <<x, y>> \in Seq(X)
         /\ Append(<<x>>, y) = <<x, y>> /\ <<x>> \o <<y>> = <<x, y>>
<1> DEFINE a == Append(<<x>>, y)  b == <<x, y>>
<1>1. a \in Seq(X) /\ Len(a) = 2 /\ a[1] = x /\ a[2] = y
  BY AppendProperties
<1>2. b \in Seq(X) /\ Len(b) = 2 /\ b[1] = x /\ b[2] = y
  OBVIOUS
<1>3. a = b
  <2> HIDE DEF a, b
  <2> QED BY <1>1, <1>2, SeqEqual
<1>4. <<x>> \in Seq(X) /\ <<y>> \in Seq(X)
  OBVIOUS
<1>5. a = <<x>> \o <<y>>
  <2> DEFINE c == <<x>> \o <<y>>
  <2>1. c \in Seq(X) /\ Len(c) = 2 /\ c[1] = x /\ c[2] = y
    BY <1>4, ConcatProperties
  <2> HIDE DEF a, c
  <2>2. a = c
    BY <1>1, <2>1, SeqEqual
  <2> QED BY <2>2 DEF c
<1> QED BY <1>2, <1>3, <1>4, <1>5

LEMMA Triple ==
  ASSUME NEW X, NEW x \in X, NEW y \in X, NEW z \in X
  PROVE  /\ <<x, y, z>> \in Seq(X)
         /\ Append(<<x, y>>, z) = <<x, y, z>> /\ <<x>> \o <<y, z>> = <<x, y, z>>
<1> DEFINE a == Append(<<x, y>>, z)  b == <<x, y, z>>  c == <<x>> \o <<y, z>>
<1>1. a \in Seq(X) /\ Len(a) = 3 /\ a[1] = x /\ a[2] = y /\ a[3] = z
  BY AppendProperties
<1>2. b \in Seq(X) /\ Len(b) = 3 /\ b[1] = x /\ b[2] = y /\ b[3] = z
  OBVIOUS
<1>3. c \in Seq(X) /\ Len(c) = 3 /\ c[1] = x /\ c[2] = y /\ c[3] = z
  BY ConcatProperties
<1> HIDE DEF a, b, c
<1>4. a = b /\ c = b
  BY <1>1, <1>2, <1>3, SeqEqual
<1> QED BY <1>2, <1>4 DEF a, b, c

LEMMA SpaceOrEnd ==
  ASSUME NEW r, NEW tokens, NEW v
  PROVE  /\ Reads(At(r, InWord(tokens, v, NoQuote)), <<"space">>, {}, At(r, Between(Append(tokens, v))))
         /\ Reads(At(r, InWord(tokens, v, NoQuote)), <<"newline">>, {},
                  At(ReadTokens(r, Got(Append(tokens, v))), LineStart))
BY WalkOn, ReadsOne

(* The word that a line begins with, after a blank or not.                 *)
LEMMA FirstWordRead ==
  ASSUME NEW r, NEW word \in {"config", "option", "list"}
  PROVE  /\ Reads(At(r, LineStart), <<word, "space">>, {}, At(r, Between(<< <<word>> >>)))
         /\ Reads(At(r, LineStart), <<"space", word, "space">>, {}, At(r, Between(<< <<word>> >>)))
<1> DEFINE start == At(r, Between(<< >>))
           in == At(r, InWord(<< >>, <<word>>, NoQuote))
           done == At(r, Between(<< <<word>> >>))
<1>1. start = At(r, LineStart)
  BY DEF Between, LineStart
<1>2. Reads(start, <<"space">>, {}, start)
  BY WalkBetween, ReadsOne
<1>3. Reads(start, <<word>>, {}, in)
  <2>1. Walk(start, word) = in
    BY WalkBetween
  <2> HIDE DEF start, in
  <2> QED BY <2>1, ReadsOne
<1>4. Reads(in, <<"space">>, {}, done)
  <2>1. Append(<< >>, <<word>>) = << <<word>> >>
    OBVIOUS
  <2>2. Reads(in, <<"space">>, {}, At(r, Between(Append(<< >>, <<word>>))))
    BY SpaceOrEnd
  <2> QED BY <2>1, <2>2
<1>5. /\ <<word>> \in Seq(Letters) /\ <<"space">> \in Seq(Letters) /\ <<word, "space">> \in Seq(Letters)
      /\ <<word>> \o <<"space">> = <<word, "space">>
      /\ <<"space">> \o <<word, "space">> = <<"space", word, "space">>
      /\ {} \cup {} = {}
  <2>1. word \in Letters /\ "space" \in Letters
    BY DEF Letters
  <2>2. <<word>> \in Seq(Letters) /\ <<"space">> \in Seq(Letters) /\ <<word, "space">> \in Seq(Letters)
    BY <2>1
  <2>3. <<word>> \o <<"space">> = <<word, "space">>
    BY <2>1, Pair
  <2>4. <<"space">> \o <<word, "space">> = <<"space", word, "space">>
    BY <2>1, Triple
  <2> QED BY <2>2, <2>3, <2>4
<1> HIDE DEF start, in, done
<1>6. Reads(start, <<word, "space">>, {}, done)
  <2>1. Reads(start, <<word>> \o <<"space">>, {} \cup {}, done)
    BY <1>3, <1>4, <1>5, ReadsThen
  <2> QED BY <1>5, <2>1
<1>7. Reads(start, <<"space", word, "space">>, {}, done)
  <2>1. Reads(start, <<"space">> \o <<word, "space">>, {} \cup {}, done)
    BY <1>2, <1>5, <1>6, ReadsThen
  <2> QED BY <1>5, <2>1
<1> QED BY <1>1, <1>6, <1>7 DEF done

LEMMA LineRead ==
  ASSUME NEW r, NEW word \in {"option", "list"}, NEW key \in Seq(Letters), NEW v \in Seq(Letters)
  PROVE  /\ Line(word, key, v) \in Seq(Letters)
         /\ Reads(At(r, LineStart), Line(word, key, v), {key, v},
                  At(ReadTokens(r, Got(<< <<word>>, key, v>>)), LineStart))
<1> DEFINE a == <<"space", word, "space">>
           b == QuoteUCI(key)
           c == <<"space">>
           d == QuoteUCI(v)
           e == <<"newline">>
           w0 == At(r, LineStart)
           w1 == At(r, Between(<< <<word>> >>))
           w2 == At(r, InWord(<< <<word>> >>, key, NoQuote))
           w3 == At(r, Between(<< <<word>>, key>>))
           w4 == At(r, InWord(<< <<word>>, key>>, v, NoQuote))
           w5 == At(ReadTokens(r, Got(<< <<word>>, key, v>>)), LineStart)
<1>1. Reads(w0, a, {}, w1)
  BY FirstWordRead
<1>2. Reads(w1, b, {key}, w2) /\ b \in Seq(Letters)
  BY WordRead
<1>6. a \in Seq(Letters) /\ c \in Seq(Letters) /\ e \in Seq(Letters) /\ <<word>> \in Seq(Letters)
  <2>1. word \in Letters /\ "space" \in Letters /\ "newline" \in Letters
    BY DEF Letters
  <2> QED BY <2>1, Pair, Triple
<1>3. Reads(w2, c, {}, w3)
  <2>1. Append(<< <<word>> >>, key) = << <<word>>, key>>
    <3> DEFINE first == <<word>>
    <3>1. first \in Seq(Letters)
      BY <1>6
    <3> HIDE DEF first
    <3>2. Append(<<first>>, key) = <<first, key>>
      BY <3>1, Pair
    <3> QED BY <3>2 DEF first
  <2>2. Reads(w2, c, {}, At(r, Between(Append(<< <<word>> >>, key))))
    BY SpaceOrEnd
  <2> HIDE DEF w2, c
  <2> QED BY <2>1, <2>2
<1>4. Reads(w3, d, {v}, w4) /\ d \in Seq(Letters)
  BY WordRead
<1>5. Reads(w4, e, {}, w5)
  <2>1. Append(<< <<word>>, key>>, v) = << <<word>>, key, v>>
    <3> DEFINE first == <<word>>
    <3>1. first \in Seq(Letters)
      BY <1>6
    <3> HIDE DEF first
    <3>2. Append(<<first, key>>, v) = <<first, key, v>>
      BY <3>1, Triple
    <3> QED BY <3>2 DEF first
  <2>2. Reads(w4, e, {}, At(ReadTokens(r, Got(Append(<< <<word>>, key>>, v))), LineStart))
    BY SpaceOrEnd
  <2> HIDE DEF w4, e
  <2> QED BY <2>1, <2>2
<1> DEFINE ab == a \o b
           abc == ab \o c
           abcd == abc \o d
<1>7. Line(word, key, v) = abcd \o e
  BY DEF Line
<1> HIDE DEF a, b, c, d, e, w0, w1, w2, w3, w4, w5
<1>8. ab \in Seq(Letters) /\ Reads(w0, ab, {} \cup {key}, w2)
  <2>1. Reads(w0, a \o b, {} \cup {key}, w2)
    BY <1>1, <1>2, <1>6, ReadsThen
  <2> QED BY <1>2, <1>6, <2>1
<1> HIDE DEF ab
<1>9. abc \in Seq(Letters) /\ Reads(w0, abc, ({} \cup {key}) \cup {}, w3)
  <2>1. Reads(w0, ab \o c, ({} \cup {key}) \cup {}, w3)
    BY <1>3, <1>6, <1>8, ReadsThen
  <2> QED BY <1>6, <1>8, <2>1
<1> HIDE DEF abc
<1>10. abcd \in Seq(Letters) /\ Reads(w0, abcd, (({} \cup {key}) \cup {}) \cup {v}, w4)
  <2>1. Reads(w0, abc \o d, (({} \cup {key}) \cup {}) \cup {v}, w4)
    BY <1>4, <1>9, ReadsThen
  <2>2. abc \o d \in Seq(Letters)
    BY <1>4, <1>9
  <2> QED BY <2>1, <2>2
<1> HIDE DEF abcd
<1>11. Reads(w0, abcd \o e, ((({} \cup {key}) \cup {}) \cup {v}) \cup {}, w5)
  BY <1>5, <1>6, <1>10, ReadsThen
<1>12. abcd \o e \in Seq(Letters) /\ ((({} \cup {key}) \cup {}) \cup {v}) \cup {} = {key, v}
  BY <1>6, <1>10
<1> QED BY <1>7, <1>11, <1>12 DEF w0, w5

-----------------------------------------------------------------------------
(* The sections that there may be, with words from the letters X.          *)

FiniteKeys == {S \in SUBSET Seq(Plain) : IsFiniteSet(S)}
Maps(V) == UNION {[S -> V] : S \in FiniteKeys}
Sections(X) ==
  [typ : Seq(X), name : Seq(X), options : Maps(Seq(X)), lists : Maps(Seq(Seq(X)) \ {<< >>})]

LEMMA MapParts ==
  ASSUME NEW V, NEW f \in Maps(V)
  PROVE  /\ IsFiniteSet(DOMAIN f) /\ DOMAIN f \subseteq Seq(Plain) /\ f \in [DOMAIN f -> V]
         /\ f = [k \in DOMAIN f |-> f[k]]
<1>1. PICK S \in FiniteKeys : f \in [S -> V]
  BY DEF Maps
<1>2. DOMAIN f = S /\ f = [k \in S |-> f[k]]
  BY <1>1
<1> QED BY <1>1, <1>2 DEF FiniteKeys

LEMMA WithMaps ==
  ASSUME NEW V, NEW f \in Maps(V), NEW key \in Seq(Plain), NEW v \in V
  PROVE  With(f, key, v) \in Maps(V)
<1> DEFINE S == DOMAIN f \cup {key}
<1>1. /\ IsFiniteSet(DOMAIN f) /\ DOMAIN f \subseteq Seq(Plain)
      /\ \A k \in DOMAIN f : f[k] \in V
  BY MapParts
<1>2. IsFiniteSet(S)
  <2>1. IsFiniteSet({key})
    BY FS_Singleton
  <2> QED BY <1>1, <2>1, FS_Union
<1>3. S \in FiniteKeys
  BY <1>1, <1>2 DEF FiniteKeys
<1>4. With(f, key, v) \in [S -> V]
  BY <1>1 DEF With
<1> QED BY <1>3, <1>4 DEF Maps

(* The part of a map that is there when the keys S have been read.         *)
Part(f, S) == [k \in S |-> f[k]]

LEMMA OneKeyMore ==
  ASSUME NEW f, NEW S, NEW key
  PROVE  With(Part(f, S), key, f[key]) = Part(f, S \cup {key})
BY DEF With, Part

LEMMA NoKeyYet ==
  ASSUME NEW f
  PROVE  Part(f, {}) = NoEntries
BY DEF Part, NoEntries

(* The fixed order of the keys has each of them once.                      *)
LEMMA InOrder ==
  ASSUME NEW S, IsFiniteSet(S)
  PROVE  LET o == SetToSeq(S)
             Upto(k) == {o[i] : i \in 1 .. k}
         IN  /\ o \in Seq(S) /\ Len(o) \in Nat /\ DOMAIN o = 1 .. Len(o)
             /\ Upto(0) = {} /\ Upto(Len(o)) = S
             /\ \A k \in 1 .. Len(o) : o[k] \notin Upto(k - 1) /\ Upto(k) = Upto(k - 1) \cup {o[k]}
<1> DEFINE n == Cardinality(S)
           o == SetToSeq(S)
           Upto(k) == {o[i] : i \in 1 .. k}
<1>1. n \in Nat /\ ExistsBijection(1 .. n, S)
  BY FS_CardinalityType
<1>2. PICK b \in Bijection(1 .. n, S) : TRUE
  BY <1>1 DEF ExistsBijection
<1>3. b \in [1 .. n -> S] /\ \A i, j \in 1 .. n : b[i] = b[j] => i = j
  BY <1>2 DEF Bijection, Injection, IsInjective
<1>4. IsInjective(b)
  BY <1>3 DEF IsInjective
<1>5. o \in [1 .. n -> S] /\ IsInjective(o)
  BY <1>3, <1>4 DEF SetToSeq
<1> HIDE DEF o, n
<1>6. o \in Injection(1 .. n, S)
  BY <1>5 DEF Injection
<1>7. o \in Surjection(1 .. n, S)
  <2>1. Cardinality(1 .. n) = n
    BY <1>1, FS_Interval
  <2> QED BY <1>6, <2>1, FS_Injection DEF n
<1>8. o \in Seq(S) /\ Len(o) = n /\ DOMAIN o = 1 .. n
  BY <1>1, <1>5
<1>9. Upto(n) = S
  <2>1. \A x \in S : \E i \in 1 .. n : o[i] = x
    BY <1>7 DEF Surjection
  <2>2. \A i \in 1 .. n : o[i] \in S
    BY <1>5
  <2> QED BY <2>1, <2>2
<1>10. Upto(0) = {}
  OBVIOUS
<1>11. ASSUME NEW k \in 1 .. n
       PROVE  o[k] \notin Upto(k - 1) /\ Upto(k) = Upto(k - 1) \cup {o[k]}
  <2>1. \A i, j \in 1 .. n : o[i] = o[j] => i = j
    BY <1>5 DEF IsInjective
  <2>2. \A i : i \in 1 .. k <=> i \in 1 .. k - 1 \/ i = k
    BY <1>1
  <2>3. k \notin 1 .. k - 1 /\ \A i \in 1 .. k - 1 : i \in 1 .. n
    BY <1>1
  <2>4. o[k] \notin Upto(k - 1)
    BY <2>1, <2>3
  <2>5. Upto(k) = Upto(k - 1) \cup {o[k]}
    BY <2>2
  <2> QED BY <2>4, <2>5
<1> HIDE DEF Upto
<1>12. /\ o \in Seq(S) /\ Len(o) \in Nat /\ DOMAIN o = 1 .. Len(o)
       /\ Upto(0) = {} /\ Upto(Len(o)) = S
       /\ \A k \in 1 .. Len(o) : o[k] \notin Upto(k - 1) /\ Upto(k) = Upto(k - 1) \cup {o[k]}
  BY <1>1, <1>8, <1>9, <1>10, <1>11
<1> QED BY <1>12 DEF o, Upto

(* What a line does to the section that is open.                           *)
LEMMA OpeningRead ==
  ASSUME NEW secs
  PROVE  /\ \A typ : ReadTokens(Got(secs), Got(<< <<"config">>, typ>>))
                       = Got(Append(secs, Section(typ, << >>)))
         /\ \A typ, name : ReadTokens(Got(secs), Got(<< <<"config">>, typ, name>>))
                             = Got(Append(secs, Section(typ, name)))
<1>1. \A read, t : t # << >> => ReadTokens(Got(read), Got(t)) = ReadDirective(read, t)
  BY DEF ReadTokens, Got
<1>2. ASSUME NEW typ
      PROVE  ReadTokens(Got(secs), Got(<< <<"config">>, typ>>)) = Got(Append(secs, Section(typ, << >>)))
  <2> DEFINE t == << <<"config">>, typ>>
  <2>1. t # << >> /\ t[1] = <<"config">> /\ t[2] = typ /\ Len(t) = 2
    OBVIOUS
  <2> HIDE DEF t
  <2>2. ReadDirective(secs, t) = Got(Append(secs, Section(typ, << >>)))
    BY <2>1 DEF ReadDirective
  <2>3. ReadTokens(Got(secs), Got(t)) = ReadDirective(secs, t)
    BY <1>1, <2>1
  <2> QED BY <2>2, <2>3 DEF t
<1>3. ASSUME NEW typ, NEW name
      PROVE  ReadTokens(Got(secs), Got(<< <<"config">>, typ, name>>)) = Got(Append(secs, Section(typ, name)))
  <2> DEFINE t == << <<"config">>, typ, name>>
  <2>1. t # << >> /\ t[1] = <<"config">> /\ t[2] = typ /\ t[3] = name /\ Len(t) = 3
    OBVIOUS
  <2> HIDE DEF t
  <2>2. ReadDirective(secs, t) = Got(Append(secs, Section(typ, name)))
    BY <2>1 DEF ReadDirective
  <2>3. ReadTokens(Got(secs), Got(t)) = ReadDirective(secs, t)
    BY <1>1, <2>1
  <2> QED BY <2>2, <2>3 DEF t
<1> QED BY <1>2, <1>3

LEMMA DirectiveRead ==
  ASSUME NEW X, NEW secs \in Seq(X), NEW sec \in X
  PROVE  /\ \A key, v : key \notin DOMAIN sec.options /\ SetOption(sec, key, v) \in X =>
              ReadTokens(Got(Append(secs, sec)), Got(<< <<"option">>, key, v>>))
                = Got(Append(secs, SetOption(sec, key, v)))
         /\ \A key, v : AddToList(sec, key, v) \in X =>
              ReadTokens(Got(Append(secs, sec)), Got(<< <<"list">>, key, v>>))
                = Got(Append(secs, AddToList(sec, key, v)))
<1> DEFINE a == Append(secs, sec)
<1>1. \A read, t : t # << >> => ReadTokens(Got(read), Got(t)) = ReadDirective(read, t)
  BY DEF ReadTokens, Got
<1>2. <<"option">> # <<"config">> /\ <<"list">> # <<"config">> /\ <<"list">> # <<"option">>
  <2>1. <<"option">>[1] = "option" /\ <<"config">>[1] = "config" /\ <<"list">>[1] = "list"
    OBVIOUS
  <2>2. <<"option">> # <<"config">> /\ <<"list">> # <<"config">> /\ <<"list">> # <<"option">>
    BY <2>1
  <2> QED BY <2>2
<1>3. a # << >> /\ a[Len(a)] = sec
  BY AppendProperties
<1>4. \A e \in X : ReplaceAt(a, Len(a), e) = Append(secs, e)
  BY LastReplaced
<1> HIDE DEF a
<1>5. ASSUME NEW key, NEW v, key \notin DOMAIN sec.options, SetOption(sec, key, v) \in X
      PROVE  ReadTokens(Got(a), Got(<< <<"option">>, key, v>>)) = Got(Append(secs, SetOption(sec, key, v)))
  <2> DEFINE t == << <<"option">>, key, v>>
  <2>1. t # << >> /\ t[1] = <<"option">> /\ t[2] = key /\ t[3] = v /\ Len(t) = 3
    OBVIOUS
  <2> HIDE DEF t
  <2>2. ReadDirective(a, t) = Got(ReplaceAt(a, Len(a), SetOption(sec, key, v)))
    BY <1>2, <1>3, <1>5, <2>1 DEF ReadDirective
  <2>3. ReadTokens(Got(a), Got(t)) = ReadDirective(a, t)
    BY <1>1, <2>1
  <2> QED BY <1>4, <1>5, <2>2, <2>3 DEF t
<1>6. ASSUME NEW key, NEW v, AddToList(sec, key, v) \in X
      PROVE  ReadTokens(Got(a), Got(<< <<"list">>, key, v>>)) = Got(Append(secs, AddToList(sec, key, v)))
  <2> DEFINE t == << <<"list">>, key, v>>
  <2>1. t # << >> /\ t[1] = <<"list">> /\ t[2] = key /\ t[3] = v /\ Len(t) = 3
    OBVIOUS
  <2> HIDE DEF t
  <2>2. ReadDirective(a, t) = Got(ReplaceAt(a, Len(a), AddToList(sec, key, v)))
    BY <1>2, <1>3, <2>1 DEF ReadDirective
  <2>3. ReadTokens(Got(a), Got(t)) = ReadDirective(a, t)
    BY <1>1, <2>1
  <2> QED BY <1>4, <1>6, <2>2, <2>3 DEF t
<1> QED BY <1>5, <1>6 DEF a

-----------------------------------------------------------------------------
(* A section, line by line.                                                *)

(* No option name has a line break.                                        *)
LEMMA PlainWords ==
  ASSUME NEW P, P \subseteq Seq(Plain), NEW Q
  PROVE  Torn(P \cup Q) <=> Torn(Q)
<1>1. ASSUME NEW v \in P, NEW i \in 1 .. Len(v) PROVE v[i] # "newline"
  <2>1. v \in Seq(Plain)
    OBVIOUS
  <2>2. v[i] \in Plain
    BY <2>1
  <2> QED BY <2>2 DEF Plain
<1> QED BY <1>1 DEF Torn

LEMMA HeaderRead ==
  ASSUME NEW X, NEW secs \in Seq(X), NEW typ \in Seq(Letters), NEW name \in Seq(Letters)
  PROVE  LET header == <<"config", "space">> \o QuoteUCI(typ)
                         \o (IF name = << >> THEN << >> ELSE <<"space">> \o QuoteUCI(name)) \o <<"newline">>
         IN  /\ header \in Seq(Letters)
             /\ Reads(At(Got(secs), LineStart), header, {typ, name},
                      At(Got(Append(secs, Section(typ, name))), LineStart))
<1> DEFINE r == Got(secs)
           a == <<"config", "space">>
           b == QuoteUCI(typ)
           c == <<"space">>
           d == QuoteUCI(name)
           e == <<"newline">>
           cd == c \o d
           m == IF name = << >> THEN << >> ELSE cd
           ab == a \o b
           abm == ab \o m
           w0 == At(r, LineStart)
           w1 == At(r, Between(<< <<"config">> >>))
           w2 == At(r, InWord(<< <<"config">> >>, typ, NoQuote))
           w3 == At(r, Between(<< <<"config">>, typ>>))
           w4 == At(r, InWord(<< <<"config">>, typ>>, name, NoQuote))
           w5 == At(Got(Append(secs, Section(typ, name))), LineStart)
           w == IF name = << >> THEN w2 ELSE w4
<1>1. Reads(w0, a, {}, w1)
  BY FirstWordRead
<1>2. Reads(w1, b, {typ}, w2) /\ b \in Seq(Letters)
  BY WordRead
<1>3. a \in Seq(Letters) /\ c \in Seq(Letters) /\ e \in Seq(Letters) /\ <<"config">> \in Seq(Letters)
  <2>1. "config" \in Letters /\ "space" \in Letters /\ "newline" \in Letters
    BY DEF Letters
  <2> QED BY <2>1, Pair
<1>4. Append(<< <<"config">> >>, typ) = << <<"config">>, typ>>
  <2> DEFINE first == <<"config">>
  <2>1. first \in Seq(Letters)
    BY <1>3
  <2> HIDE DEF first
  <2>2. Append(<<first>>, typ) = <<first, typ>>
    BY <2>1, Pair
  <2> QED BY <2>2 DEF first
<1>5. Append(<< <<"config">>, typ>>, name) = << <<"config">>, typ, name>>
  <2> DEFINE first == <<"config">>
  <2>1. first \in Seq(Letters)
    BY <1>3
  <2> HIDE DEF first
  <2>2. Append(<<first, typ>>, name) = <<first, typ, name>>
    BY <2>1, Triple
  <2> QED BY <2>2 DEF first
<1>6. Reads(w2, c, {}, w3)
  <2>1. Reads(w2, c, {}, At(r, Between(Append(<< <<"config">> >>, typ))))
    BY SpaceOrEnd
  <2> HIDE DEF w2, c
  <2> QED BY <1>4, <2>1
<1>7. Reads(w3, d, {name}, w4) /\ d \in Seq(Letters)
  BY WordRead
<1>8. Reads(w2, cd, {name}, w4) /\ cd \in Seq(Letters)
  <2> HIDE DEF w2, w3, w4, c, d
  <2>1. Reads(w2, c \o d, {} \cup {name}, w4)
    BY <1>3, <1>6, <1>7, ReadsThen
  <2>2. {} \cup {name} = {name}
    OBVIOUS
  <2>3. c \o d \in Seq(Letters)
    BY <1>3, <1>7
  <2> QED BY <2>1, <2>2, <2>3
<1>9. Reads(w2, m, {name}, w) /\ m \in Seq(Letters)
  <2> HIDE DEF w2, w4, cd
  <2>1. CASE name = << >>
    <3>1. ~Torn({name})
      BY <2>1 DEF Torn
    <3>2. Pass(w2, << >>) = w2
      BY PassInParts
    <3>3. Reads(w2, << >>, {name}, w2) /\ << >> \in Seq(Letters)
      BY <3>1, <3>2 DEF Reads
    <3> QED BY <2>1, <3>3
  <2>2. CASE name # << >>
    BY <1>8, <2>2
  <2> QED BY <2>1, <2>2
<1>10. Reads(w, e, {}, w5)
  <2>1. CASE name = << >>
    <3>1. Reads(w2, e, {}, At(ReadTokens(r, Got(Append(<< <<"config">> >>, typ))), LineStart))
      BY SpaceOrEnd
    <3>2. ReadTokens(r, Got(<< <<"config">>, typ>>)) = Got(Append(secs, Section(typ, << >>)))
      BY OpeningRead
    <3> HIDE DEF w2, w4, e, r
    <3> QED BY <1>4, <2>1, <3>1, <3>2
  <2>2. CASE name # << >>
    <3>1. Reads(w4, e, {}, At(ReadTokens(r, Got(Append(<< <<"config">>, typ>>, name))), LineStart))
      BY SpaceOrEnd
    <3>2. ReadTokens(r, Got(<< <<"config">>, typ, name>>)) = Got(Append(secs, Section(typ, name)))
      BY OpeningRead
    <3> HIDE DEF w2, w4, e, r
    <3> QED BY <1>5, <2>2, <3>1, <3>2
  <2> QED BY <2>1, <2>2
<1> HIDE DEF a, b, e, m, w0, w1, w2, w, w5
<1>11. Reads(w0, ab, {} \cup {typ}, w2) /\ ab \in Seq(Letters)
  <2>1. Reads(w0, a \o b, {} \cup {typ}, w2)
    BY <1>1, <1>2, <1>3, ReadsThen
  <2> QED BY <1>2, <1>3, <2>1
<1> HIDE DEF ab
<1>12. Reads(w0, abm, ({} \cup {typ}) \cup {name}, w) /\ abm \in Seq(Letters)
  <2>1. Reads(w0, ab \o m, ({} \cup {typ}) \cup {name}, w)
    BY <1>9, <1>11, ReadsThen
  <2>2. ab \o m \in Seq(Letters)
    BY <1>9, <1>11
  <2> QED BY <2>1, <2>2
<1> HIDE DEF abm
<1>13. Reads(w0, abm \o e, (({} \cup {typ}) \cup {name}) \cup {}, w5)
  BY <1>3, <1>10, <1>12, ReadsThen
<1>14. abm \o e \in Seq(Letters) /\ (({} \cup {typ}) \cup {name}) \cup {} = {typ, name}
  BY <1>3, <1>12
<1>15. Reads(w0, abm \o e, {typ, name}, w5)
  BY <1>13, <1>14
<1> QED BY <1>14, <1>15 DEF a, b, e, m, ab, abm, w0, w5

(* The lines of the options.                                               *)
LEMMA OptionsRead ==
  ASSUME NEW X, NEW secs \in Seq(X), NEW typ, NEW name, NEW options \in Maps(Seq(Letters)),
         \A f \in Maps(Seq(Letters)) : [Section(typ, name) EXCEPT !.options = f] \in X
  PROVE  LET o == SetToSeq(DOMAIN options)
             lines == FlattenSeq([i \in DOMAIN o |-> Line("option", o[i], options[o[i]])])
         IN  /\ lines \in Seq(Letters)
             /\ Reads(At(Got(Append(secs, Section(typ, name))), LineStart), lines,
                      {options[k] : k \in DOMAIN options},
                      At(Got(Append(secs, [Section(typ, name) EXCEPT !.options = options])), LineStart))
<1> DEFINE S == DOMAIN options
           o == SetToSeq(S)
           N == Len(o)
           Upto(k) == {o[i] : i \in 1 .. k}
           ss == [i \in DOMAIN o |-> Line("option", o[i], options[o[i]])]
           Sec(k) == [Section(typ, name) EXCEPT !.options = Part(options, Upto(k))]
           at == [k \in 0 .. N |-> At(Got(Append(secs, Sec(k))), LineStart)]
           words == [k \in 1 .. N |-> {options[o[k]]}]
<1>1. /\ IsFiniteSet(S) /\ S \subseteq Seq(Plain) /\ \A k \in S : options[k] \in Seq(Letters)
      /\ options = Part(options, S)
  BY MapParts DEF Part
<1>2. /\ o \in Seq(S) /\ N \in Nat /\ DOMAIN o = 1 .. N
      /\ Upto(0) = {} /\ Upto(N) = S
      /\ \A k \in 1 .. N : o[k] \notin Upto(k - 1) /\ Upto(k) = Upto(k - 1) \cup {o[k]}
  BY <1>1, InOrder
<1>3. \A k \in 1 .. N : o[k] \in S
  BY <1>2
<1>4. \A k \in 1 .. N : o[k] \in Seq(Plain) /\ o[k] \in Seq(Letters) /\ options[o[k]] \in Seq(Letters)
  <2>1. Seq(Plain) \subseteq Seq(Letters)
    BY DEF Plain
  <2> QED BY <1>1, <1>3, <2>1
<1> HIDE DEF o, N, Upto
<1>5. \A k \in 0 .. N : Sec(k) \in X
  <2>1. ASSUME NEW k \in 0 .. N PROVE Part(options, Upto(k)) \in Maps(Seq(Letters))
    <3>1. Upto(k) \subseteq S
      <4>1. \A i \in 1 .. k : i \in 1 .. N
        BY <1>2
      <4> QED BY <1>3, <4>1 DEF Upto
    <3>2. Upto(k) \in FiniteKeys
      BY <1>1, <3>1, FS_Subset DEF FiniteKeys
    <3>3. Part(options, Upto(k)) \in [Upto(k) -> Seq(Letters)]
      BY <1>1, <3>1 DEF Part
    <3> QED BY <3>2, <3>3 DEF Maps
  <2> QED BY <2>1
<1>6. \A k \in 1 .. N : ss[k] \in Seq(Letters)
  BY <1>2, <1>4, LineRead
<1>7. ss \in Seq(Seq(Letters)) /\ Len(ss) = N
  <2>1. ss \in [1 .. N -> Seq(Letters)]
    BY <1>2, <1>6
  <2> HIDE DEF ss
  <2> QED BY <1>2, <2>1
<1>8. ASSUME NEW k \in 1 .. N PROVE Reads(at[k - 1], ss[k], words[k], at[k])
  <2> DEFINE key == o[k]
             v == options[key]
             r == Got(Append(secs, Sec(k - 1)))
  <2>1. k \in 0 .. N /\ k - 1 \in 0 .. N
    BY <1>2
  <2>2. /\ at[k - 1] = At(r, LineStart) /\ at[k] = At(Got(Append(secs, Sec(k))), LineStart)
        /\ ss[k] = Line("option", key, v) /\ words[k] = {v}
    BY <1>2, <2>1
  <2>3. key \in Seq(Plain) /\ key \in Seq(Letters) /\ v \in Seq(Letters)
    BY <1>4
  <2>4. SetOption(Sec(k - 1), key, v) = Sec(k)
    <3>1. With(Part(options, Upto(k - 1)), key, v) = Part(options, Upto(k))
      BY <1>2, OneKeyMore
    <3> QED BY <3>1 DEF SetOption, Section
  <2>5. key \notin DOMAIN (Sec(k - 1).options)
    BY <1>2 DEF Part, Section
  <2>6. Sec(k - 1) \in X /\ Sec(k) \in X
    BY <1>5, <2>1
  <2> HIDE DEF key, v, at, ss, words, Sec
  <2>7. ReadTokens(r, Got(<< <<"option">>, key, v>>)) = Got(Append(secs, Sec(k)))
    <3>1. \A x, y : x \notin DOMAIN (Sec(k - 1).options) /\ SetOption(Sec(k - 1), x, y) \in X =>
            ReadTokens(r, Got(<< <<"option">>, x, y>>)) = Got(Append(secs, SetOption(Sec(k - 1), x, y)))
      BY <2>6, DirectiveRead
    <3> HIDE DEF r
    <3>2. SetOption(Sec(k - 1), key, v) \in X
      BY <2>4, <2>6
    <3>3. ReadTokens(r, Got(<< <<"option">>, key, v>>)) = Got(Append(secs, SetOption(Sec(k - 1), key, v)))
      BY <2>5, <3>1, <3>2
    <3> QED BY <2>4, <3>3
  <2> HIDE DEF r
  <2>8. Reads(At(r, LineStart), Line("option", key, v), {key, v},
              At(ReadTokens(r, Got(<< <<"option">>, key, v>>)), LineStart))
    BY <2>3, LineRead
  <2>9. Torn({key, v}) <=> Torn({v})
    <3>1. Torn({key} \cup {v}) <=> Torn({v})
      BY <2>3, PlainWords
    <3>2. {key} \cup {v} = {key, v}
      OBVIOUS
    <3> QED BY <3>1, <3>2
  <2>10. Reads(At(r, LineStart), Line("option", key, v), {v},
               At(Got(Append(secs, Sec(k))), LineStart))
    BY <2>7, <2>8, <2>9, ReadsSame
  <2> QED BY <2>2, <2>10
<1>9. at[0] = At(Got(Append(secs, Section(typ, name))), LineStart)
  <2>1. Sec(0) = Section(typ, name)
    <3>1. Part(options, Upto(0)) = NoEntries
      BY <1>2, NoKeyYet
    <3> QED BY <3>1 DEF Section
  <2>2. 0 \in 0 .. N
    BY <1>2
  <2> HIDE DEF Sec
  <2> QED BY <2>1, <2>2
<1>10. at[N] = At(Got(Append(secs, [Section(typ, name) EXCEPT !.options = options])), LineStart)
  <2>1. Sec(N) = [Section(typ, name) EXCEPT !.options = options]
    BY <1>1, <1>2
  <2>2. N \in 0 .. N
    BY <1>2
  <2> HIDE DEF Sec
  <2> QED BY <2>1, <2>2
<1>11. UNION {words[k] : k \in 1 .. N} = {options[k] : k \in S}
  <2>1. \A k \in 1 .. N : words[k] = {options[o[k]]}
    OBVIOUS
  <2>2. \A x \in S : \E k \in 1 .. N : o[k] = x
    BY <1>2 DEF Upto
  <2> HIDE DEF words, S
  <2> DEFINE U == UNION {words[k] : k \in 1 .. N}
             V == {options[x] : x \in S}
  <2>3. ASSUME NEW x \in U PROVE x \in V
    <3>1. PICK k \in 1 .. N : x \in words[k]
      BY <2>3
    <3> QED BY <1>3, <2>1, <3>1
  <2>4. ASSUME NEW x \in V PROVE x \in U
    <3>1. PICK y \in S : x = options[y]
      BY <2>4
    <3>2. PICK k \in 1 .. N : o[k] = y
      BY <2>2
    <3>3. x \in words[k]
      BY <2>1, <3>1, <3>2
    <3> QED BY <3>3
  <2> HIDE DEF U, V
  <2>5. U = V
    BY <2>3, <2>4
  <2> QED BY <2>5 DEF U, V
<1> HIDE DEF at, words, ss, S
<1>12. \A k \in 1 .. Len(ss) : Reads(at[k - 1], ss[k], words[k], at[k])
  BY <1>7, <1>8
<1>13. /\ FlattenSeq(ss) \in Seq(Letters)
       /\ Reads(at[0], FlattenSeq(ss), UNION {words[k] : k \in 1 .. Len(ss)}, at[Len(ss)])
  BY <1>7, <1>12, ReadsAll
<1>14. /\ FlattenSeq(ss) \in Seq(Letters)
       /\ Reads(At(Got(Append(secs, Section(typ, name))), LineStart), FlattenSeq(ss), {options[k] : k \in S},
                At(Got(Append(secs, [Section(typ, name) EXCEPT !.options = options])), LineStart))
  BY <1>7, <1>9, <1>10, <1>11, <1>13
<1> QED BY <1>14 DEF ss, o, S

(* A section with these entries in its lists.                              *)
Holding(typ, name, options, lists) ==
  [typ |-> typ, name |-> name, options |-> options, lists |-> lists]

Filled == Maps(Seq(Seq(Letters)) \ {<< >>})

LEMMA EntryFirst ==
  ASSUME NEW typ, NEW name, NEW options, NEW f, NEW key, NEW v, key \notin DOMAIN f
  PROVE  AddToList(Holding(typ, name, options, f), key, v)
           = Holding(typ, name, options, With(f, key, Append(<< >>, v)))
BY DEF AddToList, Holding

LEMMA EntryNext ==
  ASSUME NEW typ, NEW name, NEW options, NEW f, NEW key, NEW v, NEW s
  PROVE  AddToList(Holding(typ, name, options, With(f, key, s)), key, v)
           = Holding(typ, name, options, With(f, key, Append(s, v)))
<1> DEFINE g == With(f, key, s)
           e == Append(s, v)
<1>1. key \in DOMAIN g /\ g[key] = s
  BY DEF With
<1>2. With(g, key, e) = With(f, key, e)
  <2> HIDE DEF e
  <2> QED BY DEF With
<1> HIDE DEF g
<1>3. AddToList(Holding(typ, name, options, g), key, v) = Holding(typ, name, options, With(g, key, e))
  BY <1>1 DEF AddToList, Holding
<1> QED BY <1>2, <1>3 DEF g

LEMMA OneEntryMore ==
  ASSUME NEW X, NEW l \in Seq(X), NEW k \in 1 .. Len(l)
  PROVE  /\ SubSeq(l, 1, k) = Append(SubSeq(l, 1, k - 1), l[k])
         /\ k = 1 => SubSeq(l, 1, k - 1) = << >>
         /\ SubSeq(l, 1, Len(l)) = l
OBVIOUS

(* The lines of one list.                                                  *)
LEMMA ListRead ==
  ASSUME NEW X, NEW secs \in Seq(X), NEW typ, NEW name, NEW options,
         \A g \in Filled : Holding(typ, name, options, g) \in X,
         NEW before \in Filled, NEW key \in Seq(Plain), key \notin DOMAIN before,
         NEW l \in Seq(Seq(Letters)) \ {<< >>}
  PROVE  LET lines == FlattenSeq([i \in DOMAIN l |-> Line("list", key, l[i])])
         IN  /\ lines \in Seq(Letters)
             /\ Reads(At(Got(Append(secs, Holding(typ, name, options, before))), LineStart), lines, ToSet(l),
                      At(Got(Append(secs, Holding(typ, name, options, With(before, key, l)))), LineStart))
<1> DEFINE N == Len(l)
           ss == [i \in DOMAIN l |-> Line("list", key, l[i])]
           Map(k) == IF k = 0 THEN before ELSE With(before, key, SubSeq(l, 1, k))
           Sec(k) == Holding(typ, name, options, Map(k))
           at == [k \in 0 .. N |-> At(Got(Append(secs, Sec(k))), LineStart)]
           words == [k \in 1 .. N |-> {l[k]}]
<1>1. N \in Nat /\ N # 0 /\ DOMAIN l = 1 .. N /\ \A k \in 1 .. N : l[k] \in Seq(Letters)
  <2>1. l \in Seq(Seq(Letters)) /\ l # << >>
    OBVIOUS
  <2> QED BY <2>1
<1>2. key \in Seq(Letters)
  BY DEF Plain
<1>3. \A k \in 0 .. N : Sec(k) \in X
  <2>1. ASSUME NEW k \in 0 .. N PROVE Map(k) \in Filled
    <3>1. CASE k = 0
      BY <3>1
    <3>2. CASE k # 0
      <4>1. SubSeq(l, 1, k) \in Seq(Seq(Letters)) /\ Len(SubSeq(l, 1, k)) = k
        BY <1>1, <3>2, SubSeqProperties
      <4>2. SubSeq(l, 1, k) \in Seq(Seq(Letters)) \ {<< >>}
        BY <3>2, <4>1
      <4> HIDE DEF Map
      <4>3. With(before, key, SubSeq(l, 1, k)) \in Filled
        BY <4>2, WithMaps DEF Filled
      <4> QED BY <3>2, <4>3 DEF Map
    <3> QED BY <3>1, <3>2
  <2> HIDE DEF Map
  <2> QED BY <2>1
<1>4. \A k \in 1 .. N : Line("list", key, l[k]) \in Seq(Letters)
  BY <1>1, <1>2, LineRead
<1>5. ss \in Seq(Seq(Letters)) /\ Len(ss) = N
  <2>1. ss = [i \in 1 .. N |-> Line("list", key, l[i])]
    BY <1>1
  <2>2. ss \in [1 .. N -> Seq(Letters)]
    BY <1>4, <2>1
  <2> HIDE DEF ss, N
  <2> QED BY <1>1, <2>2
<1>6. ASSUME NEW k \in 1 .. N PROVE AddToList(Sec(k - 1), key, l[k]) = Sec(k)
  <2>1. CASE k = 1
    <3>1. Map(k - 1) = before
      BY <2>1
    <3>2. Map(k) = With(before, key, Append(<< >>, l[k]))
      <4>1. l \in Seq(Seq(Letters))
        OBVIOUS
      <4>2. SubSeq(l, 1, k) = Append(SubSeq(l, 1, k - 1), l[k]) /\ SubSeq(l, 1, k - 1) = << >>
        BY <2>1, <4>1, OneEntryMore
      <4>3. SubSeq(l, 1, k) = Append(<< >>, l[k])
        BY <4>2
      <4>4. Map(k) = With(before, key, SubSeq(l, 1, k))
        BY <2>1
      <4> HIDE DEF Map
      <4> QED BY <4>3, <4>4
    <3> HIDE DEF Map
    <3> QED BY <3>1, <3>2, EntryFirst
  <2>2. CASE k # 1
    <3> DEFINE s == SubSeq(l, 1, k - 1)
    <3>1. Map(k - 1) = With(before, key, s)
      BY <1>1, <2>2
    <3>2. Map(k) = With(before, key, Append(s, l[k]))
      <4>1. l \in Seq(Seq(Letters))
        OBVIOUS
      <4>2. SubSeq(l, 1, k) = Append(s, l[k])
        BY <4>1, OneEntryMore
      <4>3. Map(k) = With(before, key, SubSeq(l, 1, k))
        BY <1>1
      <4> HIDE DEF s, Map
      <4> QED BY <4>2, <4>3
    <3> DEFINE v == l[k]
               e == Append(s, v)
    <3> HIDE DEF Map, s, v
    <3>3. AddToList(Holding(typ, name, options, With(before, key, s)), key, v)
            = Holding(typ, name, options, With(before, key, e))
      BY EntryNext, SMT
    <3> HIDE DEF e
    <3>4. Map(k) = With(before, key, e)
      BY <3>2 DEF v, e
    <3>5. AddToList(Sec(k - 1), key, v) = Sec(k)
      BY <3>1, <3>3, <3>4
    <3> QED BY <3>5 DEF v
  <2> QED BY <2>1, <2>2
<1>7. ASSUME NEW k \in 1 .. N PROVE Reads(at[k - 1], ss[k], words[k], at[k])
  <2> DEFINE v == l[k]
             r == Got(Append(secs, Sec(k - 1)))
  <2>1. k \in 0 .. N /\ k - 1 \in 0 .. N
    BY <1>1
  <2>2. /\ at[k - 1] = At(r, LineStart) /\ at[k] = At(Got(Append(secs, Sec(k))), LineStart)
        /\ ss[k] = Line("list", key, v) /\ words[k] = {v}
    BY <1>1, <2>1
  <2>3. v \in Seq(Letters)
    BY <1>1
  <2>4. Sec(k - 1) \in X /\ Sec(k) \in X
    BY <1>3, <2>1
  <2>5. AddToList(Sec(k - 1), key, v) = Sec(k)
    BY <1>6
  <2> HIDE DEF v, at, ss, words, Sec
  <2>6. ReadTokens(r, Got(<< <<"list">>, key, v>>)) = Got(Append(secs, Sec(k)))
    <3>1. \A x, y : AddToList(Sec(k - 1), x, y) \in X =>
            ReadTokens(r, Got(<< <<"list">>, x, y>>)) = Got(Append(secs, AddToList(Sec(k - 1), x, y)))
      BY <2>4, DirectiveRead
    <3> HIDE DEF r
    <3>2. AddToList(Sec(k - 1), key, v) \in X
      BY <2>4, <2>5
    <3>3. ReadTokens(r, Got(<< <<"list">>, key, v>>)) = Got(Append(secs, AddToList(Sec(k - 1), key, v)))
      BY <3>1, <3>2
    <3> QED BY <2>5, <3>3
  <2> HIDE DEF r
  <2>7. Reads(At(r, LineStart), Line("list", key, v), {key, v},
              At(ReadTokens(r, Got(<< <<"list">>, key, v>>)), LineStart))
    BY <1>2, <2>3, LineRead
  <2>8. Torn({key, v}) <=> Torn({v})
    <3> DEFINE P == {key}
               Q == {v}
    <3>1. P \subseteq Seq(Plain)
      OBVIOUS
    <3>2. P \cup Q = {key, v}
      OBVIOUS
    <3> HIDE DEF P, Q
    <3>3. Torn(P \cup Q) <=> Torn(Q)
      BY <3>1, PlainWords
    <3> QED BY <3>2, <3>3 DEF Q
  <2>9. Reads(At(r, LineStart), Line("list", key, v), {v},
              At(Got(Append(secs, Sec(k))), LineStart))
    BY <2>6, <2>7, <2>8, ReadsSame
  <2> QED BY <2>2, <2>9
<1>8. /\ at[0] = At(Got(Append(secs, Holding(typ, name, options, before))), LineStart)
      /\ at[N] = At(Got(Append(secs, Holding(typ, name, options, With(before, key, l)))), LineStart)
  <2>1. Map(0) = before
    OBVIOUS
  <2>2. Map(N) = With(before, key, l)
    <3>1. l \in Seq(Seq(Letters)) /\ N \in 1 .. N
      BY <1>1
    <3>2. SubSeq(l, 1, N) = l
      BY <3>1, OneEntryMore
    <3>3. Map(N) = With(before, key, SubSeq(l, 1, N))
      BY <1>1
    <3> HIDE DEF Map, N
    <3> QED BY <3>2, <3>3
  <2>3. 0 \in 0 .. N /\ N \in 0 .. N
    BY <1>1
  <2> HIDE DEF Map, N
  <2> QED BY <2>1, <2>2, <2>3
<1>9. UNION {words[k] : k \in 1 .. N} = ToSet(l)
  <2>1. \A k \in 1 .. N : words[k] = {l[k]}
    OBVIOUS
  <2> HIDE DEF words
  <2> DEFINE U == UNION {words[k] : k \in 1 .. N}
             V == {l[k] : k \in 1 .. N}
  <2>2. ASSUME NEW x \in U PROVE x \in V
    <3>1. PICK k \in 1 .. N : x \in words[k]
      BY <2>2
    <3> QED BY <2>1, <3>1
  <2>3. ASSUME NEW x \in V PROVE x \in U
    <3>1. PICK k \in 1 .. N : x = l[k]
      BY <2>3
    <3>2. x \in words[k]
      BY <2>1, <3>1
    <3> QED BY <3>2
  <2>4. ToSet(l) = V
    BY <1>1 DEF ToSet
  <2> HIDE DEF U, V
  <2>5. U = V
    BY <2>2, <2>3
  <2> QED BY <2>4, <2>5 DEF U
<1> HIDE DEF at, words, ss
<1>10. \A k \in 1 .. Len(ss) : Reads(at[k - 1], ss[k], words[k], at[k])
  BY <1>5, <1>7
<1>11. /\ FlattenSeq(ss) \in Seq(Letters)
       /\ Reads(at[0], FlattenSeq(ss), UNION {words[k] : k \in 1 .. Len(ss)}, at[Len(ss)])
  BY <1>5, <1>10, ReadsAll
<1>12. /\ FlattenSeq(ss) \in Seq(Letters)
       /\ Reads(At(Got(Append(secs, Holding(typ, name, options, before))), LineStart), FlattenSeq(ss), ToSet(l),
                At(Got(Append(secs, Holding(typ, name, options, With(before, key, l)))), LineStart))
  BY <1>5, <1>8, <1>9, <1>11
<1> QED BY <1>12 DEF ss

(* The lines of the lists.                                                 *)
LEMMA ListsRead ==
  ASSUME NEW X, NEW secs \in Seq(X), NEW typ, NEW name, NEW options, NEW lists \in Filled,
         \A g \in Filled : Holding(typ, name, options, g) \in X
  PROVE  LET o == SetToSeq(DOMAIN lists)
             List(key) == FlattenSeq([i \in DOMAIN lists[key] |-> Line("list", key, lists[key][i])])
             lines == FlattenSeq([i \in DOMAIN o |-> List(o[i])])
         IN  /\ lines \in Seq(Letters)
             /\ Reads(At(Got(Append(secs, Holding(typ, name, options, NoEntries))), LineStart), lines,
                      UNION {ToSet(lists[k]) : k \in DOMAIN lists},
                      At(Got(Append(secs, Holding(typ, name, options, lists))), LineStart))
<1> DEFINE S == DOMAIN lists
           o == SetToSeq(S)
           N == Len(o)
           Upto(k) == {o[i] : i \in 1 .. k}
           List(key) == FlattenSeq([i \in DOMAIN lists[key] |-> Line("list", key, lists[key][i])])
           ss == [i \in DOMAIN o |-> List(o[i])]
           Sec(k) == Holding(typ, name, options, Part(lists, Upto(k)))
           at == [k \in 0 .. N |-> At(Got(Append(secs, Sec(k))), LineStart)]
           words == [k \in 1 .. N |-> ToSet(lists[o[k]])]
<1>1. /\ IsFiniteSet(S) /\ S \subseteq Seq(Plain) /\ \A k \in S : lists[k] \in Seq(Seq(Letters)) \ {<< >>}
      /\ lists = Part(lists, S)
  <2>1. lists \in Maps(Seq(Seq(Letters)) \ {<< >>})
    BY DEF Filled
  <2> DEFINE V == Seq(Seq(Letters)) \ {<< >>}
  <2> HIDE DEF V
  <2>2. lists \in Maps(V)
    BY <2>1 DEF V
  <2>3. /\ IsFiniteSet(S) /\ S \subseteq Seq(Plain) /\ \A k \in S : lists[k] \in V
        /\ lists = Part(lists, S)
    BY <2>2, MapParts DEF Part
  <2> QED BY <2>3 DEF V
<1>2. /\ o \in Seq(S) /\ N \in Nat /\ DOMAIN o = 1 .. N
      /\ Upto(0) = {} /\ Upto(N) = S
      /\ \A k \in 1 .. N : o[k] \notin Upto(k - 1) /\ Upto(k) = Upto(k - 1) \cup {o[k]}
  BY <1>1, InOrder
<1>3. \A k \in 1 .. N : o[k] \in S
  BY <1>2
<1>4. \A k \in 1 .. N : o[k] \in Seq(Plain) /\ lists[o[k]] \in Seq(Seq(Letters)) \ {<< >>}
  BY <1>1, <1>3
<1> HIDE DEF o, N, Upto
<1>5. \A k \in 0 .. N : Part(lists, Upto(k)) \in Filled
  <2>1. ASSUME NEW k \in 0 .. N PROVE Part(lists, Upto(k)) \in Filled
    <3>1. Upto(k) \subseteq S
      <4>1. \A i \in 1 .. k : i \in 1 .. N
        BY <1>2
      <4> QED BY <1>3, <4>1 DEF Upto
    <3>2. Upto(k) \in FiniteKeys
      BY <1>1, <3>1, FS_Subset DEF FiniteKeys
    <3> DEFINE V == Seq(Seq(Letters)) \ {<< >>}
    <3> HIDE DEF V, S
    <3>3. \A x \in S : lists[x] \in V
      BY <1>1 DEF V
    <3>4. Part(lists, Upto(k)) \in [Upto(k) -> V]
      BY <3>1, <3>3 DEF Part
    <3>5. Part(lists, Upto(k)) \in Maps(V)
      BY <3>2, <3>4 DEF Maps
    <3> QED BY <3>5 DEF Filled, V
  <2> QED BY <2>1
<1>6. ASSUME NEW k \in 1 .. N
      PROVE  /\ List(o[k]) \in Seq(Letters)
             /\ Reads(At(Got(Append(secs, Sec(k - 1))), LineStart), List(o[k]), ToSet(lists[o[k]]),
                      At(Got(Append(secs, Sec(k))), LineStart))
  <2> DEFINE f == Part(lists, Upto(k - 1))
             key == o[k]
             l == lists[key]
  <2>1. f \in Filled
    <3>1. k - 1 \in 0 .. N
      BY <1>2
    <3> QED BY <1>5, <3>1
  <2>2. key \in Seq(Plain) /\ l \in Seq(Seq(Letters)) \ {<< >>} /\ key \notin DOMAIN f
    BY <1>2, <1>4 DEF Part
  <2>3. With(f, key, l) = Part(lists, Upto(k))
    BY <1>2, OneKeyMore
  <2> HIDE DEF f, key, l
  <2>4. LET lines == FlattenSeq([i \in DOMAIN l |-> Line("list", key, l[i])])
        IN  /\ lines \in Seq(Letters)
            /\ Reads(At(Got(Append(secs, Holding(typ, name, options, f))), LineStart), lines, ToSet(l),
                     At(Got(Append(secs, Holding(typ, name, options, With(f, key, l)))), LineStart))
    BY <2>1, <2>2, ListRead
  <2> QED BY <2>3, <2>4 DEF f, key, l
<1>7. ss \in Seq(Seq(Letters)) /\ Len(ss) = N
  <2>1. \A k \in 1 .. N : List(o[k]) \in Seq(Letters)
    BY <1>6
  <2> HIDE DEF List
  <2>2. ss \in [1 .. N -> Seq(Letters)]
    BY <1>2, <2>1
  <2> HIDE DEF ss
  <2> QED BY <1>2, <2>2
<1>8. ASSUME NEW k \in 1 .. N PROVE Reads(at[k - 1], ss[k], words[k], at[k])
  <2>1. k \in 0 .. N /\ k - 1 \in 0 .. N
    BY <1>2
  <2> HIDE DEF List, Sec
  <2>2. /\ at[k - 1] = At(Got(Append(secs, Sec(k - 1))), LineStart)
        /\ at[k] = At(Got(Append(secs, Sec(k))), LineStart)
        /\ ss[k] = List(o[k]) /\ words[k] = ToSet(lists[o[k]])
    BY <1>2, <2>1
  <2> HIDE DEF at, ss, words
  <2> QED BY <1>6, <2>2
<1>9. /\ at[0] = At(Got(Append(secs, Holding(typ, name, options, NoEntries))), LineStart)
      /\ at[N] = At(Got(Append(secs, Holding(typ, name, options, lists))), LineStart)
  <2>1. Sec(0) = Holding(typ, name, options, NoEntries)
    BY <1>2, NoKeyYet
  <2>2. Sec(N) = Holding(typ, name, options, lists)
    BY <1>1, <1>2
  <2>3. 0 \in 0 .. N /\ N \in 0 .. N
    BY <1>2
  <2> HIDE DEF Sec
  <2> QED BY <2>1, <2>2, <2>3
<1>10. UNION {words[k] : k \in 1 .. N} = UNION {ToSet(lists[k]) : k \in S}
  <2>1. \A k \in 1 .. N : words[k] = ToSet(lists[o[k]])
    OBVIOUS
  <2>2. \A x \in S : \E k \in 1 .. N : o[k] = x
    BY <1>2 DEF Upto
  <2> HIDE DEF words, S
  <2> DEFINE U == UNION {words[k] : k \in 1 .. N}
             V == UNION {ToSet(lists[x]) : x \in S}
  <2>3. ASSUME NEW x \in U PROVE x \in V
    <3>1. PICK k \in 1 .. N : x \in words[k]
      BY <2>3
    <3> QED BY <1>3, <2>1, <3>1
  <2>4. ASSUME NEW x \in V PROVE x \in U
    <3>1. PICK y \in S : x \in ToSet(lists[y])
      BY <2>4
    <3>2. PICK k \in 1 .. N : o[k] = y
      BY <2>2
    <3>3. x \in words[k]
      BY <2>1, <3>1, <3>2
    <3> QED BY <3>3
  <2> HIDE DEF U, V
  <2>5. U = V
    BY <2>3, <2>4
  <2> QED BY <2>5 DEF U, V
<1> HIDE DEF at, words, ss, S, List
<1>11. \A k \in 1 .. Len(ss) : Reads(at[k - 1], ss[k], words[k], at[k])
  BY <1>7, <1>8
<1>12. /\ FlattenSeq(ss) \in Seq(Letters)
       /\ Reads(at[0], FlattenSeq(ss), UNION {words[k] : k \in 1 .. Len(ss)}, at[Len(ss)])
  BY <1>7, <1>11, ReadsAll
<1>13. /\ FlattenSeq(ss) \in Seq(Letters)
       /\ Reads(At(Got(Append(secs, Holding(typ, name, options, NoEntries))), LineStart), FlattenSeq(ss),
                UNION {ToSet(lists[k]) : k \in S},
                At(Got(Append(secs, Holding(typ, name, options, lists))), LineStart))
  BY <1>7, <1>9, <1>10, <1>12
<1> QED BY <1>13 DEF ss, o, S, List

LEMMA SectionParts ==
  ASSUME NEW X, NEW sec \in Sections(X)
  PROVE  /\ sec.typ \in Seq(X) /\ sec.name \in Seq(X) /\ sec.options \in Maps(Seq(X))
         /\ sec.lists \in Maps(Seq(Seq(X)) \ {<< >>})
         /\ sec = Holding(sec.typ, sec.name, sec.options, sec.lists)
BY DEF Sections, Holding

LEMMA IsSection ==
  ASSUME NEW X, NEW typ \in Seq(X), NEW name \in Seq(X), NEW options \in Maps(Seq(X)),
         NEW lists \in Maps(Seq(Seq(X)) \ {<< >>})
  PROVE  Holding(typ, name, options, lists) \in Sections(X)
BY DEF Sections, Holding

LEMMA NoEntriesYet ==
  ASSUME NEW V
  PROVE  NoEntries \in Maps(V)
<1>1. {} \in FiniteKeys
  BY FS_EmptySet DEF FiniteKeys
<1>2. NoEntries \in [{} -> V]
  BY DEF NoEntries
<1> QED BY <1>1, <1>2 DEF Maps

(* The lines of a section add it to the sections before it.                *)
LEMMA SectionRead ==
  ASSUME NEW secs \in Seq(Sections(Letters)), NEW sec \in Sections(Letters)
  PROVE  /\ RenderSection(sec) \in Seq(Letters)
         /\ Reads(At(Got(secs), LineStart), RenderSection(sec), SectionWords(sec),
                  At(Got(Append(secs, sec)), LineStart))
<1> DEFINE X == Sections(Letters)
           typ == sec.typ
           name == sec.name
           options == sec.options
           lists == sec.lists
           o == SetToSeq(DOMAIN options)
           p == SetToSeq(DOMAIN lists)
           List(key) == FlattenSeq([i \in DOMAIN lists[key] |-> Line("list", key, lists[key][i])])
           a == <<"config", "space">> \o QuoteUCI(typ)
                  \o (IF name = << >> THEN << >> ELSE <<"space">> \o QuoteUCI(name)) \o <<"newline">>
           b == FlattenSeq([i \in DOMAIN o |-> Line("option", o[i], options[o[i]])])
           c == FlattenSeq([i \in DOMAIN p |-> List(p[i])])
           P == {options[k] : k \in DOMAIN options}
           Q == UNION {ToSet(lists[k]) : k \in DOMAIN lists}
           opened == Section(typ, name)
           filled == Holding(typ, name, options, NoEntries)
           w0 == At(Got(secs), LineStart)
           w1 == At(Got(Append(secs, opened)), LineStart)
           w2 == At(Got(Append(secs, filled)), LineStart)
           w3 == At(Got(Append(secs, sec)), LineStart)
<1>1. /\ typ \in Seq(Letters) /\ name \in Seq(Letters) /\ options \in Maps(Seq(Letters))
      /\ lists \in Filled /\ sec = Holding(typ, name, options, lists)
  BY SectionParts DEF Filled
<1>2. RenderSection(sec) = (a \o b) \o c
  BY DEF RenderSection
<1>3. SectionWords(sec) = ({typ, name} \cup P) \cup Q
  BY DEF SectionWords
<1> HIDE DEF typ, name, options, lists
<1>4. a \in Seq(Letters) /\ Reads(w0, a, {typ, name}, w1)
  <2> HIDE DEF X
  <2> QED BY <1>1, HeaderRead
<1>5. /\ \A f \in Maps(Seq(Letters)) : [opened EXCEPT !.options = f] \in X
      /\ [opened EXCEPT !.options = options] = filled
  <2>1. \A f : [opened EXCEPT !.options = f] = Holding(typ, name, f, NoEntries)
    BY DEF Section, Holding
  <2>2. NoEntries \in Maps(Seq(Seq(Letters)) \ {<< >>})
    BY NoEntriesYet
  <2>3. \A f \in Maps(Seq(Letters)) : Holding(typ, name, f, NoEntries) \in X
    BY <1>1, <2>2, IsSection
  <2> HIDE DEF opened, X
  <2> QED BY <2>1, <2>3
<1>6. \A g \in Filled : Holding(typ, name, options, g) \in X
  BY <1>1, IsSection DEF Filled
<1> HIDE DEF X
<1>7. secs \in Seq(X)
  BY DEF X
<1>8. b \in Seq(Letters) /\ Reads(w1, b, P, w2)
  <2>1. LET oo == SetToSeq(DOMAIN options)
            lines == FlattenSeq([i \in DOMAIN oo |-> Line("option", oo[i], options[oo[i]])])
        IN  /\ lines \in Seq(Letters)
            /\ Reads(At(Got(Append(secs, Section(typ, name))), LineStart), lines,
                     {options[k] : k \in DOMAIN options},
                     At(Got(Append(secs, [Section(typ, name) EXCEPT !.options = options])), LineStart))
    BY <1>1, <1>5, <1>7, OptionsRead
  <2>2. At(Got(Append(secs, [Section(typ, name) EXCEPT !.options = options])), LineStart) = w2
    BY <1>5
  <2> HIDE DEF w2
  <2> QED BY <2>1, <2>2
<1>9. c \in Seq(Letters) /\ Reads(w2, c, Q, w3)
  <2>1. LET pp == SetToSeq(DOMAIN lists)
            All(key) == FlattenSeq([i \in DOMAIN lists[key] |-> Line("list", key, lists[key][i])])
            lines == FlattenSeq([i \in DOMAIN pp |-> All(pp[i])])
        IN  /\ lines \in Seq(Letters)
            /\ Reads(At(Got(Append(secs, Holding(typ, name, options, NoEntries))), LineStart), lines,
                     UNION {ToSet(lists[k]) : k \in DOMAIN lists},
                     At(Got(Append(secs, Holding(typ, name, options, lists))), LineStart))
    BY <1>1, <1>6, <1>7, ListsRead
  <2>2. At(Got(Append(secs, Holding(typ, name, options, lists))), LineStart) = w3
    BY <1>1
  <2> HIDE DEF w3
  <2> QED BY <2>1, <2>2
<1> HIDE DEF a, b, c, w0, w1, w2, w3, P, Q
<1> DEFINE ab == a \o b
<1>10. ab \in Seq(Letters) /\ Reads(w0, ab, {typ, name} \cup P, w2)
  <2>1. Reads(w0, a \o b, {typ, name} \cup P, w2)
    BY <1>4, <1>8, ReadsThen
  <2>2. a \o b \in Seq(Letters)
    BY <1>4, <1>8
  <2> QED BY <2>1, <2>2
<1> HIDE DEF ab
<1>11. Reads(w0, ab \o c, ({typ, name} \cup P) \cup Q, w3)
  BY <1>9, <1>10, ReadsThen
<1>12. ab \o c \in Seq(Letters)
  BY <1>9, <1>10
<1>13. RenderSection(sec) = ab \o c
  BY <1>2 DEF ab
<1> QED BY <1>3, <1>11, <1>12, <1>13 DEF w0, w3

(* What was rendered is read back, unless there is a line break in it.     *)
LEMMA RenderRead ==
  ASSUME NEW secs \in Seq(Sections(Letters))
  PROVE  /\ RenderUCI(secs) \in Seq(Letters)
         /\ ParseUCI(RenderUCI(secs)) = IF HasLineBreak(secs) THEN Failed ELSE Got(secs)
<1> DEFINE X == Sections(Letters)
           N == Len(secs)
           Block(i) == (IF i = 1 THEN << >> ELSE <<"newline">>) \o RenderSection(secs[i])
           ss == [i \in DOMAIN secs |-> Block(i)]
           Sofar(k) == At(Got(SubSeq(secs, 1, k)), LineStart)
           at == [k \in 0 .. N |-> Sofar(k)]
           words == [k \in 1 .. N |-> SectionWords(secs[k])]
<1>1. N \in Nat /\ DOMAIN secs = 1 .. N /\ \A k \in 1 .. N : secs[k] \in X
  BY PartsAre
<1>2. ASSUME NEW k \in 1 .. N
      PROVE  Block(k) \in Seq(Letters) /\ Reads(Sofar(k - 1), Block(k), SectionWords(secs[k]), Sofar(k))
  <2> DEFINE s == SubSeq(secs, 1, k - 1)
             sec == secs[k]
             e == <<"newline">>
             w == At(Got(s), LineStart)
             done == At(Got(Append(s, sec)), LineStart)
             W == SectionWords(sec)
             t == RenderSection(sec)
  <2>1. s \in Seq(X) /\ sec \in X
    BY <1>1
  <2>2. Sofar(k - 1) = w /\ Sofar(k) = done
    BY OneEntryMore
  <2> HIDE DEF s, sec
  <2>3. t \in Seq(Letters) /\ Reads(w, t, W, done)
    BY <2>1, SectionRead
  <2>4. Reads(w, e, {}, w)
    <3>1. Walk(w, "newline") = w
      <4>1. Got(s).ok
        BY DEF Got
      <4> QED BY <4>1, WalkOn
    <3> HIDE DEF w
    <3> QED BY <3>1, ReadsOne
  <2>5. e \in Seq(Letters) /\ {} \cup W = W
    BY DEF Letters
  <2> HIDE DEF t, W, w, done, e
  <2>6. e \o t \in Seq(Letters) /\ << >> \o t = t
    BY <2>3, <2>5
  <2>7. Reads(w, e \o t, W, done)
    <3>1. Reads(w, e \o t, {} \cup W, done)
      BY <2>3, <2>4, <2>5, ReadsThen
    <3> QED BY <2>5, <3>1
  <2>8. Block(k) = IF k = 1 THEN t ELSE e \o t
    BY <2>6 DEF t, sec, e
  <2> HIDE DEF Block, Sofar
  <2>9. Block(k) \in Seq(Letters) /\ Reads(w, Block(k), W, done)
    <3>1. CASE k = 1
      BY <2>3, <2>8, <3>1
    <3>2. CASE k # 1
      <4>1. Block(k) = e \o t
        BY <2>8, <3>2
      <4> QED BY <2>6, <2>7, <4>1
    <3> QED BY <3>1, <3>2
  <2> QED BY <2>2, <2>9 DEF W, sec
<1>3. ss \in Seq(Seq(Letters)) /\ Len(ss) = N
  <2> HIDE DEF Block
  <2>1. ss \in [1 .. N -> Seq(Letters)]
    BY <1>1, <1>2
  <2> HIDE DEF ss, N
  <2> QED BY <1>1, <2>1
<1>4. ASSUME NEW k \in 1 .. N PROVE Reads(at[k - 1], ss[k], words[k], at[k])
  <2>1. k \in 0 .. N /\ k - 1 \in 0 .. N
    BY <1>1
  <2> HIDE DEF Block, Sofar
  <2>2. at[k - 1] = Sofar(k - 1) /\ at[k] = Sofar(k) /\ ss[k] = Block(k) /\ words[k] = SectionWords(secs[k])
    BY <1>1, <2>1
  <2> HIDE DEF at, ss, words
  <2> QED BY <1>2, <2>2
<1>5. at[0] = FirstState /\ at[N] = At(Got(secs), LineStart)
  <2>1. Sofar(0) = FirstState
    <3>1. SubSeq(secs, 1, 0) = << >>
      OBVIOUS
    <3> QED BY <3>1 DEF FirstState
  <2>2. Sofar(N) = At(Got(secs), LineStart)
    <3>1. SubSeq(secs, 1, N) = secs
      BY <1>1
    <3> QED BY <3>1
  <2>3. 0 \in 0 .. N /\ N \in 0 .. N
    BY <1>1
  <2> HIDE DEF Sofar, N
  <2> QED BY <2>1, <2>2, <2>3
<1>6. Torn(UNION {words[k] : k \in 1 .. N}) <=> HasLineBreak(secs)
  <2>1. \A k \in 1 .. N : words[k] = SectionWords(secs[k])
    OBVIOUS
  <2>2. HasLineBreak(secs) <=> \E k \in 1 .. N : Torn(SectionWords(secs[k]))
    BY <1>1 DEF HasLineBreak, Torn, Contains
  <2> HIDE DEF words, N
  <2>3. HasLineBreak(secs) <=> \E k \in 1 .. N : Torn(words[k])
    BY <2>1, <2>2
  <2>4. Torn(UNION {words[k] : k \in 1 .. N}) <=> \E k \in 1 .. N : Torn(words[k])
    BY DEF Torn
  <2> QED BY <2>3, <2>4
<1>7. RenderUCI(secs) = FlattenSeq(ss)
  BY DEF RenderUCI
<1> HIDE DEF at, words, ss, N, X
<1>8. /\ FlattenSeq(ss) \in Seq(Letters)
      /\ Reads(at[0], FlattenSeq(ss), UNION {words[k] : k \in 1 .. Len(ss)}, at[Len(ss)])
  <2>1. \A k \in 1 .. Len(ss) : Reads(at[k - 1], ss[k], words[k], at[k])
    BY <1>3, <1>4
  <2> QED BY <1>3, <2>1, ReadsAll
<1> DEFINE t == RenderUCI(secs)
<1>9. t \in Seq(Letters) /\ ParseUCI(t) = Final(Pass(FirstState, t))
  BY <1>7, <1>8, OnePass
<1>10. Reads(FirstState, t, UNION {words[k] : k \in 1 .. N}, At(Got(secs), LineStart))
  BY <1>3, <1>5, <1>7, <1>8
<1> HIDE DEF t
<1>11. CASE HasLineBreak(secs)
  <2>1. Lost(Pass(FirstState, t))
    BY <1>6, <1>10, <1>11 DEF Reads
  <2>2. Final(Pass(FirstState, t)) = Failed
    BY <1>9, <2>1, LostStays
  <2> QED BY <1>9, <1>11, <2>2 DEF t
<1>12. CASE ~HasLineBreak(secs)
  <2>1. Pass(FirstState, t) = At(Got(secs), LineStart)
    BY <1>6, <1>10, <1>12 DEF Reads
  <2>2. Final(At(Got(secs), LineStart)) = Got(secs)
    BY DEF Final, At, LineEnd, LineStart, ReadTokens, Got, NoQuote
  <2> QED BY <1>9, <1>12, <2>1, <2>2 DEF t
<1> QED BY <1>11, <1>12

-----------------------------------------------------------------------------
(* What can be read at all: a line break is in no word of it.              *)

Reading == {Failed} \cup {Got(secs) : secs \in Seq(Sections(Plain))}
Tokens == {Failed} \cup {Got(tokens) : tokens \in Seq(Seq(Plain))}
LineStates ==
  [tokens : Seq(Seq(Plain)), current : Seq(Plain), inToken : BOOLEAN,
   quote : Quotes \cup {NoQuote}, escaped : BOOLEAN, finished : BOOLEAN]

LEMMA ScanKeeps ==
  ASSUME NEW st \in LineStates, NEW ch \in Plain
  PROVE  Scan(st, ch) \in LineStates
<1>1. Append(st.current, ch) \in Seq(Plain) /\ Append(st.tokens, st.current) \in Seq(Seq(Plain))
      /\ << >> \in Seq(Plain)
  BY DEF LineStates
<1>2. Put(st, ch) \in LineStates
  BY <1>1 DEF Put, LineStates
<1>3. Quoted(st, ch) \in LineStates
  BY <1>2 DEF Quoted, LineStates
<1>4. Unquoted(st, ch) \in LineStates
  <2>1. [st EXCEPT !.finished = TRUE] \in LineStates /\ [Put(st, ch) EXCEPT !.finished = TRUE] \in LineStates
    BY <1>2 DEF LineStates
  <2>2. ch \in Quotes => [st EXCEPT !.quote = ch, !.inToken = TRUE] \in LineStates
    BY DEF LineStates
  <2>3. [st EXCEPT !.tokens = Append(@, st.current), !.current = << >>, !.inToken = FALSE] \in LineStates
    BY <1>1 DEF LineStates
  <2>4. CASE ch = "hash"
    <3>1. Unquoted(st, ch) = [IF st.inToken THEN Put(st, ch) ELSE st EXCEPT !.finished = TRUE]
      BY <2>4 DEF Unquoted, Quotes
    <3> QED BY <2>1, <3>1
  <2>5. CASE ch \in Quotes
    <3>1. Unquoted(st, ch) = [st EXCEPT !.quote = ch, !.inToken = TRUE]
      BY <2>5 DEF Unquoted, Quotes
    <3> QED BY <2>2, <2>5, <3>1
  <2>6. CASE ch = "space"
    <3>1. Unquoted(st, ch) = IF st.inToken
            THEN [st EXCEPT !.tokens = Append(@, st.current), !.current = << >>, !.inToken = FALSE]
            ELSE st
      BY <2>6 DEF Unquoted, Quotes
    <3> QED BY <2>3, <3>1
  <2>7. CASE ch # "hash" /\ ch \notin Quotes /\ ch # "space"
    BY <1>2, <2>7 DEF Unquoted
  <2> QED BY <2>4, <2>5, <2>6, <2>7
<1>5. [Put(st, ch) EXCEPT !.escaped = FALSE] \in LineStates
  BY <1>2 DEF LineStates
<1>6. CASE st.finished
  BY <1>6 DEF Scan
<1>7. CASE ~st.finished /\ st.escaped
  BY <1>5, <1>7 DEF Scan
<1>8. CASE ~st.finished /\ ~st.escaped /\ st.quote # NoQuote
  BY <1>3, <1>8 DEF Scan
<1>9. CASE ~st.finished /\ ~st.escaped /\ st.quote = NoQuote
  BY <1>4, <1>9 DEF Scan
<1> QED BY <1>6, <1>7, <1>8, <1>9

LEMMA LineEndKeeps ==
  ASSUME NEW st \in LineStates
  PROVE  LineEnd(st) \in Tokens
<1>1. st.tokens \in Seq(Seq(Plain)) /\ Append(st.tokens, st.current) \in Seq(Seq(Plain))
  BY DEF LineStates
<1> QED BY <1>1 DEF LineEnd, Tokens

(* The edits of a section, whichever letters its words are from.           *)
LEMMA SectionEdited ==
  ASSUME NEW X, NEW key \in Seq(Plain), NEW v \in Seq(X)
  PROVE  /\ \A typ, name \in Seq(X) : Section(typ, name) \in Sections(X)
         /\ \A sec \in Sections(X) : /\ SetOption(sec, key, v) \in Sections(X)
                                     /\ AddToList(sec, key, v) \in Sections(X)
<1> DEFINE Lists == Seq(Seq(X)) \ {<< >>}
<1>1. ASSUME NEW typ \in Seq(X), NEW name \in Seq(X) PROVE Section(typ, name) \in Sections(X)
  <2>1. NoEntries \in Maps(Seq(X)) /\ NoEntries \in Maps(Lists)
    BY NoEntriesYet
  <2>2. Section(typ, name) = Holding(typ, name, NoEntries, NoEntries)
    BY DEF Section, Holding
  <2> QED BY <2>1, <2>2, IsSection
<1>2. ASSUME NEW sec \in Sections(X)
      PROVE  SetOption(sec, key, v) \in Sections(X) /\ AddToList(sec, key, v) \in Sections(X)
  <2>1. /\ sec.typ \in Seq(X) /\ sec.name \in Seq(X) /\ sec.options \in Maps(Seq(X))
        /\ sec.lists \in Maps(Lists)
        /\ sec = Holding(sec.typ, sec.name, sec.options, sec.lists)
    BY SectionParts
  <2> DEFINE e == Append(IF key \in DOMAIN sec.lists THEN sec.lists[key] ELSE << >>, v)
  <2>2. e \in Lists
    <3> DEFINE l == IF key \in DOMAIN sec.lists THEN sec.lists[key] ELSE << >>
    <3>1. \A k \in DOMAIN sec.lists : sec.lists[k] \in Lists
      <4> HIDE DEF Lists
      <4> QED BY <2>1, MapParts
    <3>2. l \in Seq(Seq(X))
      BY <3>1
    <3> HIDE DEF l
    <3>3. Append(l, v) \in Seq(Seq(X)) /\ Append(l, v) # << >>
      BY <3>2, AppendProperties
    <3> QED BY <3>3 DEF l
  <2> HIDE DEF Lists, e
  <2>3. With(sec.options, key, v) \in Maps(Seq(X)) /\ With(sec.lists, key, e) \in Maps(Lists)
    BY <2>1, <2>2, WithMaps
  <2> DEFINE typ == sec.typ
             name == sec.name
             o == sec.options
             l == sec.lists
  <2>4. SetOption(sec, key, v) = Holding(typ, name, With(o, key, v), l)
    <3>1. SetOption(Holding(typ, name, o, l), key, v) = Holding(typ, name, With(o, key, v), l)
      <4> HIDE DEF typ, name, o, l
      <4> QED BY DEF SetOption, Holding
    <3> QED BY <2>1, <3>1
  <2>5. AddToList(sec, key, v) = Holding(typ, name, o, With(l, key, e))
    <3>1. AddToList(Holding(typ, name, o, l), key, v)
            = Holding(typ, name, o, With(l, key, Append(IF key \in DOMAIN l THEN l[key] ELSE << >>, v)))
      <4> HIDE DEF typ, name, o, l
      <4> QED BY DEF AddToList, Holding
    <3> QED BY <2>1, <3>1 DEF e
  <2>6. SetOption(sec, key, v) \in Sections(X)
    BY <2>1, <2>3, <2>4, IsSection DEF Lists
  <2>7. AddToList(sec, key, v) \in Sections(X)
    BY <2>1, <2>3, <2>5, IsSection DEF Lists
  <2> QED BY <2>6, <2>7
<1> QED BY <1>1, <1>2

LEMMA ReadKeeps ==
  ASSUME NEW read \in Reading, NEW tokens \in Tokens
  PROVE  ReadTokens(read, tokens) \in Reading
<1> DEFINE X == Sections(Plain)
<1>1. Failed \in Reading /\ Failed.ok = FALSE /\ \A x : Got(x).ok = TRUE /\ Got(x).value = x
  BY DEF Reading, Failed, Got
<1>2. CASE ~read.ok \/ ~tokens.ok
  BY <1>1, <1>2 DEF ReadTokens
<1>3. CASE read.ok /\ tokens.ok
  <2>1. PICK secs \in Seq(X) : read = Got(secs)
    BY <1>1, <1>3 DEF Reading
  <2>2. PICK t \in Seq(Seq(Plain)) : tokens = Got(t)
    BY <1>1, <1>3 DEF Tokens
  <2>3. CASE t = << >>
    BY <1>1, <1>3, <2>2, <2>3 DEF ReadTokens
  <2>4. CASE t # << >>
    <3>1. ReadTokens(read, tokens) = ReadDirective(secs, t)
      BY <1>1, <1>3, <2>1, <2>2, <2>4 DEF ReadTokens
    <3> DEFINE open == secs[Len(secs)]
               Goes(sec) == Got(ReplaceAt(secs, Len(secs), sec))
               name == IF Len(t) = 3 THEN t[3] ELSE << >>
    <3>2. ASSUME Len(t) \in {2, 3} PROVE Got(Append(secs, Section(t[2], name))) \in Reading
      <4>1. t[2] \in Seq(Plain) /\ name \in Seq(Plain)
        BY <3>2
      <4> HIDE DEF name, X
      <4>2. Section(t[2], name) \in X
        BY <4>1, SectionEdited DEF X
      <4>3. Append(secs, Section(t[2], name)) \in Seq(X)
        BY <4>2
      <4> QED BY <4>3 DEF Reading, X
    <3>3. ASSUME secs # << >>, Len(t) = 3
          PROVE  Goes(SetOption(open, t[2], t[3])) \in Reading /\ Goes(AddToList(open, t[2], t[3])) \in Reading
      <4>1. t[2] \in Seq(Plain) /\ t[3] \in Seq(Plain)
        <5>1. \A k \in 1 .. Len(t) : t[k] \in Seq(Plain)
          BY PartsAre
        <5> QED BY <3>3, <5>1
      <4>2. open \in X
        <5> HIDE DEF X
        <5> QED BY <3>3
      <4> HIDE DEF X, open
      <4>3. SetOption(open, t[2], t[3]) \in X /\ AddToList(open, t[2], t[3]) \in X
        BY <4>1, <4>2, SectionEdited DEF X
      <4>4. \A sec \in X : ReplaceAt(secs, Len(secs), sec) \in Seq(X)
        <5>1. Len(secs) \in DOMAIN secs
          BY <3>3
        <5> QED BY <5>1 DEF ReplaceAt
      <4>5. \A sec \in X : Goes(sec) \in Reading
        BY <4>4 DEF Reading, X
      <4> QED BY <4>3, <4>5
    <3> HIDE DEF open, Goes, name
    <3>4. \/ Len(t) \in {2, 3} /\ ReadDirective(secs, t) = Got(Append(secs, Section(t[2], name)))
          \/ secs # << >> /\ Len(t) = 3 /\ ReadDirective(secs, t) = Goes(SetOption(open, t[2], t[3]))
          \/ secs # << >> /\ Len(t) = 3 /\ ReadDirective(secs, t) = Goes(AddToList(open, t[2], t[3]))
          \/ ReadDirective(secs, t) = Failed
      BY DEF ReadDirective, open, Goes, name
    <3> QED BY <1>1, <3>1, <3>2, <3>3, <3>4
  <2> QED BY <2>3, <2>4
<1> QED BY <1>2, <1>3

LEMMA ParseKeeps ==
  ASSUME NEW t \in Seq(Letters)
  PROVE  ParseUCI(t) \in Reading
<1> DEFINE W == {At(read, st) : read \in Reading, st \in LineStates}
           N == Len(t)
<1>1. N \in Nat /\ \A k \in 1 .. N : t[k] \in Letters
  BY PartsAre
<1>2. LineStart \in LineStates
  BY DEF LineStart, LineStates
<1>3. FirstState \in W
  <2>1. << >> \in Seq(Sections(Plain))
    OBVIOUS
  <2>2. Got(<< >>) \in Reading
    BY <2>1 DEF Reading
  <2> QED BY <1>2, <2>2 DEF FirstState
<1>4. ASSUME NEW w \in W, NEW ch \in Letters PROVE Walk(w, ch) \in W
  <2>1. PICK read \in Reading, st \in LineStates : w = At(read, st)
    OBVIOUS
  <2>2. w.read = read /\ w.st = st
    BY <2>1 DEF At
  <2>3. CASE ch = "newline"
    <3>1. ReadTokens(read, LineEnd(st)) \in Reading
      BY LineEndKeeps, ReadKeeps
    <3> QED BY <1>2, <2>2, <2>3, <3>1 DEF Walk
  <2>4. CASE ch # "newline"
    <3>1. Scan(st, ch) \in LineStates
      BY <2>4, ScanKeeps DEF Plain
    <3> QED BY <2>2, <2>4, <3>1 DEF Walk
  <2> QED BY <2>3, <2>4
<1> HIDE DEF W, N
<1>5. Pass(FirstState, t) \in W
  <2> DEFINE kept == [k \in 0 .. N |-> W]
  <2>1. FirstState \in kept[0]
    BY <1>1, <1>3
  <2>2. \A k \in 1 .. Len(t) : \A w \in kept[k - 1] : Walk(w, t[k]) \in kept[k]
    BY <1>1, <1>4 DEF N
  <2>3. kept[Len(t)] = W
    BY <1>1 DEF N
  <2> HIDE DEF kept
  <2>4. Walker!Fold(FirstState, t) \in kept[Len(t)]
    BY <2>1, <2>2, Walker!FoldKeeps
  <2> QED BY <2>3, <2>4 DEF Pass
<1>6. PICK read \in Reading, st \in LineStates : Pass(FirstState, t) = At(read, st)
  BY <1>5 DEF W
<1>7. Final(At(read, st)) \in Reading
  <2>1. Final(At(read, st)) = ReadTokens(read, LineEnd(st))
    BY DEF Final, At
  <2> QED BY <2>1, LineEndKeeps, ReadKeeps
<1> QED BY <1>6, <1>7, OnePass

LEMMA PlainSections ==
  ASSUME NEW secs \in Seq(Sections(Plain))
  PROVE  secs \in Seq(Sections(Letters)) /\ ~HasLineBreak(secs)
<1>1. \A i \in DOMAIN secs : secs[i] \in Sections(Plain)
  OBVIOUS
<1>2. Plain \subseteq Letters /\ "newline" \notin Plain
  BY DEF Plain
<1>3. ASSUME NEW sec \in Sections(Plain)
      PROVE  /\ sec \in Sections(Letters)
             /\ \A w \in SectionWords(sec) : ~Contains(w, "newline")
  <2> DEFINE LP == Seq(Seq(Plain)) \ {<< >>}
             LL == Seq(Seq(Letters)) \ {<< >>}
             W == Seq(Plain)
  <2>1. /\ sec.typ \in W /\ sec.name \in W /\ sec.options \in Maps(W)
        /\ sec.lists \in Maps(LP)
        /\ sec = Holding(sec.typ, sec.name, sec.options, sec.lists)
    BY SectionParts
  <2>2. W \subseteq Seq(Letters) /\ LP \subseteq LL
    BY <1>2
  <2>3. ASSUME NEW U, NEW V, U \subseteq V PROVE Maps(U) \subseteq Maps(V)
    <3>1. ASSUME NEW S PROVE [S -> U] \subseteq [S -> V]
      BY <2>3
    <3> QED BY <3>1 DEF Maps
  <2>4. sec \in Sections(Letters)
    <3>1. sec.options \in Maps(Seq(Letters)) /\ sec.lists \in Maps(LL)
      <4> HIDE DEF LL, LP, W
      <4> QED BY <2>1, <2>2, <2>3
    <3>2. sec.typ \in Seq(Letters) /\ sec.name \in Seq(Letters)
      BY <2>1, <2>2
    <3> QED BY <2>1, <3>1, <3>2, IsSection
  <2>5. \A w \in W : ~Contains(w, "newline")
    <3>1. ASSUME NEW w \in W, NEW i \in 1 .. Len(w) PROVE w[i] # "newline"
      BY <1>2
    <3> QED BY <3>1 DEF Contains
  <2>6. SectionWords(sec) \subseteq W
    <3>1. \A k \in DOMAIN sec.options : sec.options[k] \in W
      <4> HIDE DEF W
      <4> QED BY <2>1, MapParts
    <3>2. \A k \in DOMAIN sec.lists : sec.lists[k] \in LP
      <4> HIDE DEF LP
      <4> QED BY <2>1, MapParts
    <3>3. \A l \in LP : ToSet(l) \subseteq W
      BY DEF ToSet
    <3> HIDE DEF W, LP
    <3> QED BY <2>1, <3>1, <3>2, <3>3 DEF SectionWords
  <2> HIDE DEF W
  <2> QED BY <2>4, <2>5, <2>6
<1>4. secs \in Seq(Sections(Letters))
  <2> DEFINE P == Sections(Plain)
             L == Sections(Letters)
  <2>1. P \subseteq L /\ secs \in Seq(P)
    BY <1>3
  <2> HIDE DEF P, L
  <2>2. secs \in Seq(L)
    BY <2>1
  <2> QED BY <2>2 DEF L
<1> QED BY <1>1, <1>3, <1>4 DEF HasLineBreak

LEMMA EditsKeep ==
  ASSUME NEW secs \in Seq(Sections(Letters)), NEW v \in Values, NEW next \in Edits(secs, v)
  PROVE  next \in Seq(Sections(Letters))
<1> DEFINE X == Sections(Letters)
<1>1. Keys \subseteq Seq(Plain) /\ Keys \subseteq Seq(Letters) /\ v \in Seq(Letters)
  <2>1. Keys \subseteq Seq(Plain) /\ Plain \subseteq Letters
    BY UciConstants DEF Plain
  <2>2. Seq(Plain) \subseteq Seq(Letters)
    BY <2>1
  <2> QED BY <2>1, <2>2, UciConstants
<1>2. \A k \in Keys : \A sec \in X : SetOption(sec, k, v) \in X /\ AddToList(sec, k, v) \in X
  BY <1>1, SectionEdited
<1>3. \A k \in Keys : Section(k, v) \in X
  BY <1>1, SectionEdited
<1> HIDE DEF X
<1>4. secs \in Seq(X) /\ \A i \in DOMAIN secs : secs[i] \in X
  BY DEF X
<1>5. \A i \in DOMAIN secs : \A sec \in X : ReplaceAt(secs, i, sec) \in Seq(X)
  BY <1>4 DEF ReplaceAt
<1>6. \A sec \in X : Append(secs, sec) \in Seq(X)
  BY <1>4
<1>7. \A i \in DOMAIN secs : RemoveAt(secs, i) \in Seq(X)
  BY <1>4 DEF RemoveAt
<1>8. \/ \E i \in DOMAIN secs, k \in Keys : next = ReplaceAt(secs, i, SetOption(secs[i], k, v))
      \/ \E i \in DOMAIN secs, k \in Keys : next = ReplaceAt(secs, i, AddToList(secs[i], k, v))
      \/ \E k \in Keys : next = Append(secs, SetOption(Section(k, v), k, v))
      \/ \E i \in DOMAIN secs : next = RemoveAt(secs, i)
  BY DEF Edits
<1>9. next \in Seq(X)
  BY <1>2, <1>3, <1>4, <1>5, <1>6, <1>7, <1>8
<1> QED BY <1>9 DEF X

-----------------------------------------------------------------------------
(* Theorems.                                                               *)

Meant == {Failed} \cup {Got(secs) : secs \in Seq(Sections(Letters))}

TextInv == text \in Seq(Letters) /\ meant \in Meant /\ RoundTrip

LEMMA TextStarts == TextInit => TextInv
<1> SUFFICES ASSUME TextInit PROVE TextInv
  OBVIOUS
<1>1. text \in Seq(Letters) /\ meant = ParseUCI(text)
  BY UciConstants DEF TextInit
<1>2. meant \in Reading
  BY <1>1, ParseKeeps
<1>3. CASE meant = Failed
  <2>1. ~HasLineBreak(meant.value)
    BY <1>3 DEF HasLineBreak, Failed
  <2> QED BY <1>1, <1>3, <2>1 DEF TextInv, Meant, RoundTrip
<1>4. CASE meant # Failed
  <2>1. PICK secs \in Seq(Sections(Plain)) : meant = Got(secs)
    BY <1>2, <1>4 DEF Reading
  <2>2. meant.value = secs /\ secs \in Seq(Sections(Letters)) /\ ~HasLineBreak(secs)
    BY <2>1, PlainSections DEF Got
  <2>3. meant \in Meant
    BY <2>1, <2>2 DEF Meant
  <2> QED BY <1>1, <2>2, <2>3 DEF TextInv, RoundTrip
<1> QED BY <1>3, <1>4

LEMMA TextStep == TextInv /\ [TextNext]_textVars => TextInv'
<1> SUFFICES ASSUME TextInv, [TextNext]_textVars PROVE TextInv'
  OBVIOUS
<1>1. CASE EditConfig
  <2>1. ParseUCI(text).ok
    BY <1>1 DEF EditConfig
  <2>2. PICK v \in Values : \E next \in Edits(ParseUCI(text).value, v) :
          text' = RenderUCI(next) /\ meant' = Got(next)
    BY <1>1 DEF EditConfig
  <2>3. PICK next \in Edits(ParseUCI(text).value, v) : text' = RenderUCI(next) /\ meant' = Got(next)
    BY <2>2
  <2>4. ParseUCI(text) \in Reading
    BY ParseKeeps DEF TextInv
  <2>5. PICK secs \in Seq(Sections(Plain)) : ParseUCI(text) = Got(secs)
    BY <2>1, <2>4 DEF Reading, Failed
  <2>6. ParseUCI(text).value = secs /\ secs \in Seq(Sections(Letters))
    BY <2>5, PlainSections DEF Got
  <2>7. next \in Seq(Sections(Letters))
    BY <2>3, <2>6, EditsKeep
  <2>8. text' \in Seq(Letters)
    BY <2>3, <2>7, RenderRead
  <2>9. meant' \in Meant
    BY <2>3, <2>7 DEF Meant
  <2>10. RoundTrip'
    <3>1. ParseUCI(text') = IF HasLineBreak(next) THEN Failed ELSE Got(next)
      BY <2>3, <2>7, RenderRead
    <3>2. meant'.value = next
      BY <2>3 DEF Got
    <3> QED BY <2>3, <3>1, <3>2 DEF RoundTrip
  <2> QED BY <2>8, <2>9, <2>10 DEF TextInv
<1>2. CASE UNCHANGED textVars
  BY <1>2 DEF textVars, TextInv, RoundTrip
<1> QED BY <1>1, <1>2 DEF TextNext

(* What is read back from the file is what was meant to be written, over   *)
(* any number of edits and for any values, whatever quotes, backslashes,   *)
(* hashes and blanks they hold; and a line break in any of the words makes *)
(* the file unreadable as a whole.                                         *)
THEOREM RoundTripCorrect == TextSpec => []RoundTrip
<1>1. TextInv => RoundTrip
  BY DEF TextInv
<1> QED BY <1>1, TextStarts, TextStep, PTL DEF TextSpec
=============================================================================

--------------------------- MODULE HttpServer_proofs ---------------------------
(* Proofs about the HTTP server, for every set of clients, whatever they   *)
(* send and however it is cut into reads.  The first part is about its     *)
(* request parser: for every sequence of characters, in whatever pieces it *)
(* comes, it accepts what the grammar accepts.                             *)
EXTENDS HttpServer, SequenceTheorems, WellFoundedInduction, TLAPS

(***************************************************************************)
(* Induction.  A set of naturals takes the place of the predicate, so that *)
(* the principle is a fact of first order.                                 *)
(***************************************************************************)
LEMMA LeastExists ==
    ASSUME NEW S \in SUBSET Nat, S # {}
    PROVE  \E m \in S : \A n \in S : m <= n
<1>1. \E m \in S : \A n \in S : ~(<<n, m>> \in OpToRel(<, Nat))
  BY NatLessThanWellFounded, WFMin
<1>2. OpToRel(<, Nat) = {ss \in Nat \X Nat : ss[1] < ss[2]}
  BY Zenon DEF OpToRel
<1>3. \A m, n \in Nat : <<n, m>> \in {ss \in Nat \X Nat : ss[1] < ss[2]} <=> n < m
  OBVIOUS
<1>4. \A m, n \in Nat : <<n, m>> \in OpToRel(<, Nat) <=> n < m
  BY <1>2, <1>3, Zenon
<1>5. \E m \in S : \A n \in S : ~(n < m)
  BY <1>1, <1>4, Zenon
<1> QED
  BY <1>5

LEMMA Induction ==
    ASSUME NEW S, 0 \in S, \A n \in Nat : n \in S => n + 1 \in S
    PROVE  Nat \subseteq S
<1> SUFFICES ASSUME Nat \ S # {} PROVE FALSE
  OBVIOUS
<1>1. PICK m \in Nat \ S : \A n \in Nat \ S : m <= n
  BY LeastExists
<1>2. m # 0 /\ m - 1 \in Nat
  OBVIOUS
<1>3. m - 1 \in S
  BY <1>1, <1>2
<1> QED
  BY <1>2, <1>3

(***************************************************************************)
(* Parse is a fold.  Its recursion is over the subsets of the positions,   *)
(* of which the one that matters is always 1 .. k.                         *)
(***************************************************************************)
Step(q, c) == IF q.state \in Results THEN q ELSE Consume(q, c)

Folds(f, p, s) ==
    f = [D \in SUBSET DOMAIN s |->
            IF D = {} THEN p ELSE LET x == Max(D) IN Step(f[D \ {x}], s[x])]

LEMMA ParseIsFold == ASSUME NEW p, NEW s PROVE Parse(p, s) = (CHOOSE f : Folds(f, p, s))[DOMAIN s]
  BY DEF Parse, FoldLeft, MapThenFoldSet, Folds, Step
LEMMA MaxIsLast ==
    ASSUME NEW n \in Nat, NEW D \in SUBSET (1 .. n + 1), n + 1 \in D
    PROVE  Max(D) = n + 1
<1>1. \A y \in D : n + 1 >= y
  OBVIOUS
<1>2. Max(D) \in D /\ \A y \in D : Max(D) >= y
  BY <1>1 DEF Max
<1>3. Max(D) \in 1 .. n + 1 /\ Max(D) >= n + 1
  BY <1>2
<1> QED
  BY <1>3

LEMMA FoldExists == ASSUME NEW T, NEW s \in Seq(T), NEW p PROVE \E f : Folds(f, p, s)
<1> DEFINE Solves(f, n) ==
             f = [D \in SUBSET (1 .. n) |->
                     IF D = {} THEN p ELSE Step(f[D \ {Max(D)}], s[Max(D)])]
           Solved == {n \in Nat : \E f : Solves(f, n)}
<1>1. 0 \in Solved
  <2>1. Solves([D \in SUBSET (1 .. 0) |-> p], 0)
    OBVIOUS
  <2> QED
    BY <2>1
<1>2. ASSUME NEW n \in Nat, n \in Solved PROVE n + 1 \in Solved
  <2>1. PICK f : Solves(f, n)
    BY <1>2
  <2> DEFINE g == [D \in SUBSET (1 .. n + 1) |->
                     IF n + 1 \in D THEN Step(f[D \ {n + 1}], s[n + 1]) ELSE f[D]]
  <2>2. ASSUME NEW D \in SUBSET (1 .. n + 1)
        PROVE  g[D] = IF D = {} THEN p ELSE Step(g[D \ {Max(D)}], s[Max(D)])
    <3>1. CASE n + 1 \in D
      <4>1. Max(D) = n + 1
        BY <3>1, MaxIsLast
      <4>2. D \ {n + 1} \in SUBSET (1 .. n + 1) /\ n + 1 \notin D \ {n + 1}
        OBVIOUS
      <4> QED
        BY <3>1, <4>1, <4>2
    <3>2. CASE n + 1 \notin D
      <4>1. D \in SUBSET (1 .. n)
        BY <3>2
      <4>3. D \ {Max(D)} \in SUBSET (1 .. n + 1) /\ n + 1 \notin D \ {Max(D)}
        BY <3>2
      <4>2. f[D] = IF D = {} THEN p ELSE Step(f[D \ {Max(D)}], s[Max(D)])
        BY <2>1, <4>1
      <4> QED
        BY <3>2, <4>2, <4>3
    <3> QED
      BY <3>1, <3>2
  <2>3. g = [D \in SUBSET (1 .. n + 1) |->
              IF D = {} THEN p ELSE Step(g[D \ {Max(D)}], s[Max(D)])]
    BY <2>2
  <2> HIDE DEF g
  <2>4. \E h : Solves(h, n + 1)
    <3> WITNESS g
    <3> QED
      BY <2>3
  <2>5. n + 1 \in Nat
    OBVIOUS
  <2> QED
    BY <2>4, <2>5, Zenon
<1> HIDE DEF Solved
<1>3. Nat \subseteq Solved
  BY <1>1, <1>2, Induction
<1>4. Len(s) \in Nat /\ DOMAIN s = 1 .. Len(s)
  OBVIOUS
<1>5. PICK f : Solves(f, Len(s))
  BY <1>3, <1>4 DEF Solved
<1> QED
  BY <1>4, <1>5 DEF Folds

\* What the fold does with the first k characters.
LEMMA FoldSteps ==
    ASSUME NEW T, NEW s \in Seq(T), NEW p, NEW f, Folds(f, p, s)
    PROVE  /\ f[1 .. 0] = p
           /\ \A k \in 0 .. Len(s) - 1 : f[1 .. k + 1] = Step(f[1 .. k], s[k + 1])
<1>1. DOMAIN s = 1 .. Len(s)
  OBVIOUS
<1>2. f[1 .. 0] = p
  BY <1>1 DEF Folds
<1>3. ASSUME NEW k \in 0 .. Len(s) - 1 PROVE f[1 .. k + 1] = Step(f[1 .. k], s[k + 1])
  <2>1. 1 .. k + 1 \in SUBSET DOMAIN s /\ 1 .. k + 1 # {}
    <3>1. 1 \in 1 .. k + 1
      OBVIOUS
    <3>2. 1 .. k + 1 \subseteq 1 .. Len(s)
      OBVIOUS
    <3> QED
      BY <1>1, <3>1, <3>2, Zenon
  <2>2. Max(1 .. k + 1) = k + 1
    BY MaxIsLast
  <2>3. (1 .. k + 1) \ {k + 1} = 1 .. k
    OBVIOUS
  <2> QED
    BY <2>1, <2>2, <2>3 DEF Folds
<1> QED
  BY <1>2, <1>3

LEMMA ParseEmpty == ASSUME NEW p PROVE Parse(p, <<>>) = p
<1>1. <<>> \in Seq({}) /\ DOMAIN <<>> = 1 .. 0
  OBVIOUS
<1>2. \E f : Folds(f, p, <<>>)
  BY <1>1, FoldExists
<1>3. Folds(CHOOSE f : Folds(f, p, <<>>), p, <<>>)
  BY <1>2
<1> QED
  BY <1>1, <1>3, FoldSteps, ParseIsFold

LEMMA ParseLast ==
    ASSUME NEW T, NEW s \in Seq(T), NEW n \in 0 .. Len(s) - 1, NEW p
    PROVE  Parse(p, SubSeq(s, 1, n + 1)) = Step(Parse(p, SubSeq(s, 1, n)), s[n + 1])
<1> DEFINE t == SubSeq(s, 1, n + 1)
           u == SubSeq(s, 1, n)
<1>1. /\ t \in Seq(T) /\ Len(t) = n + 1 /\ DOMAIN t = 1 .. n + 1
      /\ u \in Seq(T) /\ Len(u) = n /\ DOMAIN u = 1 .. n
      /\ \A i \in 1 .. n : u[i] = t[i]
      /\ t[n + 1] = s[n + 1]
  OBVIOUS
<1> HIDE DEF t, u
<1> DEFINE f == CHOOSE x : Folds(x, p, t)
           g == CHOOSE x : Folds(x, p, u)
<1>2. Folds(f, p, t) /\ Folds(g, p, u)
  BY <1>1, FoldExists
<1>3. Parse(p, t) = f[1 .. n + 1] /\ Parse(p, u) = g[1 .. n]
  BY <1>1, ParseIsFold
<1> HIDE DEF f, g
<1>4. /\ f[1 .. 0] = p /\ g[1 .. 0] = p
      /\ \A k \in 0 .. n : f[1 .. k + 1] = Step(f[1 .. k], t[k + 1])
      /\ \A k \in 0 .. n - 1 : g[1 .. k + 1] = Step(g[1 .. k], u[k + 1])
  <2>1. /\ f[1 .. 0] = p
        /\ \A k \in 0 .. Len(t) - 1 : f[1 .. k + 1] = Step(f[1 .. k], t[k + 1])
    BY <1>1, <1>2, FoldSteps
  <2>2. /\ g[1 .. 0] = p
        /\ \A k \in 0 .. Len(u) - 1 : g[1 .. k + 1] = Step(g[1 .. k], u[k + 1])
    BY <1>1, <1>2, FoldSteps
  <2> QED
    BY <1>1, <2>1, <2>2
<1> DEFINE Same == {k \in Nat : k <= n => f[1 .. k] = g[1 .. k]}
<1>5. 0 \in Same
  BY <1>4
<1>6. ASSUME NEW k \in Nat, k \in Same PROVE k + 1 \in Same
  <2> SUFFICES ASSUME k + 1 <= n PROVE f[1 .. k + 1] = g[1 .. k + 1]
    OBVIOUS
  <2>1. k \in 0 .. n - 1 /\ k \in 0 .. n /\ k + 1 \in 1 .. n
    OBVIOUS
  <2> QED
    BY <1>1, <1>4, <1>6, <2>1
<1>7. n \in Same
  <2> HIDE DEF Same
  <2> QED
    BY <1>5, <1>6, Induction
<1> QED
  BY <1>1, <1>3, <1>4, <1>7 DEF t, u
\* However the characters are cut into pieces, the parser gets as far.
LEMMA PiecesJoin ==
    ASSUME NEW T, NEW s \in Seq(T), NEW p, NEW g \in 0 .. Len(s), NEW n \in 0 .. Len(s) - g
    PROVE  Parse(Parse(p, SubSeq(s, 1, g)), SubSeq(s, g + 1, g + n)) = Parse(p, SubSeq(s, 1, g + n))
<1> DEFINE q == Parse(p, SubSeq(s, 1, g))
           u == SubSeq(s, g + 1, g + n)
           Joined == {k \in Nat : k <= n => Parse(q, SubSeq(u, 1, k)) = Parse(p, SubSeq(s, 1, g + k))}
<1>1. u \in Seq(T) /\ Len(u) = n /\ \A k \in 1 .. n : u[k] = s[g + k]
  OBVIOUS
<1> HIDE DEF u, q
<1>2. 0 \in Joined
  <2>1. SubSeq(u, 1, 0) = <<>>
    BY <1>1
  <2>2. Parse(q, <<>>) = q /\ g + 0 = g
    BY ParseEmpty
  <2> QED
    BY <2>1, <2>2 DEF q
<1>3. ASSUME NEW k \in Nat, k \in Joined PROVE k + 1 \in Joined
  <2> SUFFICES ASSUME k + 1 <= n
               PROVE  Parse(q, SubSeq(u, 1, k + 1)) = Parse(p, SubSeq(s, 1, g + (k + 1)))
    OBVIOUS
  <2>1. k \in 0 .. Len(u) - 1 /\ g + k \in 0 .. Len(s) - 1 /\ k + 1 \in 1 .. n
    BY <1>1
  <2>2. Parse(q, SubSeq(u, 1, k + 1)) = Step(Parse(q, SubSeq(u, 1, k)), u[k + 1])
    BY <1>1, <2>1, ParseLast
  <2>3. Parse(p, SubSeq(s, 1, (g + k) + 1)) = Step(Parse(p, SubSeq(s, 1, g + k)), s[(g + k) + 1])
    BY <2>1, ParseLast
  <2>4. Parse(q, SubSeq(u, 1, k)) = Parse(p, SubSeq(s, 1, g + k))
    BY <1>3, <2>1
  <2>5. u[k + 1] = s[(g + k) + 1] /\ (g + k) + 1 = g + (k + 1)
    BY <1>1, <2>1
  <2> QED
    BY <2>2, <2>3, <2>4, <2>5
<1> HIDE DEF Joined
<1>4. n \in Joined
  BY <1>2, <1>3, Induction
<1>5. SubSeq(u, 1, n) = u
  BY <1>1
<1>6. Parse(q, SubSeq(u, 1, n)) = Parse(p, SubSeq(s, 1, g + n))
  BY <1>4 DEF Joined
<1> QED
  BY <1>5, <1>6 DEF u, q

(***************************************************************************)
(* What one character does: a row of the table accepts it.                 *)
(***************************************************************************)
Accepts(p, c, r) ==
    /\ r.from = p.state /\ c \in r.chars
    /\ r.from = "header_line_start" /\ r.to = "header_lws" => p.headers

Consumes(p, c, r, q) ==
    /\ Accepts(p, c, r) /\ q.state = r.to
    /\ q.headers <=> p.headers \/ r.to = "header_name"
    /\ q.uri = IF r.from = "uri" /\ r.to = "uri" THEN Append(p.uri, c) ELSE p.uri

LEMMA ConsumeIs ==
    ASSUME NEW p, p.state \in States, NEW c
    PROVE  LET q == Consume(p, c)
           IN  \/ q.state = "false" /\ \A r \in Rows : ~Accepts(p, c, r)
               \/ \E r \in Rows : Consumes(p, c, r, q)
<1> DEFINE q == Consume(p, c)
<1>1. \/ q.state = "false" /\ \A r \in Rows : ~Accepts(p, c, r)
      \/ \E r \in Rows : Accepts(p, c, r) /\ q.state = r.to
  BY DEF Consume, RowsFor, RowsFrom, Accepts
<1>2. /\ q.headers <=> p.headers \/ q.state = "header_name"
      /\ q.uri = IF p.state = "uri" /\ q.state = "uri" THEN Append(p.uri, c) ELSE p.uri
  BY DEF Consume
<1> QED
  BY <1>1, <1>2 DEF Consumes, Accepts

(***************************************************************************)
(* The shape of what has been read, by positions.  The grammar speaks of   *)
(* pieces that it cuts out of a request; the parser has only the position. *)
(***************************************************************************)
Among(s, a, b, chars) == \A x \in a .. b : s[x] \in chars

MethodTo(s, k) == k >= 1 /\ Among(s, 1, k, Token)
UriTo(s, i, k) == i <= k /\ s[i] = " " /\ MethodTo(s, i - 1) /\ Among(s, i + 1, k, Text \ {" "})
VersionAt(s, i, j) == s[j] = " " /\ UriTo(s, i, j - 1)
Http(s, j) == s[j + 1] = "H" /\ s[j + 2] = "T" /\ s[j + 3] = "T" /\ s[j + 4] = "P" /\ s[j + 5] = "/"
MajorTo(s, j, k) == Http(s, j) /\ k >= j + 6 /\ Among(s, j + 6, k, Digits)
MinorTo(s, j, d, k) == d < k /\ s[d] = "." /\ MajorTo(s, j, d - 1) /\ Among(s, d + 1, k, Digits)
RequestLineTo(s, i, j, k) == VersionAt(s, i, j) /\ \E d \in Nat : MinorTo(s, j, d, k)

LEMMA OfCharsIsAmong ==
    ASSUME NEW s \in Seq(Chars), NEW a \in Nat \ {0}, NEW b \in 0 .. Len(s), NEW chars
    PROVE  OfChars(SubSeq(s, a, b), chars) <=> Among(s, a, b, chars)
<1> DEFINE t == SubSeq(s, a, b)
<1>1. /\ DOMAIN t = 1 .. b - a + 1
      /\ \A x \in 1 .. b - a + 1 : t[x] = s[a + x - 1]
  OBVIOUS
<1>2. \A x \in a .. b : x - a + 1 \in 1 .. b - a + 1 /\ s[x] = t[x - a + 1]
  BY <1>1
<1>3. \A x \in 1 .. b - a + 1 : a + x - 1 \in a .. b
  OBVIOUS
<1> HIDE DEF t
<1>4. OfChars(t, chars) <=> \A x \in 1 .. b - a + 1 : t[x] \in chars
  BY <1>1 DEF OfChars, ToSet
<1> QED
  BY <1>1, <1>2, <1>3, <1>4 DEF Among, t

LEMMA NotEmpty ==
    ASSUME NEW T, NEW s \in Seq(T), NEW a \in Nat \ {0}, NEW b \in 0 .. Len(s)
    PROVE  SubSeq(s, a, b) # <<>> <=> a <= b
<1>1. CASE a <= b
  <2>1. Len(SubSeq(s, a, b)) = b - a + 1
    BY <1>1
  <2> QED
    BY <1>1, <2>1
<1>2. CASE b < a
  BY <1>2, SubSeqEmpty
<1> QED
  BY <1>1, <1>2

\* The letters that a version begins with.
LEMMA HttpIsPrefix ==
    ASSUME NEW v \in Seq(Chars)
    PROVE  IsPrefix(<<"H", "T", "T", "P", "/">>, v) <=> Len(v) >= 5 /\ Http(v, 0)
<1> DEFINE H == <<"H", "T", "T", "P", "/">>
<1>1. /\ Len(H) = 5 /\ H \in Seq(Chars)
      /\ H[1] = "H" /\ H[2] = "T" /\ H[3] = "T" /\ H[4] = "P" /\ H[5] = "/"
  <2>1. Len(H) = 5 /\ H[1] = "H" /\ H[2] = "T" /\ H[3] = "T" /\ H[4] = "P" /\ H[5] = "/"
    OBVIOUS
  <2>2. "H" \in Chars /\ "T" \in Chars /\ "P" \in Chars /\ "/" \in Chars
    BY DEF Chars, Tspecials
  <2>3. H \in Seq(Chars)
    BY <2>2
  <2> QED
    BY <2>1, <2>3
<1> HIDE DEF H
<1>2. SubSeq(H, 1, 5) = H
  BY <1>1, SubSeqFull
<1>3. ASSUME Len(v) >= 5 PROVE SubSeq(v, 1, 5) = H <=> Http(v, 0)
  <2>1. /\ SubSeq(v, 1, 5) \in Seq(Chars) /\ Len(SubSeq(v, 1, 5)) = 5
        /\ \A x \in 1 .. 5 : SubSeq(v, 1, 5)[x] = v[x]
    BY <1>3
  <2>2. SubSeq(v, 1, 5) = H <=> \A x \in 1 .. 5 : SubSeq(v, 1, 5)[x] = H[x]
    BY <1>1, <2>1, SeqEqual
  <2>3. (\A x \in 1 .. 5 : v[x] = H[x]) <=> Http(v, 0)
    <3>1. ASSUME Http(v, 0), NEW x \in 1 .. 5 PROVE v[x] = H[x]
      <4>1. x = 1 \/ x = 2 \/ x = 3 \/ x = 4 \/ x = 5
        OBVIOUS
      <4> QED
        BY <1>1, <3>1, <4>1 DEF Http
    <3> QED
      BY <1>1, <3>1 DEF Http
  <2> QED
    BY <2>1, <2>2, <2>3
<1> QED
  BY <1>1, <1>2, <1>3 DEF IsPrefix, H

LEMMA VersionIs ==
    ASSUME NEW s \in Seq(Chars), NEW j \in 1 .. Len(s)
    PROVE  IsVersion(SubSeq(s, j + 1, Len(s))) <=> \E d \in Nat : MinorTo(s, j, d, Len(s))
<1> DEFINE v == SubSeq(s, j + 1, Len(s))
           n == Len(s) - j
<1>1. v \in Seq(Chars) /\ Len(v) = n /\ \A x \in 1 .. n : v[x] = s[j + x]
  OBVIOUS
<1>2. IsPrefix(<<"H", "T", "T", "P", "/">>, v) <=> n >= 5 /\ Http(s, j)
  <2>1. n >= 5 => (Http(v, 0) <=> Http(s, j))
    BY <1>1 DEF Http
  <2> QED
    BY <1>1, <2>1, HttpIsPrefix
<1> HIDE DEF v
<1>3. ASSUME NEW dot \in 6 .. n
      PROVE  /\ IsNumber(SubSeq(v, 6, dot - 1)) <=> dot > 6 /\ Among(s, j + 6, j + dot - 1, Digits)
             /\ IsNumber(SubSeq(v, dot + 1, n)) <=> dot < n /\ Among(s, j + dot + 1, Len(s), Digits)
  <2> DEFINE a == dot - 1
             b == dot + 1
  <2>7. a \in 0 .. Len(v) /\ 6 \in Nat \ {0} /\ n \in 0 .. Len(v) /\ b \in Nat \ {0}
    BY <1>1
  <2>8. (6 <= a <=> dot > 6) /\ (b <= n <=> dot < n)
    OBVIOUS
  <2> HIDE DEF a, b
  <2>1. SubSeq(v, 6, a) # <<>> <=> dot > 6
    BY <1>1, <2>7, <2>8, NotEmpty
  <2>2. SubSeq(v, b, n) # <<>> <=> dot < n
    BY <1>1, <2>7, <2>8, NotEmpty
  <2>3. OfChars(SubSeq(v, 6, dot - 1), Digits) <=> Among(v, 6, dot - 1, Digits)
    BY <1>1, OfCharsIsAmong
  <2>4. OfChars(SubSeq(v, dot + 1, n), Digits) <=> Among(v, dot + 1, n, Digits)
    BY <1>1, OfCharsIsAmong
  <2>5. Among(v, 6, dot - 1, Digits) <=> Among(s, j + 6, j + dot - 1, Digits)
    <3>1. \A x \in j + 6 .. j + dot - 1 : x - j \in 6 .. dot - 1 /\ s[x] = v[x - j]
      BY <1>1
    <3>2. \A x \in 6 .. dot - 1 : j + x \in j + 6 .. j + dot - 1 /\ v[x] = s[j + x]
      BY <1>1
    <3> QED
      BY <3>1, <3>2 DEF Among
  <2>6. Among(v, dot + 1, n, Digits) <=> Among(s, j + dot + 1, Len(s), Digits)
    <3>1. \A x \in j + dot + 1 .. Len(s) : x - j \in dot + 1 .. n /\ s[x] = v[x - j]
      BY <1>1
    <3>2. \A x \in dot + 1 .. n : j + x \in j + dot + 1 .. Len(s) /\ v[x] = s[j + x]
      BY <1>1
    <3> QED
      BY <3>1, <3>2 DEF Among
  <2> QED
    BY <2>1, <2>2, <2>3, <2>4, <2>5, <2>6 DEF IsNumber, a, b
<1>4. ASSUME NEW dot \in 6 .. n
      PROVE  v[dot] = "." /\ IsNumber(SubSeq(v, 6, dot - 1)) /\ IsNumber(SubSeq(v, dot + 1, n))
             /\ Http(s, j) <=> MinorTo(s, j, j + dot, Len(s))
  <2>1. v[dot] = s[j + dot]
    BY <1>1
  <2> QED
    BY <1>3, <2>1 DEF MinorTo, MajorTo
<1>5. ASSUME NEW d \in Nat, MinorTo(s, j, d, Len(s)) PROVE d - j \in 6 .. n /\ j + (d - j) = d
  BY <1>5 DEF MinorTo, MajorTo
<1>6. ASSUME IsVersion(v) PROVE \E d \in Nat : MinorTo(s, j, d, Len(s))
  <2>1. PICK dot \in 6 .. n :
           v[dot] = "." /\ IsNumber(SubSeq(v, 6, dot - 1)) /\ IsNumber(SubSeq(v, dot + 1, n))
    BY <1>1, <1>6 DEF IsVersion
  <2>2. Http(s, j)
    BY <1>2, <1>6 DEF IsVersion
  <2>3. MinorTo(s, j, j + dot, Len(s)) /\ j + dot \in Nat
    BY <1>4, <2>1, <2>2
  <2> QED
    BY <2>3
<1>7. ASSUME NEW d \in Nat, MinorTo(s, j, d, Len(s)) PROVE IsVersion(v)
  <2>1. d - j \in 6 .. n /\ j + (d - j) = d
    BY <1>5, <1>7
  <2>2. /\ v[d - j] = "." /\ Http(s, j)
        /\ IsNumber(SubSeq(v, 6, (d - j) - 1)) /\ IsNumber(SubSeq(v, (d - j) + 1, n))
    BY <1>4, <1>7, <2>1
  <2> QED
    BY <1>1, <1>2, <2>1, <2>2 DEF IsVersion
<1> QED
  BY <1>6, <1>7 DEF v
LEMMA UriEndsAt ==
    ASSUME NEW s \in Seq(Chars), NEW i \in Nat, NEW j \in Nat
    PROVE  <<i, j>> \in UriEnds(s) <=> RequestLineTo(s, i, j, Len(s))
<1> DEFINE Ends == /\ i < j /\ s[i] = " " /\ s[j] = " "
                   /\ IsToken(SubSeq(s, 1, i - 1))
                   /\ OfChars(SubSeq(s, i + 1, j - 1), Text \ {" "})
                   /\ IsVersion(SubSeq(s, j + 1, Len(s)))
<1>1. DOMAIN s = 1 .. Len(s) /\ Len(s) \in Nat
  OBVIOUS
<1>2. <<i, j>> \in UriEnds(s) <=> i \in 1 .. Len(s) /\ j \in 1 .. Len(s) /\ Ends
  BY <1>1 DEF UriEnds
<1>3. ASSUME RequestLineTo(s, i, j, Len(s)) PROVE i \in 1 .. Len(s) /\ j \in 1 .. Len(s) /\ i < j
  <2>1. PICK d \in Nat : MinorTo(s, j, d, Len(s))
    BY <1>3 DEF RequestLineTo
  <2>2. d < Len(s) /\ d - 1 >= j + 6 /\ i <= j - 1 /\ i - 1 >= 1
    BY <1>3, <2>1 DEF RequestLineTo, VersionAt, UriTo, MethodTo, MinorTo, MajorTo
  <2> QED
    BY <1>1, <2>2
<1>4. ASSUME i \in 1 .. Len(s), j \in 1 .. Len(s), i < j
      PROVE  Ends <=> RequestLineTo(s, i, j, Len(s))
  <2> DEFINE a == i - 1
             b == i + 1
             c == j - 1
  <2>1. /\ a \in 0 .. Len(s) /\ 1 \in Nat \ {0} /\ b \in Nat \ {0} /\ c \in 0 .. Len(s)
        /\ i <= c
    BY <1>4
  <2> HIDE DEF a, b, c
  <2>2. SubSeq(s, 1, a) # <<>> <=> a >= 1
    BY <2>1, NotEmpty
  <2>3. OfChars(SubSeq(s, 1, a), Token) <=> Among(s, 1, a, Token)
    BY <2>1, OfCharsIsAmong
  <2>4. OfChars(SubSeq(s, b, c), Text \ {" "}) <=> Among(s, b, c, Text \ {" "})
    BY <2>1, OfCharsIsAmong
  <2>5. IsVersion(SubSeq(s, j + 1, Len(s))) <=> \E d \in Nat : MinorTo(s, j, d, Len(s))
    BY <1>4, VersionIs
  <2>6. IsToken(SubSeq(s, 1, a)) <=> MethodTo(s, a)
    BY <2>2, <2>3 DEF IsToken, MethodTo
  <2> QED
    BY <1>4, <2>1, <2>4, <2>5, <2>6 DEF RequestLineTo, VersionAt, UriTo, a, b, c
<1> QED
  BY <1>2, <1>3, <1>4

\* There is one way to find the uri in a request line.
LEMMA UriIsUnique ==
    ASSUME NEW s, NEW i \in Nat, NEW j \in Nat, NEW x \in Nat, NEW y \in Nat,
           VersionAt(s, i, j), VersionAt(s, x, y)
    PROVE  i = x /\ j = y
<1>1. " " \notin Token /\ " " \notin Text \ {" "}
  BY DEF Token, Tspecials
<1>0. i - 1 >= 1 /\ x - 1 >= 1 /\ i <= j - 1 /\ x <= y - 1
  BY DEF VersionAt, UriTo, MethodTo
<1>2. /\ s[i] = " " /\ s[x] = " " /\ s[j] = " " /\ s[y] = " "
      /\ Among(s, 1, i - 1, Token) /\ Among(s, i + 1, j - 1, Text \ {" "})
      /\ Among(s, 1, x - 1, Token) /\ Among(s, x + 1, y - 1, Text \ {" "})
  BY DEF VersionAt, UriTo, MethodTo
<1>3. i = x
  <2>1. ASSUME i < x PROVE FALSE
    <3>1. i \in 1 .. x - 1
      BY <1>0, <2>1
    <3> QED
      BY <1>1, <1>2, <3>1 DEF Among
  <2>2. ASSUME x < i PROVE FALSE
    <3>1. x \in 1 .. i - 1
      BY <1>0, <2>2
    <3> QED
      BY <1>1, <1>2, <3>1 DEF Among
  <2> QED
    BY <2>1, <2>2
<1>4. ASSUME j < y PROVE FALSE
  <2>1. j \in x + 1 .. y - 1
    BY <1>0, <1>3, <1>4
  <2> QED
    BY <1>1, <1>2, <2>1 DEF Among
<1>5. ASSUME y < j PROVE FALSE
  <2>1. y \in i + 1 .. j - 1
    BY <1>0, <1>3, <1>5
  <2> QED
    BY <1>1, <1>2, <2>1 DEF Among
<1> QED
  BY <1>3, <1>4, <1>5

(* Header lines, from position b to position k.                            *)

ValueTo(s, b, k) == \E c \in Nat :
    /\ b < c /\ c < k /\ s[c] = ":" /\ s[c + 1] = " "
    /\ Among(s, b, c - 1, Token) /\ Among(s, c + 2, k, Text)
ContTo(s, b, k) == \E n \in Nat :
    b <= n /\ n <= k /\ Among(s, b, n, Blanks) /\ Among(s, n + 1, k, Text)

LEMMA HeaderIs ==
    ASSUME NEW s \in Seq(Chars), NEW b \in Nat \ {0}, NEW k \in 0 .. Len(s), b <= k
    PROVE  /\ IsHeader(SubSeq(s, b, k)) <=> ValueTo(s, b, k)
           /\ IsContinuation(SubSeq(s, b, k)) <=> ContTo(s, b, k)
<1> DEFINE t == SubSeq(s, b, k)
           n == k - b + 1
<1>0. k \in Nat
  OBVIOUS
<1>1. t \in Seq(Chars) /\ Len(t) = n /\ n \in Nat \ {0} /\ \A x \in 1 .. n : t[x] = s[b + x - 1]
  OBVIOUS
<1> HIDE DEF t
<1>2. ASSUME NEW x \in 1 .. n + 1, NEW y \in 0 .. n, NEW chars
      PROVE  OfChars(SubSeq(t, x, y), chars) <=> Among(s, b + x - 1, b + y - 1, chars)
  <2>1. OfChars(SubSeq(t, x, y), chars) <=> Among(t, x, y, chars)
    BY <1>1, OfCharsIsAmong
  <2>2. \A z \in x .. y : b + z - 1 \in b + x - 1 .. b + y - 1 /\ t[z] = s[b + z - 1]
    BY <1>1
  <2>3. \A z \in b + x - 1 .. b + y - 1 : z - b + 1 \in x .. y /\ s[z] = t[z - b + 1]
    BY <1>1
  <2> QED
    BY <2>1, <2>2, <2>3 DEF Among
<1>3. ASSUME NEW c \in 1 .. n - 1
      PROVE  /\ t[c] = s[b + c - 1] /\ t[c + 1] = s[b + c]
             /\ IsToken(SubSeq(t, 1, c - 1)) <=> c > 1 /\ Among(s, b, b + c - 2, Token)
             /\ OfChars(SubSeq(t, c + 2, Len(t)), Text) <=> Among(s, b + c + 1, k, Text)
  <2> DEFINE a == c - 1
             d == c + 2
  <2>1. a \in 0 .. n /\ 1 \in 1 .. n + 1 /\ 1 \in Nat \ {0} /\ d \in 1 .. n + 1 /\ n \in 0 .. n
    BY <1>1
  <2>2. /\ b + 1 - 1 = b /\ b + a - 1 = b + c - 2 /\ b + d - 1 = b + c + 1 /\ b + n - 1 = k
        /\ (1 <= a <=> c > 1)
    OBVIOUS
  <2>3. t[c] = s[b + c - 1] /\ t[c + 1] = s[b + c]
    BY <1>1
  <2> HIDE DEF a, d, n
  <2>4. OfChars(SubSeq(t, 1, a), Token) <=> Among(s, b, b + c - 2, Token)
    BY <1>2, <2>1, <2>2
  <2>5. OfChars(SubSeq(t, d, n), Text) <=> Among(s, b + c + 1, k, Text)
    BY <1>2, <2>1, <2>2
  <2>6. SubSeq(t, 1, a) # <<>> <=> c > 1
    BY <1>1, <2>1, <2>2, NotEmpty
  <2> QED
    BY <1>1, <2>3, <2>4, <2>5, <2>6 DEF IsToken, a, d
<1>4. ASSUME IsHeader(t) PROVE ValueTo(s, b, k)
  <2>1. PICK c \in 1 .. n - 1 : /\ t[c] = ":" /\ t[c + 1] = " "
                                /\ IsToken(SubSeq(t, 1, c - 1))
                                /\ OfChars(SubSeq(t, c + 2, Len(t)), Text)
    BY <1>1, <1>4 DEF IsHeader
  <2> DEFINE e == b + c - 1
  <2>2. e \in Nat /\ e + 1 = b + c /\ e - 1 = b + c - 2 /\ e + 2 = b + c + 1 /\ e < k
    OBVIOUS
  <2>3. s[e] = ":" /\ s[e + 1] = " " /\ b < e
    <3>1. s[b + c - 1] = ":" /\ s[b + c] = " " /\ c > 1
      BY <1>3, <2>1
    <3>4. c > 1
      BY <3>1
    <3>2. b < e
      BY <3>4
    <3> HIDE DEF e
    <3>3. e = b + c - 1
      BY DEF e
    <3> QED
      BY <2>2, <3>1, <3>2, <3>3
  <2>4. Among(s, b, e - 1, Token) /\ Among(s, e + 2, k, Text)
    BY <1>3, <2>1, <2>2
  <2> HIDE DEF e
  <2> QED
    BY <2>2, <2>3, <2>4 DEF ValueTo
<1>5. ASSUME ValueTo(s, b, k) PROVE IsHeader(t)
  <2>1. PICK e \in Nat : /\ b < e /\ e < k /\ s[e] = ":" /\ s[e + 1] = " "
                         /\ Among(s, b, e - 1, Token) /\ Among(s, e + 2, k, Text)
    BY <1>5 DEF ValueTo
  <2> DEFINE c == e - b + 1
  <2>0. b < e /\ e < k
    BY <2>1
  <2>2. /\ c \in 1 .. n - 1 /\ c > 1
        /\ e = b + c - 1 /\ e + 1 = b + c /\ e - 1 = b + c - 2 /\ e + 2 = b + c + 1
    BY <1>0, <2>0
  <2> HIDE DEF c
  <2>3. t[c] = ":" /\ t[c + 1] = " "
    BY <1>3, <2>1, <2>2
  <2>4. IsToken(SubSeq(t, 1, c - 1)) /\ OfChars(SubSeq(t, c + 2, Len(t)), Text)
    BY <1>3, <2>1, <2>2
  <2> QED
    BY <1>1, <2>2, <2>3, <2>4 DEF IsHeader
<1>6. ASSUME NEW m \in 1 .. n
      PROVE  /\ OfChars(SubSeq(t, 1, m), Blanks) <=> Among(s, b, b + m - 1, Blanks)
             /\ OfChars(SubSeq(t, m + 1, Len(t)), Text) <=> Among(s, b + m, k, Text)
  <2> DEFINE d == m + 1
  <2>1. m \in 0 .. n /\ 1 \in 1 .. n + 1 /\ d \in 1 .. n + 1 /\ n \in 0 .. n
    BY <1>1
  <2>2. b + 1 - 1 = b /\ b + d - 1 = b + m /\ b + n - 1 = k
    OBVIOUS
  <2> HIDE DEF d, n
  <2>3. OfChars(SubSeq(t, 1, m), Blanks) <=> Among(s, b, b + m - 1, Blanks)
    BY <1>2, <2>1, <2>2
  <2>4. OfChars(SubSeq(t, d, n), Text) <=> Among(s, b + m, k, Text)
    BY <1>2, <2>1, <2>2
  <2> QED
    BY <1>1, <2>3, <2>4 DEF d
<1>7. t # <<>>
  BY <1>1
<1>8. ASSUME IsContinuation(t) PROVE ContTo(s, b, k)
  <2>1. PICK m \in 1 .. n : OfChars(SubSeq(t, 1, m), Blanks) /\ OfChars(SubSeq(t, m + 1, Len(t)), Text)
    BY <1>1, <1>8 DEF IsContinuation
  <2> DEFINE e == b + m - 1
  <2>2. e \in Nat /\ b <= e /\ e <= k /\ e + 1 = b + m
    OBVIOUS
  <2>3. Among(s, b, e, Blanks) /\ Among(s, e + 1, k, Text)
    BY <1>6, <2>1, <2>2
  <2> HIDE DEF e
  <2> QED
    BY <2>2, <2>3 DEF ContTo
<1>9. ASSUME ContTo(s, b, k) PROVE IsContinuation(t)
  <2>1. PICK e \in Nat : b <= e /\ e <= k /\ Among(s, b, e, Blanks) /\ Among(s, e + 1, k, Text)
    BY <1>9 DEF ContTo
  <2> DEFINE m == e - b + 1
  <2>2. m \in 1 .. n /\ e = b + m - 1 /\ e + 1 = b + m
    BY <2>1
  <2> HIDE DEF m
  <2>3. OfChars(SubSeq(t, 1, m), Blanks) /\ OfChars(SubSeq(t, m + 1, Len(t)), Text)
    BY <1>6, <2>1, <2>2
  <2> QED
    BY <1>1, <1>7, <2>2, <2>3 DEF IsContinuation
<1> QED
  BY <1>4, <1>5, <1>8, <1>9 DEF t
LEMMA AmongGrows ==
    ASSUME NEW s, NEW a \in Int, NEW k \in Int, NEW chars
    PROVE  /\ Among(s, a, k, chars) /\ s[k + 1] \in chars => Among(s, a, k + 1, chars)
           /\ k < a => Among(s, a, k, chars)
           /\ s[a] \in chars => Among(s, a, a, chars)
<1>1. \A x \in a .. k + 1 : x \in a .. k \/ x = k + 1
  OBVIOUS
<1>2. k < a => a .. k = {}
  OBVIOUS
<1>3. a .. a = {a}
  OBVIOUS
<1> QED
  BY <1>1, <1>2, <1>3 DEF Among

(* Lines.  The line that begins at b comes after a request line that ends  *)
(* before e and after header lines that are as the grammar wants them.     *)

LineEndAt(s, e) == s[e] = "cr" /\ s[e + 1] = "lf"

GoodTo(s, e, b, k) ==
    \/ ValueTo(s, b, k)
    \/ e + 2 < b /\ ContTo(s, b, k)

GoodLine(s, e, f) ==
    \/ IsHeader(LineTo(s, f))
    \/ IsContinuation(LineTo(s, f)) /\ \E g \in LineEnds(s) : e < g /\ g < f

Lines(s, i, j, e, b) ==
    /\ RequestLineTo(s, i, j, e - 1)
    /\ e + 2 <= b /\ b - 1 <= Len(s)
    /\ LineEndAt(s, e) /\ LineEndAt(s, b - 2)
    /\ \A f \in LineEnds(s) : e < f /\ f < b => GoodLine(s, e, f)

LEMMA LineEndsAre ==
    ASSUME NEW s \in Seq(Chars), NEW e \in Nat
    PROVE  e \in LineEnds(s) <=> 1 <= e /\ e + 1 <= Len(s) /\ LineEndAt(s, e)
<1>1. Len(s) \in Nat
  OBVIOUS
<1>2. e \in 1 .. Len(s) - 1 <=> 1 <= e /\ e + 1 <= Len(s)
  BY <1>1
<1> QED
  BY <1>2 DEF LineEnds, LineEndAt

LEMMA NoLineEnd ==
    /\ \A c \in Token \cup Text \cup Blanks \cup Digits : c # "cr" /\ c # "lf"
    /\ " " \notin Token /\ ":" \notin Token
  BY DEF Token, Text, Blanks, Digits, Ctl, Tspecials

LEMMA GoodHasNoEnd ==
    ASSUME NEW s, NEW e \in Nat, NEW b \in Nat, NEW k \in Int, GoodTo(s, e, b, k)
    PROVE  b <= k /\ \A x \in b .. k : s[x] # "cr" /\ s[x] # "lf"
<1>1. CASE ValueTo(s, b, k)
  <2>1. PICK c \in Nat : /\ b < c /\ c < k /\ s[c] = ":" /\ s[c + 1] = " "
                         /\ Among(s, b, c - 1, Token) /\ Among(s, c + 2, k, Text)
    BY <1>1 DEF ValueTo
  <2>2. b < c /\ c < k
    BY <2>1
  <2>3. b <= k /\ \A x \in b .. k : x \in b .. c - 1 \/ x = c \/ x = c + 1 \/ x \in c + 2 .. k
    BY <2>2
  <2>4. ASSUME NEW x \in b .. k PROVE s[x] # "cr" /\ s[x] # "lf"
    <3>1. CASE x \in b .. c - 1
      BY <2>1, <3>1, NoLineEnd DEF Among
    <3>2. CASE x \in c + 2 .. k
      BY <2>1, <3>2, NoLineEnd DEF Among
    <3> QED
      BY <2>1, <2>3, <3>1, <3>2
  <2> QED
    BY <2>3, <2>4
<1>2. CASE ContTo(s, b, k)
  <2>1. PICK n \in Nat : b <= n /\ n <= k /\ Among(s, b, n, Blanks) /\ Among(s, n + 1, k, Text)
    BY <1>2 DEF ContTo
  <2>2. b <= n /\ n <= k
    BY <2>1
  <2>3. b <= k /\ \A x \in b .. k : x \in b .. n \/ x \in n + 1 .. k
    BY <2>2
  <2>4. \A x \in b .. k : s[x] # "cr" /\ s[x] # "lf"
    BY <2>1, <2>3, NoLineEnd DEF Among
  <2> QED
    BY <2>3, <2>4
<1> QED
  BY <1>1, <1>2 DEF GoodTo

\* The line that ends before k, in which b is the first position.
LEMMA LineFrom ==
    ASSUME NEW s \in Seq(Chars), NEW b \in Nat, 3 <= b, LineEndAt(s, b - 2),
           NEW k \in b .. Len(s), \A x \in b .. k - 1 : x \notin LineEnds(s)
    PROVE  LineTo(s, k) = SubSeq(s, b, k - 1)
<1> DEFINE before == {i \in LineEnds(s) : i < k}
<1>0. Len(s) \in Nat /\ k \in Nat /\ b <= k /\ k <= Len(s)
  OBVIOUS
<1>1. b - 2 \in before
  <2>1. b - 2 \in Nat /\ 1 <= b - 2 /\ (b - 2) + 1 <= Len(s) /\ b - 2 < k
    BY <1>0
  <2> QED
    BY <2>1, LineEndsAre
<1>2. ASSUME NEW y \in before PROVE y \in Int /\ b - 2 >= y
  <2>1. y \in Nat /\ s[y] = "cr" /\ y < k
    BY <1>2 DEF LineEnds
  <2>5. y \in LineEnds(s)
    BY <1>2
  <2>2. s[b - 1] = "lf"
    <3>1. (b - 2) + 1 = b - 1
      OBVIOUS
    <3> QED
      BY <3>1 DEF LineEndAt
  <2>3. y # b - 1 /\ y \notin b .. k - 1
    BY <2>1, <2>2, <2>5
  <2>4. y < k
    BY <2>1
  <2> QED
    BY <1>0, <2>1, <2>3, <2>4
<1> HIDE DEF before
<1>3. Max(before) \in before /\ \A y \in before : Max(before) >= y
  BY <1>1, <1>2 DEF Max
<1>4. Max(before) >= b - 2 /\ b - 2 >= Max(before) /\ Max(before) \in Int
  BY <1>1, <1>2, <1>3
<1>5. Max(before) + 2 = b
  BY <1>4
<1> QED
  BY <1>1, <1>5 DEF LineTo, before
(***************************************************************************)
(* The parser's state says what has been read, as long as there is no      *)
(* result.                                                                 *)
(***************************************************************************)
VersionStates ==
    {"http_version_h", "http_version_t_1", "http_version_t_2", "http_version_p",
     "http_version_slash", "http_version_major_start", "http_version_major",
     "http_version_minor_start", "http_version_minor", "expecting_newline_1"}
HeaderStates ==
    {"header_line_start", "header_lws", "header_name", "space_before_header_value",
     "header_value", "expecting_newline_2", "expecting_newline_3"}

FitsVersion(st, s, j, k) ==
    /\ st = "http_version_h" => k = j
    /\ st = "http_version_t_1" => k = j + 1 /\ s[j + 1] = "H"
    /\ st = "http_version_t_2" => k = j + 2 /\ s[j + 1] = "H" /\ s[j + 2] = "T"
    /\ st = "http_version_p" =>
          k = j + 3 /\ s[j + 1] = "H" /\ s[j + 2] = "T" /\ s[j + 3] = "T"
    /\ st = "http_version_slash" =>
          k = j + 4 /\ s[j + 1] = "H" /\ s[j + 2] = "T" /\ s[j + 3] = "T" /\ s[j + 4] = "P"
    /\ st = "http_version_major_start" => k = j + 5 /\ Http(s, j)
    /\ st = "http_version_major" => MajorTo(s, j, k)
    /\ st = "http_version_minor_start" => s[k] = "." /\ MajorTo(s, j, k - 1)
    /\ st = "http_version_minor" => \E d \in Nat : MinorTo(s, j, d, k)
    /\ st = "expecting_newline_1" => s[k] = "cr" /\ \E d \in Nat : MinorTo(s, j, d, k - 1)

FitsHeader(p, s, e, b, k) ==
    /\ p.state = "header_line_start" => b = k + 1 /\ (p.headers <=> e + 2 < b)
    /\ p.state \in HeaderStates \ {"header_line_start", "expecting_newline_3"} => p.headers
    /\ p.state = "header_name" => b <= k /\ Among(s, b, k, Token)
    /\ p.state = "space_before_header_value" =>
          b < k /\ s[k] = ":" /\ Among(s, b, k - 1, Token)
    /\ p.state = "header_value" => GoodTo(s, e, b, k) /\ \E x \in b .. k : s[x] \notin Blanks
    /\ p.state = "header_lws" => e + 2 < b /\ b <= k /\ Among(s, b, k, Blanks)
    /\ p.state = "expecting_newline_2" => s[k] = "cr" /\ GoodTo(s, e, b, k - 1)
    /\ p.state = "expecting_newline_3" => s[k] = "cr" /\ k = b

Fits(p, s, k) ==
    /\ p.state = "method_start" => k = 0 /\ ~p.headers /\ p.uri = <<>>
    /\ p.state = "method" => MethodTo(s, k) /\ ~p.headers /\ p.uri = <<>>
    /\ p.state = "uri" =>
          ~p.headers /\ \E i \in Nat : UriTo(s, i, k) /\ p.uri = SubSeq(s, i + 1, k)
    /\ p.state \in VersionStates =>
          /\ ~p.headers
          /\ \E i, j \in Nat : /\ VersionAt(s, i, j) /\ FitsVersion(p.state, s, j, k)
                               /\ p.uri = SubSeq(s, i + 1, j - 1)
    /\ p.state \in HeaderStates =>
          \E i, j, e, b \in Nat : /\ Lines(s, i, j, e, b) /\ FitsHeader(p, s, e, b, k)
                                 /\ p.uri = SubSeq(s, i + 1, j - 1)

\* The empty line that ends a request has been read.
Ended(p, s, k) ==
    \E i, j, e \in Nat : /\ Lines(s, i, j, e, k - 1) /\ LineEndAt(s, k - 1) /\ k <= Len(s)
                         /\ p.uri = SubSeq(s, i + 1, j - 1)
LEMMA StatesAre ==
    /\ "true" \notin VersionStates \cup HeaderStates
    /\ "uri" \notin VersionStates \cup HeaderStates
    /\ "method" \notin VersionStates \cup HeaderStates
    /\ "method_start" \notin VersionStates \cup HeaderStates
    /\ VersionStates \cap HeaderStates = {}
  BY DEF VersionStates, HeaderStates

LEMMA UriSteps ==
    ASSUME NEW s \in Seq(Chars), NEW k \in 0 .. Len(s) - 1, NEW i \in Nat, i <= k
    PROVE  /\ SubSeq(s, i + 1, k + 1) = Append(SubSeq(s, i + 1, k), s[k + 1])
           /\ SubSeq(s, k + 2, k + 1) = <<>>
<1>1. i + 1 \in 1 .. Len(s) /\ k + 1 \in i + 1 .. Len(s) /\ (k + 1) - 1 = k
  OBVIOUS
<1>2. SubSeq(s, i + 1, k) \in Seq(Chars) /\ s[k + 1] \in Chars
  <2>1. k + 1 \in 1 .. Len(s) /\ k \in 0 .. Len(s)
    OBVIOUS
  <2> QED
    BY <2>1
<1>3. SubSeq(s, i + 1, k + 1) = SubSeq(s, i + 1, k) \o <<s[k + 1]>>
  BY <1>1, SubSeqRecursiveSecond
<1>4. Append(SubSeq(s, i + 1, k), s[k + 1]) = SubSeq(s, i + 1, k) \o <<s[k + 1]>>
  BY <1>2, AppendIsConcat
<1>5. SubSeq(s, k + 2, k + 1) = <<>>
  <2>1. k + 2 \in Int /\ k + 1 \in Int /\ k + 1 < k + 2
    OBVIOUS
  <2> QED
    BY <2>1, SubSeqEmpty
<1> QED
  BY <1>3, <1>4, <1>5

UriRows == {
    On("method_start", Token, "method"),
    On("method", Token, "method"),
    On("method", {" "}, "uri"),
    On("uri", Text \ {" "}, "uri"),
    On("uri", {" "}, "http_version_h"),
    On("expecting_newline_1", {"lf"}, "header_line_start") }
VersionRows == {
    On("http_version_h", {"H"}, "http_version_t_1"),
    On("http_version_t_1", {"T"}, "http_version_t_2"),
    On("http_version_t_2", {"T"}, "http_version_p"),
    On("http_version_p", {"P"}, "http_version_slash"),
    On("http_version_slash", {"/"}, "http_version_major_start"),
    On("http_version_major_start", Digits, "http_version_major"),
    On("http_version_major", Digits, "http_version_major"),
    On("http_version_major", {"."}, "http_version_minor_start"),
    On("http_version_minor_start", Digits, "http_version_minor"),
    On("http_version_minor", Digits, "http_version_minor"),
    On("http_version_minor", {"cr"}, "expecting_newline_1") }

LEMMA RequestLineRowsAre ==
    /\ RequestLineRows = UriRows \cup VersionRows
    /\ \A r \in VersionRows : r.from \in VersionStates /\ r.to \in VersionStates
    /\ \A r \in UriRows : ~(r.from \in VersionStates /\ r.to \in VersionStates)
<1>1. RequestLineRows = UriRows \cup VersionRows
  BY DEF RequestLineRows, UriRows, VersionRows
<1>2. \A r \in VersionRows : r.from \in VersionStates /\ r.to \in VersionStates
  BY DEF VersionRows, On, VersionStates
<1>3. \A r \in UriRows : ~(r.from \in VersionStates /\ r.to \in VersionStates)
  <2>1. ASSUME NEW r \in UriRows
        PROVE  r.from \in {"method_start", "method", "uri"} \/ r.to = "header_line_start"
    <3>1. CASE r = On("expecting_newline_1", {"lf"}, "header_line_start")
      BY <3>1 DEF On
    <3>2. CASE r = On("method_start", Token, "method")
      BY <3>2 DEF On
    <3>3. CASE r = On("method", Token, "method")
      BY <3>3 DEF On
    <3>4. CASE r = On("method", {" "}, "uri")
      BY <3>4 DEF On
    <3>5. CASE r = On("uri", Text \ {" "}, "uri")
      BY <3>5 DEF On
    <3>6. CASE r = On("uri", {" "}, "http_version_h")
      BY <3>6 DEF On
    <3> QED
      BY <3>1, <3>2, <3>3, <3>4, <3>5, <3>6 DEF UriRows
  <2>2. "header_line_start" \notin VersionStates
    BY DEF VersionStates
  <2> QED
    BY <2>1, <2>2, StatesAre
<1> QED
  BY <1>1, <1>2, <1>3

\* The version of the protocol, one character further.
LEMMA VersionGoesOn ==
    ASSUME NEW s, NEW j \in Nat, NEW k \in Nat, NEW r \in RequestLineRows,
           FitsVersion(r.from, s, j, k), s[k + 1] \in r.chars,
           r.from \in VersionStates, r.to \in VersionStates
    PROVE  FitsVersion(r.to, s, j, k + 1)
<1>0. (k + 1) - 1 = k /\ k \in Int /\ j + 6 \in Int /\ j + 5 \in Nat
  OBVIOUS
<1>1. CASE r \in {On("http_version_h", {"H"}, "http_version_t_1"),
                 On("http_version_t_1", {"T"}, "http_version_t_2"),
                 On("http_version_t_2", {"T"}, "http_version_p"),
                 On("http_version_p", {"P"}, "http_version_slash"),
                 On("http_version_slash", {"/"}, "http_version_major_start")}
  <2>1. CASE r = On("http_version_h", {"H"}, "http_version_t_1")
    BY <2>1 DEF FitsVersion, On
  <2>2. CASE r = On("http_version_t_1", {"T"}, "http_version_t_2")
    BY <2>2 DEF FitsVersion, On
  <2>3. CASE r = On("http_version_t_2", {"T"}, "http_version_p")
    BY <2>3 DEF FitsVersion, On
  <2>4. CASE r = On("http_version_p", {"P"}, "http_version_slash")
    BY <2>4 DEF FitsVersion, On
  <2>5. CASE r = On("http_version_slash", {"/"}, "http_version_major_start")
    BY <2>5 DEF FitsVersion, On, Http
  <2> QED
    BY <1>1, <2>1, <2>2, <2>3, <2>4, <2>5
<1>2. CASE r = On("http_version_major_start", Digits, "http_version_major")
  <2>1. k = j + 5 /\ Http(s, j) /\ s[k + 1] \in Digits
    BY <1>2 DEF FitsVersion, On
  <2>2. k = j + 5
    BY <2>1
  <2>3. k + 1 = j + 6 /\ k + 1 >= j + 6
    BY <2>2
  <2>4. Among(s, j + 6, k + 1, Digits)
    BY <1>0, <2>1, <2>3, AmongGrows
  <2> QED
    BY <1>2, <2>1, <2>3, <2>4 DEF FitsVersion, On, MajorTo
<1>3. CASE r = On("http_version_major", Digits, "http_version_major")
  <2>1. MajorTo(s, j, k) /\ s[k + 1] \in Digits
    BY <1>3 DEF FitsVersion, On
  <2>2. k >= j + 6
    BY <2>1 DEF MajorTo
  <2>3. k + 1 >= j + 6
    BY <2>2
  <2>4. Among(s, j + 6, k + 1, Digits)
    BY <1>0, <2>1, AmongGrows DEF MajorTo
  <2> QED
    BY <1>3, <2>1, <2>3, <2>4 DEF FitsVersion, On, MajorTo
<1>4. CASE r = On("http_version_major", {"."}, "http_version_minor_start")
  BY <1>0, <1>4 DEF FitsVersion, On
<1>5. CASE r = On("http_version_minor_start", Digits, "http_version_minor")
  <2>1. s[k] = "." /\ MajorTo(s, j, k - 1) /\ s[k + 1] \in Digits
    BY <1>5 DEF FitsVersion, On
  <2>2. k < k + 1 /\ k + 1 \in Int
    OBVIOUS
  <2>3. Among(s, k + 1, k + 1, Digits)
    BY <2>1, <2>2, AmongGrows
  <2>4. MinorTo(s, j, k, k + 1)
    BY <2>1, <2>2, <2>3 DEF MinorTo
  <2> QED
    BY <1>5, <2>4 DEF FitsVersion, On
<1>6. CASE r = On("http_version_minor", Digits, "http_version_minor")
  <2>1. PICK d \in Nat : MinorTo(s, j, d, k)
    BY <1>6 DEF FitsVersion, On
  <2>2. s[k + 1] \in Digits
    BY <1>6 DEF On
  <2>3. d < k
    BY <2>1 DEF MinorTo
  <2>4. d < k + 1 /\ d + 1 \in Int
    BY <2>3
  <2>5. Among(s, d + 1, k + 1, Digits)
    BY <1>0, <2>1, <2>2, <2>4, AmongGrows DEF MinorTo
  <2>6. MinorTo(s, j, d, k + 1)
    BY <2>1, <2>4, <2>5 DEF MinorTo
  <2> QED
    BY <1>6, <2>6 DEF FitsVersion, On
<1>7. CASE r = On("http_version_minor", {"cr"}, "expecting_newline_1")
  BY <1>0, <1>7 DEF FitsVersion, On
<1>8. \/ r \in {On("http_version_h", {"H"}, "http_version_t_1"),
                On("http_version_t_1", {"T"}, "http_version_t_2"),
                On("http_version_t_2", {"T"}, "http_version_p"),
                On("http_version_p", {"P"}, "http_version_slash"),
                On("http_version_slash", {"/"}, "http_version_major_start")}
      \/ r = On("http_version_major_start", Digits, "http_version_major")
      \/ r = On("http_version_major", Digits, "http_version_major")
      \/ r = On("http_version_major", {"."}, "http_version_minor_start")
      \/ r = On("http_version_minor_start", Digits, "http_version_minor")
      \/ r = On("http_version_minor", Digits, "http_version_minor")
      \/ r = On("http_version_minor", {"cr"}, "expecting_newline_1")
  BY RequestLineRowsAre DEF VersionRows
<1> QED
  BY <1>1, <1>2, <1>3, <1>4, <1>5, <1>6, <1>7, <1>8

LEMMA RequestLineRow ==
    ASSUME NEW s \in Seq(Chars), NEW k \in 0 .. Len(s) - 1, NEW p, NEW q, Fits(p, s, k),
           NEW r \in RequestLineRows, Consumes(p, s[k + 1], r, q)
    PROVE  Fits(q, s, k + 1)
<1> DEFINE c == s[k + 1]
<1>0. k \in Nat /\ Len(s) \in Nat /\ k + 1 <= Len(s) /\ (k + 1) - 1 = k
  OBVIOUS
<1> HIDE DEF c
<1>1. /\ p.state = r.from /\ c \in r.chars /\ q.state = r.to
      /\ q.headers <=> p.headers \/ r.to = "header_name"
      /\ q.uri = IF r.from = "uri" /\ r.to = "uri" THEN Append(p.uri, c) ELSE p.uri
  BY DEF Consumes, Accepts, c
<1>2. CASE r = On("method_start", Token, "method")
  <2>1. k = 0 /\ c \in Token /\ q.state = "method" /\ ~q.headers /\ q.uri = <<>>
    BY <1>1, <1>2 DEF On, Fits
  <2>2. Among(s, 1, k + 1, Token)
    BY <2>1, AmongGrows DEF c
  <2>3. MethodTo(s, k + 1)
    BY <2>1, <2>2 DEF MethodTo
  <2> QED
    BY <2>1, <2>3, StatesAre DEF Fits
<1>3. CASE r = On("method", Token, "method")
  <2>1. MethodTo(s, k) /\ c \in Token /\ q.state = "method" /\ ~q.headers /\ q.uri = <<>>
    BY <1>1, <1>3 DEF On, Fits
  <2>2. MethodTo(s, k + 1)
    BY <1>0, <2>1, AmongGrows DEF MethodTo, c
  <2> QED
    BY <2>1, <2>2, StatesAre DEF Fits
<1>4. CASE r = On("method", {" "}, "uri")
  <2>1. MethodTo(s, k) /\ c = " " /\ q.state = "uri" /\ ~q.headers /\ q.uri = <<>>
    BY <1>1, <1>4 DEF On, Fits
  <2>2. UriTo(s, k + 1, k + 1)
    <3>1. k + 1 <= k + 1 /\ (k + 1) + 1 \in Int /\ k + 1 \in Int /\ k + 1 < (k + 1) + 1
      BY <1>0
    <3>2. Among(s, (k + 1) + 1, k + 1, Text \ {" "})
      BY <3>1, AmongGrows
    <3>3. s[k + 1] = " " /\ MethodTo(s, (k + 1) - 1)
      BY <1>0, <2>1 DEF c
    <3> QED
      BY <3>1, <3>2, <3>3 DEF UriTo
  <2>3. SubSeq(s, (k + 1) + 1, k + 1) = <<>> /\ k + 1 \in Nat
    BY <1>0, UriSteps
  <2> QED
    BY <2>1, <2>2, <2>3, StatesAre DEF Fits
<1>5. CASE r = On("uri", Text \ {" "}, "uri")
  <2>1. PICK i \in Nat : UriTo(s, i, k) /\ p.uri = SubSeq(s, i + 1, k)
    BY <1>1, <1>5 DEF On, Fits
  <2>2. c \in Text \ {" "} /\ q.state = "uri" /\ ~q.headers /\ q.uri = Append(p.uri, c)
    BY <1>1, <1>5 DEF On, Fits
  <2>3. i <= k
    BY <2>1 DEF UriTo
  <2>4. UriTo(s, i, k + 1)
    <3>1. i <= k + 1 /\ i + 1 \in Int /\ k \in Int
      BY <1>0, <2>3
    <3>2. Among(s, i + 1, k, Text \ {" "}) /\ s[k + 1] \in Text \ {" "}
      BY <2>1, <2>2 DEF UriTo, c
    <3>3. Among(s, i + 1, k + 1, Text \ {" "})
      BY <3>1, <3>2, AmongGrows
    <3> QED
      BY <2>1, <3>1, <3>3 DEF UriTo
  <2>5. q.uri = SubSeq(s, i + 1, k + 1)
    BY <2>1, <2>2, <2>3, UriSteps DEF c
  <2> QED
    BY <2>2, <2>4, <2>5, StatesAre DEF Fits
<1>6. CASE r = On("uri", {" "}, "http_version_h")
  <2>1. PICK i \in Nat : UriTo(s, i, k) /\ p.uri = SubSeq(s, i + 1, k)
    BY <1>1, <1>6 DEF On, Fits
  <2>2. c = " " /\ q.state = "http_version_h" /\ ~q.headers /\ q.uri = p.uri
    BY <1>1, <1>6 DEF On, Fits
  <2>3. VersionAt(s, i, k + 1) /\ q.uri = SubSeq(s, i + 1, (k + 1) - 1) /\ k + 1 \in Nat
    <3>1. UriTo(s, i, (k + 1) - 1) /\ p.uri = SubSeq(s, i + 1, (k + 1) - 1) /\ k + 1 \in Nat
      BY <1>0, <2>1
    <3> QED
      BY <2>2, <3>1 DEF VersionAt, c
  <2>4. FitsVersion(q.state, s, k + 1, k + 1)
    BY <2>2 DEF FitsVersion
  <2>5. \E x, j \in Nat : /\ VersionAt(s, x, j) /\ FitsVersion(q.state, s, j, k + 1)
                         /\ q.uri = SubSeq(s, x + 1, j - 1)
    BY <2>3, <2>4
  <2> QED
    BY <2>2, <2>5, StatesAre DEF Fits, VersionStates
<1>7. CASE p.state \in VersionStates /\ q.state \in VersionStates
  <2>1. PICK i, j \in Nat : /\ VersionAt(s, i, j) /\ FitsVersion(p.state, s, j, k)
                           /\ p.uri = SubSeq(s, i + 1, j - 1)
    BY <1>7 DEF Fits
  <2>2. q.uri = p.uri /\ (q.headers <=> p.headers) /\ ~p.headers
    BY <1>1, <1>7, StatesAre DEF Fits, HeaderStates
  <2>3. FitsVersion(q.state, s, j, k + 1)
    BY <1>0, <1>1, <1>7, <2>1, VersionGoesOn DEF c
  <2> QED
    BY <1>7, <2>1, <2>2, <2>3, StatesAre DEF Fits
<1>8. CASE r = On("expecting_newline_1", {"lf"}, "header_line_start")
  <2>1. PICK i, j \in Nat : /\ VersionAt(s, i, j) /\ FitsVersion(p.state, s, j, k)
                           /\ p.uri = SubSeq(s, i + 1, j - 1)
    BY <1>1, <1>8 DEF Fits, On, VersionStates
  <2>2. c = "lf" /\ q.state = "header_line_start" /\ ~q.headers /\ q.uri = p.uri
    BY <1>1, <1>8 DEF On, Fits, VersionStates
  <2>3. s[k] = "cr" /\ RequestLineTo(s, i, j, k - 1)
    BY <1>1, <1>8, <2>1 DEF On, FitsVersion, RequestLineTo
  <2>4. Lines(s, i, j, k, k + 2)
    <3>1. k + 2 <= k + 2 /\ (k + 2) - 1 <= Len(s) /\ (k + 2) - 2 = k
      BY <1>0
    <3>2. LineEndAt(s, k)
      BY <2>2, <2>3 DEF LineEndAt, c
    <3>3. ASSUME NEW f \in LineEnds(s), k < f, f < k + 2 PROVE FALSE
      <4>1. f \in Int /\ s[f] = "cr"
        BY DEF LineEnds
      <4>2. f = k + 1
        BY <1>0, <3>3, <4>1
      <4> QED
        BY <2>2, <4>1, <4>2 DEF c
    <3> QED
      BY <2>3, <3>1, <3>2, <3>3 DEF Lines
  <2>5. FitsHeader(q, s, k, k + 2, k + 1)
    <3>1. k + 2 = (k + 1) + 1 /\ ~(k + 2 < k + 2)
      BY <1>0
    <3> QED
      BY <2>2, <3>1 DEF FitsHeader, HeaderStates
  <2>6. k + 2 \in Nat
    BY <1>0
  <2>7. \E x, y, e, b \in Nat : /\ Lines(s, x, y, e, b) /\ FitsHeader(q, s, e, b, k + 1)
                               /\ q.uri = SubSeq(s, x + 1, y - 1)
    BY <1>0, <2>1, <2>2, <2>4, <2>5, <2>6
  <2> QED
    BY <2>2, <2>7, StatesAre DEF Fits, HeaderStates
<1>9. \/ r = On("method_start", Token, "method") \/ r = On("method", Token, "method")
      \/ r = On("method", {" "}, "uri") \/ r = On("uri", Text \ {" "}, "uri")
      \/ r = On("uri", {" "}, "http_version_h")
      \/ r = On("expecting_newline_1", {"lf"}, "header_line_start")
      \/ r.from \in VersionStates /\ r.to \in VersionStates
  BY RequestLineRowsAre DEF UriRows
<1> QED
  BY <1>1, <1>2, <1>3, <1>4, <1>5, <1>6, <1>7, <1>8, <1>9
(* Within a header line its beginning b stays.                             *)

EndRows == {
    On("expecting_newline_2", {"lf"}, "header_line_start"),
    On("expecting_newline_3", {"lf"}, "true") }

LEMMA LinesGrow ==
    ASSUME NEW s, NEW e \in Nat, NEW b \in Nat, NEW k \in Nat
    PROVE  /\ ValueTo(s, b, k) /\ s[k + 1] \in Text => ValueTo(s, b, k + 1)
           /\ ContTo(s, b, k) /\ s[k + 1] \in Text => ContTo(s, b, k + 1)
           /\ GoodTo(s, e, b, k) /\ s[k + 1] \in Text => GoodTo(s, e, b, k + 1)
<1>1. ASSUME ValueTo(s, b, k), s[k + 1] \in Text PROVE ValueTo(s, b, k + 1)
  <2>1. PICK c \in Nat : /\ b < c /\ c < k /\ s[c] = ":" /\ s[c + 1] = " "
                         /\ Among(s, b, c - 1, Token) /\ Among(s, c + 2, k, Text)
    BY <1>1 DEF ValueTo
  <2>2. c < k
    BY <2>1
  <2>3. c < k + 1 /\ c + 2 \in Int /\ k \in Int
    BY <2>2
  <2>4. Among(s, c + 2, k + 1, Text)
    BY <1>1, <2>1, <2>3, AmongGrows
  <2> QED
    BY <2>1, <2>3, <2>4 DEF ValueTo
<1>2. ASSUME ContTo(s, b, k), s[k + 1] \in Text PROVE ContTo(s, b, k + 1)
  <2>1. PICK n \in Nat : b <= n /\ n <= k /\ Among(s, b, n, Blanks) /\ Among(s, n + 1, k, Text)
    BY <1>2 DEF ContTo
  <2>2. n <= k
    BY <2>1
  <2>3. n <= k + 1 /\ n + 1 \in Int /\ k \in Int
    BY <2>2
  <2>4. Among(s, n + 1, k + 1, Text)
    BY <1>2, <2>1, <2>3, AmongGrows
  <2> QED
    BY <2>1, <2>3, <2>4 DEF ContTo
<1> QED
  BY <1>1, <1>2 DEF GoodTo

LEMMA HeaderGoesOn ==
    ASSUME NEW s, NEW e \in Nat, NEW b \in Nat, NEW k \in Nat, NEW p, NEW q,
           NEW r \in HeaderRows \ EndRows, Consumes(p, s[k + 1], r, q), FitsHeader(p, s, e, b, k)
    PROVE  FitsHeader(q, s, e, b, k + 1) /\ q.uri = p.uri
<1> DEFINE c == s[k + 1]
<1>0. (k + 1) - 1 = k /\ k \in Int /\ k + 1 \in Int /\ k + 1 \in Nat /\ b \in Int
  OBVIOUS
<1> HIDE DEF c
<1>1. /\ p.state = r.from /\ c \in r.chars /\ q.state = r.to
      /\ r.from = "header_line_start" /\ r.to = "header_lws" => p.headers
      /\ q.headers <=> p.headers \/ r.to = "header_name"
      /\ q.uri = IF r.from = "uri" /\ r.to = "uri" THEN Append(p.uri, c) ELSE p.uri
  BY DEF Consumes, Accepts, c
<1> USE DEF HeaderStates
<1>2. CASE r = On("header_line_start", {"cr"}, "expecting_newline_3")
  <2>1. b = k + 1 /\ c = "cr" /\ q.state = "expecting_newline_3" /\ q.uri = p.uri
    BY <1>1, <1>2 DEF On, FitsHeader
  <2> QED
    BY <2>1 DEF FitsHeader, c
<1>3. CASE r = On("header_line_start", Token, "header_name")
  <2>1. b = k + 1 /\ c \in Token /\ q.state = "header_name" /\ q.uri = p.uri /\ q.headers
    BY <1>1, <1>3 DEF On, FitsHeader
  <2>2. b = k + 1
    BY <2>1
  <2>3. b <= k + 1
    BY <2>2
  <2>4. Among(s, b, k + 1, Token)
    BY <1>0, <2>1, AmongGrows DEF c
  <2> QED
    BY <2>1, <2>3, <2>4 DEF FitsHeader
<1>4. CASE r = On("header_lws", {"cr"}, "expecting_newline_2")
  <2>1. /\ e + 2 < b /\ b <= k /\ Among(s, b, k, Blanks) /\ p.headers
        /\ c = "cr" /\ q.state = "expecting_newline_2" /\ q.uri = p.uri /\ q.headers
    BY <1>1, <1>4 DEF On, FitsHeader
  <2>2. k < k + 1 /\ k <= k
    OBVIOUS
  <2>3. Among(s, k + 1, k, Text)
    BY <1>0, <2>2, AmongGrows
  <2>4. GoodTo(s, e, b, k)
    BY <2>1, <2>2, <2>3 DEF GoodTo, ContTo
  <2> QED
    BY <1>0, <2>1, <2>4 DEF FitsHeader, c
<1>5. CASE r = On("header_lws", Blanks, "header_lws")
  <2>1. /\ e + 2 < b /\ b <= k /\ Among(s, b, k, Blanks) /\ p.headers
        /\ c \in Blanks /\ q.state = "header_lws" /\ q.uri = p.uri /\ q.headers
    BY <1>1, <1>5 DEF On, FitsHeader
  <2>2. b <= k
    BY <2>1
  <2>3. b <= k + 1
    BY <2>2
  <2>4. Among(s, b, k + 1, Blanks)
    BY <1>0, <2>1, AmongGrows DEF c
  <2> QED
    BY <2>1, <2>3, <2>4 DEF FitsHeader
<1>6. CASE r = On("header_lws", Text \ Blanks, "header_value")
  <2>1. /\ e + 2 < b /\ b <= k /\ Among(s, b, k, Blanks) /\ p.headers
        /\ c \in Text /\ c \notin Blanks
        /\ q.state = "header_value" /\ q.uri = p.uri /\ q.headers
    BY <1>1, <1>6 DEF On, FitsHeader
  <2>5. b <= k
    BY <2>1
  <2>2. k <= k + 1 /\ k + 1 \in b .. k + 1
    BY <2>5
  <2>3. Among(s, k + 1, k + 1, Text)
    BY <1>0, <2>1, AmongGrows DEF c
  <2>4. GoodTo(s, e, b, k + 1)
    BY <2>1, <2>2, <2>3 DEF GoodTo, ContTo
  <2> QED
    BY <2>1, <2>2, <2>4 DEF FitsHeader, c
<1>7. CASE r = On("header_name", {":"}, "space_before_header_value")
  <2>1. /\ b <= k /\ Among(s, b, k, Token) /\ p.headers
        /\ c = ":" /\ q.state = "space_before_header_value" /\ q.uri = p.uri /\ q.headers
    BY <1>1, <1>7 DEF On, FitsHeader
  <2>2. b <= k
    BY <2>1
  <2>3. b < k + 1
    BY <2>2
  <2> QED
    BY <1>0, <2>1, <2>3 DEF FitsHeader, c
<1>8. CASE r = On("header_name", Token, "header_name")
  <2>1. /\ b <= k /\ Among(s, b, k, Token) /\ p.headers
        /\ c \in Token /\ q.state = "header_name" /\ q.uri = p.uri /\ q.headers
    BY <1>1, <1>8 DEF On, FitsHeader
  <2>2. b <= k
    BY <2>1
  <2>3. b <= k + 1
    BY <2>2
  <2>4. Among(s, b, k + 1, Token)
    BY <1>0, <2>1, AmongGrows DEF c
  <2> QED
    BY <2>1, <2>3, <2>4 DEF FitsHeader
<1>9. CASE r = On("space_before_header_value", {" "}, "header_value")
  <2>1. /\ b < k /\ s[k] = ":" /\ Among(s, b, k - 1, Token) /\ p.headers
        /\ c = " " /\ q.state = "header_value" /\ q.uri = p.uri /\ q.headers
    BY <1>1, <1>9 DEF On, FitsHeader
  <2>2. k < k + 1 /\ k + 2 \in Int /\ k + 1 < k + 2
    OBVIOUS
  <2>3. Among(s, k + 2, k + 1, Text)
    BY <1>0, <2>2, AmongGrows
  <2>4. ValueTo(s, b, k + 1)
    <3>1. s[k + 1] = " " /\ b < k /\ s[k] = ":" /\ Among(s, b, k - 1, Token)
      BY <2>1 DEF c
    <3>2. k < k + 1
      BY <2>2
    <3> QED
      BY <2>3, <3>1, <3>2, Zenon DEF ValueTo
  <2>5. GoodTo(s, e, b, k + 1)
    BY <2>4, Zenon DEF GoodTo
  <2>6. \E x \in b .. k + 1 : s[x] \notin Blanks
    <3>1. b < k
      BY <2>1
    <3>2. k \in b .. k + 1
      BY <3>1
    <3>3. ":" \notin Blanks
      BY DEF Blanks
    <3> QED
      BY <2>1, <3>2, <3>3
  <2> QED
    BY <2>1, <2>5, <2>6 DEF FitsHeader
<1>10. CASE r = On("header_value", {"cr"}, "expecting_newline_2")
  <2>1. /\ GoodTo(s, e, b, k) /\ p.headers
        /\ c = "cr" /\ q.state = "expecting_newline_2" /\ q.uri = p.uri /\ q.headers
    BY <1>1, <1>10 DEF On, FitsHeader
  <2> QED
    BY <1>0, <2>1 DEF FitsHeader, c
<1>11. CASE r = On("header_value", Text, "header_value")
  <2>1. /\ GoodTo(s, e, b, k) /\ p.headers /\ \E x \in b .. k : s[x] \notin Blanks
        /\ c \in Text /\ q.state = "header_value" /\ q.uri = p.uri /\ q.headers
    BY <1>1, <1>11 DEF On, FitsHeader
  <2>2. GoodTo(s, e, b, k + 1)
    BY <2>1, LinesGrow DEF c
  <2>3. \A x \in b .. k : x \in b .. k + 1
    OBVIOUS
  <2> QED
    BY <2>1, <2>2, <2>3 DEF FitsHeader
<1>12. CASE r = On("header_line_start", Blanks, "header_lws")
  <2>1. /\ b = k + 1 /\ p.headers /\ e + 2 < b
        /\ c \in Blanks /\ q.state = "header_lws" /\ q.uri = p.uri /\ q.headers
    BY <1>1, <1>12 DEF On, FitsHeader
  <2>2. b = k + 1
    BY <2>1
  <2>3. b <= k + 1
    BY <2>2
  <2>4. Among(s, b, k + 1, Blanks)
    BY <1>0, <2>1, AmongGrows DEF c
  <2> QED
    BY <2>1, <2>3, <2>4 DEF FitsHeader
<1> QED
  BY <1>2, <1>3, <1>4, <1>5, <1>6, <1>7, <1>8, <1>9, <1>10, <1>11, <1>12 DEF HeaderRows, EndRows
InLineRows == {
    On("header_line_start", {"cr"}, "expecting_newline_3"),
    On("header_line_start", Token, "header_name"),
    On("header_lws", {"cr"}, "expecting_newline_2"),
    On("header_lws", Blanks, "header_lws"),
    On("header_lws", Text \ Blanks, "header_value"),
    On("header_name", {":"}, "space_before_header_value"),
    On("header_name", Token, "header_name"),
    On("space_before_header_value", {" "}, "header_value"),
    On("header_value", {"cr"}, "expecting_newline_2"),
    On("header_value", Text, "header_value"),
    On("header_line_start", Blanks, "header_lws") }

LEMMA HeaderRowsAre ==
    /\ \A r \in HeaderRows : r.from \in HeaderStates
    /\ \A r \in HeaderRows : r.to \in HeaderStates \/ r \in EndRows
<1>1. HeaderRows = InLineRows \cup EndRows
  BY DEF HeaderRows, InLineRows, EndRows
<1>2. \A r \in InLineRows : r.from \in HeaderStates /\ r.to \in HeaderStates
  <2> SUFFICES ASSUME NEW r \in InLineRows PROVE r.from \in HeaderStates /\ r.to \in HeaderStates
    OBVIOUS
  <2>1. CASE r = On("header_line_start", {"cr"}, "expecting_newline_3")
    BY <2>1 DEF On, HeaderStates
  <2>2. CASE r = On("header_line_start", Token, "header_name")
    BY <2>2 DEF On, HeaderStates
  <2>3. CASE r = On("header_lws", {"cr"}, "expecting_newline_2")
    BY <2>3 DEF On, HeaderStates
  <2>4. CASE r = On("header_lws", Blanks, "header_lws")
    BY <2>4 DEF On, HeaderStates
  <2>5. CASE r = On("header_lws", Text \ Blanks, "header_value")
    BY <2>5 DEF On, HeaderStates
  <2>6. CASE r = On("header_name", {":"}, "space_before_header_value")
    BY <2>6 DEF On, HeaderStates
  <2>7. CASE r = On("header_name", Token, "header_name")
    BY <2>7 DEF On, HeaderStates
  <2>8. CASE r = On("space_before_header_value", {" "}, "header_value")
    BY <2>8 DEF On, HeaderStates
  <2>9. CASE r = On("header_value", {"cr"}, "expecting_newline_2")
    BY <2>9 DEF On, HeaderStates
  <2>10. CASE r = On("header_value", Text, "header_value")
    BY <2>10 DEF On, HeaderStates
  <2>11. CASE r = On("header_line_start", Blanks, "header_lws")
    BY <2>11 DEF On, HeaderStates
  <2> QED
    BY <2>1, <2>2, <2>3, <2>4, <2>5, <2>6, <2>7, <2>8, <2>9, <2>10, <2>11 DEF InLineRows
<1>3. \A r \in EndRows : r.from \in HeaderStates
  BY DEF EndRows, On, HeaderStates
<1> QED
  BY <1>1, <1>2, <1>3

LEMMA HeaderRow ==
    ASSUME NEW s \in Seq(Chars), NEW k \in 0 .. Len(s) - 1, NEW p, NEW q, Fits(p, s, k),
           NEW r \in HeaderRows, Consumes(p, s[k + 1], r, q)
    PROVE  IF q.state = "true" THEN Ended(q, s, k + 1) ELSE Fits(q, s, k + 1)
<1>0. k \in Nat /\ Len(s) \in Nat /\ k + 1 <= Len(s) /\ (k + 1) - 1 = k
  OBVIOUS
<1>1. p.state = r.from /\ s[k + 1] \in r.chars /\ q.state = r.to
  BY DEF Consumes, Accepts
<1>2. p.state \in HeaderStates /\ (q.state \in HeaderStates \/ r \in EndRows)
  BY <1>1, HeaderRowsAre
<1>3. PICK i, j, e, b \in Nat : /\ Lines(s, i, j, e, b) /\ FitsHeader(p, s, e, b, k)
                               /\ p.uri = SubSeq(s, i + 1, j - 1)
  BY <1>2 DEF Fits
<1>4. CASE r \notin EndRows
  <2>1. FitsHeader(q, s, e, b, k + 1) /\ q.uri = p.uri
    <3>1. r \in HeaderRows \ EndRows
      BY <1>4
    <3>2. k \in Nat /\ e \in Nat /\ b \in Nat
      BY <1>0
    <3>3. FitsHeader(p, s, e, b, k)
      BY <1>3
    <3> QED
      BY <3>1, <3>2, <3>3, HeaderGoesOn
  <2>2. q.state \in HeaderStates
    BY <1>2, <1>4
  <2>3. Fits(q, s, k + 1)
    BY <1>3, <2>1, <2>2, StatesAre DEF Fits
  <2> QED
    BY <2>2, <2>3, StatesAre
<1>5. CASE r = On("expecting_newline_3", {"lf"}, "true")
  <2>1. /\ s[k] = "cr" /\ k = b /\ s[k + 1] = "lf" /\ q.state = "true" /\ q.uri = p.uri
    BY <1>1, <1>3, <1>5 DEF Consumes, On, FitsHeader
  <2>2. Ended(q, s, k + 1)
    BY <1>0, <1>3, <2>1 DEF Ended, LineEndAt
  <2> QED
    BY <2>1, <2>2
<1>6. CASE r = On("expecting_newline_2", {"lf"}, "header_line_start")
  <2>1. /\ s[k] = "cr" /\ GoodTo(s, e, b, k - 1) /\ p.headers /\ s[k + 1] = "lf"
        /\ q.state = "header_line_start" /\ q.uri = p.uri /\ q.headers
    BY <1>1, <1>3, <1>6 DEF Consumes, On, FitsHeader, HeaderStates
  <2>2. b <= k - 1 /\ \A x \in b .. k - 1 : s[x] # "cr"
    BY <1>0, <2>1, GoodHasNoEnd
  <2>3. e + 2 <= b /\ b <= k - 1
    BY <1>3, <2>2 DEF Lines
  <2>10. e - 1 >= 1
    <3>1. VersionAt(s, i, j) /\ \E d \in Nat : MinorTo(s, j, d, e - 1)
      BY <1>3 DEF Lines, RequestLineTo
    <3>2. PICK d \in Nat : d < e - 1 /\ d - 1 >= j + 6
      BY <3>1 DEF MinorTo, MajorTo
    <3> QED
      BY <3>2
  <2>4. /\ k + 2 \in Nat /\ e + 2 <= k + 2 /\ (k + 2) - 1 <= Len(s) /\ (k + 2) - 2 = k
        /\ e + 2 < k + 2 /\ k + 2 = (k + 1) + 1 /\ 3 <= b /\ k \in b .. Len(s) /\ e < k
        /\ b - 2 \in Nat /\ 1 <= b - 2 /\ (b - 2) + 1 <= Len(s) /\ b - 2 < k /\ b - 1 < k
        /\ b \in Nat \ {0} /\ k - 1 \in 0 .. Len(s)
    BY <1>0, <2>3, <2>10
  <2>5. LineEndAt(s, b - 2) /\ LineEndAt(s, k)
    BY <1>3, <2>1 DEF Lines, LineEndAt
  <2>6. LineTo(s, k) = SubSeq(s, b, k - 1)
    <3>1. \A x \in b .. k - 1 : x \notin LineEnds(s)
      BY <2>2 DEF LineEnds
    <3> QED
      BY <2>4, <2>5, <3>1, LineFrom
  <2>7. GoodLine(s, e, k)
    <3>1. CASE ValueTo(s, b, k - 1)
      BY <2>3, <2>4, <2>6, <3>1, HeaderIs DEF GoodLine
    <3>2. CASE e + 2 < b /\ ContTo(s, b, k - 1)
      <4>1. IsContinuation(LineTo(s, k))
        BY <2>3, <2>4, <2>6, <3>2, HeaderIs
      <4>2. b - 2 \in LineEnds(s)
        BY <2>4, <2>5, LineEndsAre
      <4>3. e < b - 2
        BY <3>2
      <4> QED
        BY <2>4, <4>1, <4>2, <4>3 DEF GoodLine
    <3> QED
      BY <2>1, <3>1, <3>2 DEF GoodTo
  <2>8. ASSUME NEW f \in LineEnds(s), e < f, f < k + 2 PROVE GoodLine(s, e, f)
    <3>1. f \in Nat /\ s[f] = "cr"
      BY DEF LineEnds
    <3>2. CASE f < b
      BY <1>3, <2>8, <3>2 DEF Lines
    <3>3. CASE b <= f
      <4>1. f \notin b .. k - 1 /\ f # k + 1
        BY <2>1, <2>2, <3>1
      <4>2. f = k
        BY <1>0, <2>8, <3>1, <3>3, <4>1
      <4> QED
        BY <2>7, <4>2
    <3> QED
      BY <3>1, <3>2, <3>3
  <2>9. Lines(s, i, j, e, k + 2)
    BY <1>3, <2>4, <2>5, <2>8 DEF Lines
  <2>11. FitsHeader(q, s, e, k + 2, k + 1)
    BY <2>1, <2>4 DEF FitsHeader, HeaderStates
  <2>12. q.state \in HeaderStates
    BY <2>1 DEF HeaderStates
  <2>13. Fits(q, s, k + 1)
    <3>1. \E x, y, z, w \in Nat : /\ Lines(s, x, y, z, w) /\ FitsHeader(q, s, z, w, k + 1)
                                 /\ q.uri = SubSeq(s, x + 1, y - 1)
      BY <1>3, <2>1, <2>4, <2>9, <2>11
    <3> QED
      BY <2>12, <3>1, StatesAre DEF Fits
  <2> QED
    BY <2>12, <2>13, StatesAre
<1> QED
  BY <1>4, <1>5, <1>6 DEF EndRows
(***************************************************************************)
(* What the parser has found out after k characters.                       *)
(***************************************************************************)
ReadStates == {"method_start", "method", "uri"} \cup VersionStates \cup HeaderStates

LEMMA RowStates ==
    /\ States = ReadStates \cup Results
    /\ \A r \in Rows : r.from \in ReadStates /\ r.to \in States
    /\ ReadStates \cap Results = {}
<1>1. ASSUME NEW r \in UriRows PROVE r.from \in ReadStates /\ r.to \in ReadStates
  <2>1. CASE r = On("expecting_newline_1", {"lf"}, "header_line_start")
    BY <2>1 DEF On, ReadStates, VersionStates, HeaderStates
  <2>2. CASE r = On("method_start", Token, "method")
    BY <2>2 DEF On, ReadStates
  <2>3. CASE r = On("method", Token, "method")
    BY <2>3 DEF On, ReadStates
  <2>4. CASE r = On("method", {" "}, "uri")
    BY <2>4 DEF On, ReadStates
  <2>5. CASE r = On("uri", Text \ {" "}, "uri")
    BY <2>5 DEF On, ReadStates
  <2>6. CASE r = On("uri", {" "}, "http_version_h")
    BY <2>6 DEF On, ReadStates, VersionStates
  <2> QED
    BY <2>1, <2>2, <2>3, <2>4, <2>5, <2>6 DEF UriRows
<1>2. ASSUME NEW r \in EndRows PROVE r.to \in ReadStates \cup Results
  <2>1. CASE r = On("expecting_newline_2", {"lf"}, "header_line_start")
    BY <2>1 DEF On, ReadStates, HeaderStates
  <2>2. CASE r = On("expecting_newline_3", {"lf"}, "true")
    BY <2>2 DEF On, Results
  <2> QED
    BY <2>1, <2>2 DEF EndRows
<1>3. \A r \in Rows : r.from \in ReadStates /\ r.to \in ReadStates \cup Results
  BY <1>1, <1>2, RequestLineRowsAre, HeaderRowsAre DEF Rows, ReadStates
<1> DEFINE Froms == {r.from : r \in Rows}
<1>4. On("method_start", Token, "method") \in Rows
  BY DEF Rows, RequestLineRows
<1>5. On("method", Token, "method") \in Rows
  BY DEF Rows, RequestLineRows
<1>6. On("uri", {" "}, "http_version_h") \in Rows
  BY DEF Rows, RequestLineRows
<1>7. \A f, cs, to : On(f, cs, to) \in Rows => f \in Froms
  <2> SUFFICES ASSUME NEW f, NEW cs, NEW to, On(f, cs, to) \in Rows PROVE f \in Froms
    OBVIOUS
  <2>1. On(f, cs, to).from = f
    BY DEF On
  <2> QED
    BY <2>1
<1>8. VersionStates \subseteq Froms
  <2>1. /\ On("http_version_h", {"H"}, "http_version_t_1") \in Rows
        /\ On("http_version_t_1", {"T"}, "http_version_t_2") \in Rows
        /\ On("http_version_t_2", {"T"}, "http_version_p") \in Rows
        /\ On("http_version_p", {"P"}, "http_version_slash") \in Rows
        /\ On("http_version_slash", {"/"}, "http_version_major_start") \in Rows
        /\ On("http_version_major_start", Digits, "http_version_major") \in Rows
        /\ On("http_version_major", Digits, "http_version_major") \in Rows
        /\ On("http_version_minor_start", Digits, "http_version_minor") \in Rows
        /\ On("http_version_minor", Digits, "http_version_minor") \in Rows
    BY RequestLineRowsAre DEF Rows, VersionRows
  <2>2. On("expecting_newline_1", {"lf"}, "header_line_start") \in Rows
    BY RequestLineRowsAre DEF Rows, UriRows
  <2> HIDE DEF Froms
  <2> QED
    BY <1>7, <2>1, <2>2 DEF VersionStates
<1>9. HeaderStates \subseteq Froms
  <2>1. /\ On("header_line_start", Token, "header_name") \in Rows
        /\ On("header_lws", {"cr"}, "expecting_newline_2") \in Rows
        /\ On("header_name", {":"}, "space_before_header_value") \in Rows
        /\ On("space_before_header_value", {" "}, "header_value") \in Rows
        /\ On("header_value", {"cr"}, "expecting_newline_2") \in Rows
        /\ On("expecting_newline_2", {"lf"}, "header_line_start") \in Rows
        /\ On("expecting_newline_3", {"lf"}, "true") \in Rows
    BY DEF Rows, HeaderRows
  <2> HIDE DEF Froms
  <2> QED
    BY <1>7, <2>1 DEF HeaderStates
<1>10. Froms = ReadStates
  <2>1. Froms \subseteq ReadStates
    BY <1>3
  <2>2. "method_start" \in Froms /\ "method" \in Froms /\ "uri" \in Froms
    <3> HIDE DEF Froms
    <3> QED
      BY <1>4, <1>5, <1>6, <1>7
  <2> QED
    BY <1>8, <1>9, <2>1, <2>2 DEF ReadStates
<1>11. States = ReadStates \cup Results
  BY <1>10 DEF States
<1>12. ReadStates \cap Results = {}
  BY DEF ReadStates, Results, VersionStates, HeaderStates
<1> QED
  BY <1>3, <1>11, <1>12

LEMMA UriToUri ==
    ASSUME NEW r \in UriRows
    PROVE  r.to \notin Results /\ (r.from = "uri" /\ r.to = "uri" => r.chars \subseteq Text)
<1>1. CASE r = On("expecting_newline_1", {"lf"}, "header_line_start")
  BY <1>1 DEF On, Results
<1>2. CASE r = On("method_start", Token, "method")
  BY <1>2 DEF On, Results
<1>3. CASE r = On("method", Token, "method")
  BY <1>3 DEF On, Results
<1>4. CASE r = On("method", {" "}, "uri")
  BY <1>4 DEF On, Results
<1>5. CASE r = On("uri", Text \ {" "}, "uri")
  BY <1>5 DEF On, Results
<1>6. CASE r = On("uri", {" "}, "http_version_h")
  BY <1>6 DEF On, Results
<1> QED
  BY <1>1, <1>2, <1>3, <1>4, <1>5, <1>6 DEF UriRows

LEMMA RowNeverFalse == \A r \in Rows : r.to # "false"
<1>1. \A r \in UriRows : r.to # "false"
  BY UriToUri DEF Results
<1>2. \A r \in EndRows : r.to # "false"
  BY DEF EndRows, On
<1>3. "false" \notin VersionStates \cup HeaderStates
  BY DEF VersionStates, HeaderStates
<1> QED
  BY <1>1, <1>2, <1>3, RequestLineRowsAre, HeaderRowsAre DEF Rows

LEMMA RowGoesOn ==
    ASSUME NEW s \in Seq(Chars), NEW k \in 0 .. Len(s) - 1, NEW p, NEW q, Fits(p, s, k),
           NEW r \in Rows, Consumes(p, s[k + 1], r, q)
    PROVE  IF q.state = "true" THEN Ended(q, s, k + 1) ELSE Fits(q, s, k + 1)
<1>1. CASE r \in RequestLineRows
  <2>1. Fits(q, s, k + 1)
    BY <1>1, RequestLineRow
  <2>2. q.state # "true"
    <3>1. r.to # "true"
      <4>1. CASE r \in VersionRows
        BY <4>1, RequestLineRowsAre, StatesAre
      <4>2. CASE r \in UriRows
        BY <4>2, UriToUri DEF Results
      <4> QED
        BY <1>1, <4>1, <4>2, RequestLineRowsAre
    <3> QED
      BY <3>1 DEF Consumes
  <2> QED
    BY <2>1, <2>2
<1>2. CASE r \in HeaderRows
  BY <1>2, HeaderRow
<1> QED
  BY <1>1, <1>2 DEF Rows

\* The parser after the first k characters of s.
After(s, k) == Parse(Reset, SubSeq(s, 1, k))

LEMMA AfterSteps ==
    ASSUME NEW s \in Seq(Chars)
    PROVE  /\ After(s, 0) = Reset
           /\ \A k \in 0 .. Len(s) - 1 : After(s, k + 1) = Step(After(s, k), s[k + 1])
<1>1. SubSeq(s, 1, 0) = <<>>
  OBVIOUS
<1>2. After(s, 0) = Reset
  BY <1>1, ParseEmpty DEF After
<1>3. \A k \in 0 .. Len(s) - 1 : After(s, k + 1) = Step(After(s, k), s[k + 1])
  BY ParseLast DEF After
<1> QED
  BY <1>2, <1>3

LEMMA AfterIsTyped ==
    ASSUME NEW s \in Seq(Chars), NEW k \in 0 .. Len(s)
    PROVE  After(s, k).state \in States /\ After(s, k).uri \in Seq(Text)
<1> DEFINE Typed == {n \in Nat : n <= Len(s) =>
                        After(s, n).state \in States /\ After(s, n).uri \in Seq(Text)}
<1>1. 0 \in Typed
  <2>1. Reset.state \in States /\ Reset.uri \in Seq(Text)
    BY RowStates DEF Reset, ReadStates
  <2> QED
    BY <2>1, AfterSteps
<1>2. ASSUME NEW n \in Nat, n \in Typed PROVE n + 1 \in Typed
  <2> SUFFICES ASSUME n + 1 <= Len(s)
               PROVE  After(s, n + 1).state \in States /\ After(s, n + 1).uri \in Seq(Text)
    OBVIOUS
  <2> DEFINE p == After(s, n)
             q == After(s, n + 1)
             c == s[n + 1]
  <2>1. p.state \in States /\ p.uri \in Seq(Text)
    BY <1>2
  <2>2. q = Step(p, c)
    <3>1. n \in 0 .. Len(s) - 1
      OBVIOUS
    <3> QED
      BY <3>1, AfterSteps
  <2> HIDE DEF p, q, c
  <2>3. ASSUME p.state \in Results PROVE q.state \in States /\ q.uri \in Seq(Text)
    BY <2>1, <2>2, <2>3 DEF Step
  <2>4. ASSUME p.state \notin Results PROVE q.state \in States /\ q.uri \in Seq(Text)
    <3>1. q = Consume(p, c)
      BY <2>2, <2>4 DEF Step
    <3>2. CASE q.state = "false" /\ \A r \in Rows : ~Accepts(p, c, r)
      <4>1. q.uri = p.uri
        BY <3>1, <3>2 DEF Consume
      <4> QED
        BY <2>1, <3>2, <4>1 DEF States, Results
    <3>3. CASE \E r \in Rows : Consumes(p, c, r, q)
      <4>1. PICK r \in Rows : Consumes(p, c, r, q)
        BY <3>3
      <4>2. q.state \in States
        BY <4>1, RowStates DEF Consumes
      <4>3. CASE r.from = "uri" /\ r.to = "uri"
        <5>1. c \in Text
          <6>1. CASE r \in UriRows
            BY <4>1, <4>3, <6>1, UriToUri DEF Consumes, Accepts
          <6>2. CASE r \in VersionRows \cup HeaderRows
            BY <4>3, <6>2, RequestLineRowsAre, HeaderRowsAre, StatesAre
          <6> QED
            BY <6>1, <6>2, RequestLineRowsAre DEF Rows
        <5>2. q.uri = Append(p.uri, c)
          BY <4>1, <4>3 DEF Consumes
        <5> QED
          BY <2>1, <4>2, <5>1, <5>2
      <4>4. CASE ~(r.from = "uri" /\ r.to = "uri")
        BY <2>1, <4>1, <4>2, <4>4 DEF Consumes
      <4> QED
        BY <4>3, <4>4
    <3> QED
      BY <2>1, <3>1, <3>2, <3>3, ConsumeIs
  <2> QED
    BY <2>3, <2>4 DEF q
<1> HIDE DEF Typed
<1>3. Len(s) \in Nat /\ k \in Nat /\ k <= Len(s) /\ k \in Typed
  BY <1>1, <1>2, Induction
<1> QED
  BY <1>3 DEF Typed
\* One more character while there is no result.
LEMMA AfterGoesOn ==
    ASSUME NEW s \in Seq(Chars), NEW k \in 0 .. Len(s) - 1,
           After(s, k).state \in ReadStates, Fits(After(s, k), s, k)
    PROVE  LET p == After(s, k)  q == After(s, k + 1)
           IN  \/ q.state = "false" /\ \A r \in Rows : ~Accepts(p, s[k + 1], r)
               \/ q.state = "true" /\ Ended(q, s, k + 1)
               \/ q.state \in ReadStates /\ Fits(q, s, k + 1)
<1> DEFINE p == After(s, k)
           q == After(s, k + 1)
<1>1. q = Consume(p, s[k + 1]) /\ p.state \in States
  BY AfterSteps, RowStates DEF Step
<1>2. Fits(p, s, k)
  OBVIOUS
<1> HIDE DEF p, q
<1>3. ASSUME NEW r \in Rows, Consumes(p, s[k + 1], r, q)
      PROVE  \/ q.state = "true" /\ Ended(q, s, k + 1)
             \/ q.state \in ReadStates /\ Fits(q, s, k + 1)
  <2>1. IF q.state = "true" THEN Ended(q, s, k + 1) ELSE Fits(q, s, k + 1)
    BY <1>2, <1>3, RowGoesOn
  <2>2. q.state \in ReadStates \cup Results /\ q.state # "false"
    <3>1. r.to \in ReadStates \cup Results /\ r.to # "false"
      BY RowStates, RowNeverFalse
    <3> QED
      BY <1>3, <3>1 DEF Consumes
  <2> QED
    BY <2>1, <2>2 DEF Results
<1>4. \/ q.state = "false" /\ \A r \in Rows : ~Accepts(p, s[k + 1], r)
      \/ \E r \in Rows : Consumes(p, s[k + 1], r, q)
  BY <1>1, ConsumeIs
<1> QED
  BY <1>3, <1>4 DEF p, q

LEMMA AfterFits ==
    ASSUME NEW s \in Seq(Chars), NEW k \in 0 .. Len(s)
    PROVE  LET p == After(s, k)
           IN  /\ p.state \in ReadStates => Fits(p, s, k)
               /\ p.state = "true" => \E m \in 1 .. k : Ended(p, s, m) /\ After(s, m) = p
               /\ p.state = "false" =>
                     \E m \in 0 .. k - 1 :
                        /\ Fits(After(s, m), s, m) /\ After(s, m).state \in ReadStates
                        /\ \A r \in Rows : ~Accepts(After(s, m), s[m + 1], r)
<1> DEFINE Found(n) ==
             LET p == After(s, n)
             IN  /\ p.state \in ReadStates => Fits(p, s, n)
                 /\ p.state = "true" => \E m \in 1 .. n : Ended(p, s, m) /\ After(s, m) = p
                 /\ p.state = "false" =>
                       \E m \in 0 .. n - 1 :
                          /\ Fits(After(s, m), s, m) /\ After(s, m).state \in ReadStates
                          /\ \A r \in Rows : ~Accepts(After(s, m), s[m + 1], r)
           Founds == {n \in Nat : n <= Len(s) => Found(n)}
<1>1. 0 \in Founds
  <2>1. After(s, 0) = Reset
    BY AfterSteps
  <2>2. Fits(Reset, s, 0)
    BY StatesAre DEF Fits, Reset
  <2>3. Reset.state \notin Results
    BY DEF Reset, Results
  <2> QED
    BY <2>1, <2>2, <2>3 DEF Results
<1>2. ASSUME NEW n \in Nat, n \in Founds PROVE n + 1 \in Founds
  <2> SUFFICES ASSUME n + 1 <= Len(s) PROVE Found(n + 1)
    OBVIOUS
  <2>0. n \in 0 .. Len(s) - 1 /\ n \in 0 .. (n + 1) - 1 /\ n + 1 \in 1 .. n + 1
    OBVIOUS
  <2>1. Found(n)
    BY <1>2, <2>0
  <2> DEFINE p == After(s, n)
             q == After(s, n + 1)
  <2>2. p.state \in ReadStates \cup Results
    BY <2>0, AfterIsTyped, RowStates
  <2>3. ASSUME p.state \in Results PROVE Found(n + 1)
    <3>1. q = p
      BY <2>0, <2>3, AfterSteps DEF Step
    <3>2. \A m \in 1 .. n : m \in 1 .. n + 1
      OBVIOUS
    <3>3. \A m \in 0 .. n - 1 : m \in 0 .. (n + 1) - 1
      OBVIOUS
    <3>4. p.state \notin ReadStates
      BY <2>3, RowStates
    <3>5. p.state = "true" => \E m \in 1 .. n + 1 : Ended(p, s, m) /\ After(s, m) = p
      BY <2>1, <3>2
    <3>6. p.state = "false" =>
             \E m \in 0 .. (n + 1) - 1 :
                /\ Fits(After(s, m), s, m) /\ After(s, m).state \in ReadStates
                /\ \A r \in Rows : ~Accepts(After(s, m), s[m + 1], r)
      BY <2>1, <3>3
    <3> QED
      BY <3>1, <3>4, <3>5, <3>6
  <2>4. ASSUME p.state \in ReadStates PROVE Found(n + 1)
    <3>1. Fits(p, s, n)
      BY <2>1, <2>4
    <3>2. \/ q.state = "false" /\ \A r \in Rows : ~Accepts(p, s[n + 1], r)
          \/ q.state = "true" /\ Ended(q, s, n + 1)
          \/ q.state \in ReadStates /\ Fits(q, s, n + 1)
      BY <2>0, <2>4, <3>1, AfterGoesOn
    <3>3. q.state \in ReadStates => q.state # "false" /\ q.state # "true"
      BY RowStates DEF Results
    <3> QED
      BY <2>0, <2>4, <3>1, <3>2, <3>3
  <2> HIDE DEF Found
  <2> QED
    BY <2>2, <2>3, <2>4
<1> HIDE DEF Founds
<1>3. Len(s) \in Nat /\ k \in Nat /\ k <= Len(s) /\ k \in Founds
  BY <1>1, <1>2, Induction
<1> QED
  BY <1>3 DEF Founds
(***************************************************************************)
(* A request, by positions.                                                *)
(***************************************************************************)
Whole(s, i, j, e) == Lines(s, i, j, e, Len(s) - 1) /\ LineEndAt(s, Len(s) - 1)

LEMMA MinIsLeast ==
    ASSUME NEW S \in SUBSET Nat, S # {}
    PROVE  Min(S) \in S /\ \A x \in S : Min(S) <= x
<1>1. \E m \in S : \A x \in S : m <= x
  BY LeastExists
<1> QED
  BY <1>1 DEF Min

LEMMA RequestLineBounds ==
    ASSUME NEW s, NEW i \in Nat, NEW j \in Nat, NEW k \in Int, RequestLineTo(s, i, j, k)
    PROVE  2 <= i /\ i < j /\ j + 7 < k
<1>1. PICK d \in Nat : d < k /\ d - 1 >= j + 6
  BY DEF RequestLineTo, MinorTo, MajorTo
<1>2. i <= j - 1 /\ i - 1 >= 1
  BY DEF RequestLineTo, VersionAt, UriTo, MethodTo
<1> QED
  BY <1>1, <1>2

LEMMA RequestLineHasNoEnd ==
    ASSUME NEW s, NEW i \in Nat, NEW j \in Nat, NEW k \in Int, RequestLineTo(s, i, j, k)
    PROVE  \A x \in 1 .. k : s[x] # "cr" /\ s[x] # "lf"
<1>1. PICK d \in Nat : MinorTo(s, j, d, k)
  BY DEF RequestLineTo
<1>2. /\ s[j] = " " /\ s[i] = " " /\ Among(s, 1, i - 1, Token)
      /\ Among(s, i + 1, j - 1, Text \ {" "})
  BY DEF RequestLineTo, VersionAt, UriTo, MethodTo
<1>3. /\ s[d] = "." /\ Http(s, j) /\ Among(s, j + 6, d - 1, Digits) /\ Among(s, d + 1, k, Digits)
  BY <1>1 DEF MinorTo, MajorTo
<1> SUFFICES ASSUME NEW x \in 1 .. k PROVE s[x] # "cr" /\ s[x] # "lf"
  OBVIOUS
<1>4. \/ x \in 1 .. i - 1 \/ x = i \/ x \in i + 1 .. j - 1 \/ x = j
      \/ x = j + 1 \/ x = j + 2 \/ x = j + 3 \/ x = j + 4 \/ x = j + 5
      \/ x \in j + 6 .. d - 1 \/ x = d \/ x \in d + 1 .. k
  OBVIOUS
<1>5. CASE x \in 1 .. i - 1 \/ x \in i + 1 .. j - 1 \/ x \in j + 6 .. d - 1 \/ x \in d + 1 .. k
  BY <1>2, <1>3, <1>5, NoLineEnd DEF Among
<1>6. CASE x = j + 1 \/ x = j + 2 \/ x = j + 3 \/ x = j + 4 \/ x = j + 5
  BY <1>3, <1>6 DEF Http
<1> QED
  BY <1>2, <1>3, <1>4, <1>5, <1>6

\* A request line is told by its own characters.
LEMMA SameRequestLine ==
    ASSUME NEW s, NEW t, NEW i \in Nat, NEW j \in Nat, NEW k \in Int,
           \A x \in 1 .. k : s[x] = t[x], RequestLineTo(s, i, j, k)
    PROVE  RequestLineTo(t, i, j, k)
<1>1. PICK d \in Nat : MinorTo(s, j, d, k)
  BY DEF RequestLineTo
<1>2. d < k /\ d - 1 >= j + 6 /\ 2 <= i /\ i < j
  BY <1>1, RequestLineBounds DEF MinorTo, MajorTo
<1>3. /\ i \in 1 .. k /\ j \in 1 .. k /\ d \in 1 .. k
      /\ j + 1 \in 1 .. k /\ j + 2 \in 1 .. k /\ j + 3 \in 1 .. k /\ j + 4 \in 1 .. k
      /\ j + 5 \in 1 .. k
  BY <1>2
<1>4. ASSUME NEW a \in Int, NEW b \in Int, a >= 1, b <= k, NEW chars, Among(s, a, b, chars)
      PROVE  Among(t, a, b, chars)
  <2>1. \A x \in a .. b : x \in 1 .. k
    BY <1>4
  <2> QED
    BY <1>4, <2>1 DEF Among
<1>5. VersionAt(t, i, j)
  <2>1. /\ s[j] = " " /\ i <= j - 1 /\ s[i] = " " /\ i - 1 >= 1
        /\ Among(s, 1, i - 1, Token) /\ Among(s, i + 1, j - 1, Text \ {" "})
    BY DEF RequestLineTo, VersionAt, UriTo, MethodTo
  <2>2. /\ 1 \in Int /\ 1 >= 1
        /\ i - 1 \in Int /\ i - 1 <= k /\ i + 1 \in Int /\ i + 1 >= 1 /\ j - 1 \in Int /\ j - 1 <= k
    BY <1>2
  <2>3. Among(t, 1, i - 1, Token) /\ Among(t, i + 1, j - 1, Text \ {" "})
    BY <1>4, <2>1, <2>2, Zenon
  <2>4. t[j] = " " /\ t[i] = " "
    BY <1>3, <2>1
  <2> QED
    BY <2>1, <2>3, <2>4 DEF VersionAt, UriTo, MethodTo
<1>6. MinorTo(t, j, d, k)
  <2>1. /\ s[d] = "." /\ Http(s, j) /\ Among(s, j + 6, d - 1, Digits) /\ Among(s, d + 1, k, Digits)
    BY <1>1 DEF MinorTo, MajorTo
  <2>2. j + 6 \in Int /\ j + 6 >= 1 /\ d - 1 \in Int /\ d - 1 <= k /\ d + 1 \in Int /\ d + 1 >= 1 /\ k <= k
    BY <1>2
  <2>3. Among(t, j + 6, d - 1, Digits) /\ Among(t, d + 1, k, Digits)
    BY <1>4, <2>1, <2>2
  <2>4. t[d] = "." /\ Http(t, j)
    BY <1>3, <2>1 DEF Http
  <2> QED
    BY <1>2, <2>3, <2>4 DEF MinorTo, MajorTo
<1> QED
  BY <1>5, <1>6 DEF RequestLineTo

LEMMA FirstLineIs ==
    ASSUME NEW s \in Seq(Chars), NEW e \in LineEnds(s), \A f \in LineEnds(s) : e <= f
    PROVE  /\ e \in Nat \ {0} /\ e < Len(s)
           /\ Min(LineEnds(s)) = e /\ LineTo(s, e) = SubSeq(s, 1, e - 1)
           /\ \A i, j \in Nat : <<i, j>> \in UriEnds(LineTo(s, e)) <=> RequestLineTo(s, i, j, e - 1)
<1>1. LineEnds(s) \in SUBSET Nat /\ e \in Nat \ {0} /\ e < Len(s) /\ Len(s) \in Nat
  BY DEF LineEnds
<1>2. Min(LineEnds(s)) = e
  <2>1. Min(LineEnds(s)) \in LineEnds(s) /\ Min(LineEnds(s)) <= e
    BY <1>1, MinIsLeast
  <2> QED
    BY <1>1, <2>1
<1>3. LineTo(s, e) = SubSeq(s, 1, e - 1)
  <2>1. \A f \in LineEnds(s) : ~(f < e)
    BY <1>1
  <2>2. {f \in LineEnds(s) : f < e} = {}
    BY <2>1
  <2> QED
    BY <2>2 DEF LineTo
<1>4. ASSUME NEW i \in Nat, NEW j \in Nat
      PROVE  <<i, j>> \in UriEnds(LineTo(s, e)) <=> RequestLineTo(s, i, j, e - 1)
  <2> DEFINE u == SubSeq(s, 1, e - 1)
  <2>1. u \in Seq(Chars) /\ Len(u) = e - 1 /\ \A x \in 1 .. e - 1 : u[x] = s[x]
    BY <1>1
  <2> HIDE DEF u
  <2>2. <<i, j>> \in UriEnds(u) <=> RequestLineTo(u, i, j, e - 1)
    BY <2>1, UriEndsAt
  <2>3. e - 1 \in Int
    BY <1>1
  <2>4. RequestLineTo(u, i, j, e - 1) <=> RequestLineTo(s, i, j, e - 1)
    BY <2>1, <2>3, SameRequestLine
  <2> QED
    BY <1>3, <2>2, <2>4 DEF u
<1> QED
  BY <1>1, <1>2, <1>3, <1>4
LEMMA UriEndsArePairs ==
    ASSUME NEW s \in Seq(Chars), NEW p \in UriEnds(s)
    PROVE  \E i, j \in Nat : p = <<i, j>>
<1> DEFINE D == DOMAIN s
<1>1. UriEnds(s) \subseteq D \X D
  BY DEF UriEnds
<1>2. D \subseteq Nat
  OBVIOUS
<1> HIDE DEF D
<1>3. p \in D \X D
  BY <1>1
<1>4. \E i, j \in D : p = <<i, j>>
  BY <1>3
<1> QED
  BY <1>2, <1>4

LEMMA RequestIs ==
    ASSUME NEW s \in Seq(Chars)
    PROVE  IsRequest(s) <=> \E i, j, e \in Nat : Whole(s, i, j, e)
<1> DEFINE n == Len(s)
           ends == LineEnds(s)
           inner == ends \ {Min(ends), n - 1}
<1>0. n \in Nat /\ ends \in SUBSET Nat
  BY DEF LineEnds
<1>1. ASSUME IsRequest(s) PROVE \E i, j, e \in Nat : Whole(s, i, j, e)
  <2> DEFINE e == Min(ends)
  <2>1. /\ n > 1 /\ n - 1 \in ends /\ e # n - 1 /\ UriEnds(LineTo(s, e)) # {}
        /\ LineTo(s, n - 1) = <<>>
        /\ \A f \in inner : IsHeader(LineTo(s, f)) \/ IsContinuation(LineTo(s, f))
        /\ inner # {} => IsHeader(LineTo(s, Min(inner)))
    BY <1>1 DEF IsRequest
  <2>2. e \in ends /\ \A f \in ends : e <= f
    BY <1>0, <2>1, MinIsLeast
  <2>3. e \in Nat \ {0} /\ e < n
    BY <2>2, FirstLineIs
  <2>4. \A i, j \in Nat : <<i, j>> \in UriEnds(LineTo(s, e)) <=> RequestLineTo(s, i, j, e - 1)
    BY <2>2, FirstLineIs
  <2>5. PICK i, j \in Nat : <<i, j>> \in UriEnds(LineTo(s, e))
    <3>1. PICK p \in UriEnds(LineTo(s, e)) : TRUE
      BY <2>1
    <3>2. LineTo(s, e) \in Seq(Chars)
      BY <2>2, <2>3, FirstLineIs
    <3> QED
      BY <3>1, <3>2, UriEndsArePairs
  <2>6. RequestLineTo(s, i, j, e - 1)
    BY <2>4, <2>5
  <2> HIDE DEF e
  <2>7. LineEndAt(s, e) /\ LineEndAt(s, n - 1)
    BY <2>1, <2>2 DEF LineEnds, LineEndAt
  <2>8. s[n - 1] = "cr" /\ s[e + 1] = "lf" /\ s[n] = "lf"
    BY <1>0, <2>7 DEF LineEndAt
  <2>9. e + 1 # n - 1 /\ e <= n - 1
    BY <2>1, <2>2, <2>8
  <2>10. e + 2 <= n - 1
    BY <1>0, <2>1, <2>3, <2>9
  <2>11. LineEndAt(s, n - 3)
    <3> DEFINE before == {f \in ends : f < n - 1}
    <3>1. e \in before
      BY <2>2, <2>3, <2>10
    <3>2. PICK m \in before : \A f \in before : m >= f
      <4> DEFINE up == {n - f : f \in before}
      <4>1. up \in SUBSET Nat /\ up # {}
        <5>1. \A f \in before : n - f \in Nat
          BY <1>0
        <5> QED
          BY <3>1, <5>1
      <4>2. PICK x \in up : \A y \in up : x <= y
        BY <4>1, LeastExists
      <4>3. PICK m \in before : x = n - m
        BY <4>2
      <4>4. ASSUME NEW f \in before PROVE m >= f
        <5>1. n - m <= n - f
          BY <4>2, <4>3
        <5> QED
          BY <1>0, <5>1
      <4> QED
        BY <4>3, <4>4
    <3>3. Max(before) \in before /\ Max(before) >= e
      BY <3>1, <3>2 DEF Max
    <3> DEFINE x == Max(before) + 2
    <3>4. LineTo(s, n - 1) = SubSeq(s, x, (n - 1) - 1)
      BY <3>1 DEF LineTo
    <3>5. x \in Nat \ {0} /\ x - 2 \in ends /\ x - 2 < n - 1
      BY <1>0, <3>3
    <3> HIDE DEF x, before
    <3>6. ~(x <= (n - 1) - 1)
      <4>1. (n - 1) - 1 \in 0 .. Len(s)
        BY <1>0, <2>1
      <4> QED
        BY <2>1, <3>4, <3>5, <4>1, NotEmpty
    <3>7. x - 2 # n - 2
      <4>1. s[x - 2 + 1] = "lf"
        BY <3>5 DEF LineEnds
      <4>2. x - 2 = n - 2 => x - 2 + 1 = n - 1
        BY <1>0, <3>5
      <4> QED
        BY <2>8, <4>1, <4>2
    <3>8. x - 2 = n - 3
      BY <1>0, <3>5, <3>6, <3>7
    <3> QED
      BY <3>5, <3>8 DEF LineEnds, LineEndAt
  <2>12. ASSUME NEW f \in ends, e < f, f < n - 1 PROVE GoodLine(s, e, f)
    <3>1. f \in inner /\ inner \in SUBSET Nat
      BY <1>0, <2>3, <2>12 DEF e
    <3>2. Min(inner) \in inner /\ Min(inner) <= f
      BY <3>1, MinIsLeast
    <3>3. CASE f = Min(inner)
      BY <2>1, <3>1, <3>3 DEF GoodLine
    <3>4. CASE Min(inner) < f
      <4>1. Min(inner) \in ends /\ e <= Min(inner) /\ Min(inner) # e
        BY <2>2, <3>2 DEF e
      <4>2. e < Min(inner)
        BY <1>0, <2>3, <4>1
      <4>3. IsHeader(LineTo(s, f)) \/ IsContinuation(LineTo(s, f))
        BY <2>1, <3>1
      <4> QED
        BY <3>4, <4>1, <4>2, <4>3 DEF GoodLine
    <3> QED
      BY <1>0, <3>1, <3>2, <3>3, <3>4
  <2>13. (n - 1) - 1 <= n /\ (n - 1) - 2 = n - 3 /\ e \in Nat
    BY <1>0, <2>3
  <2>14. Lines(s, i, j, e, n - 1)
    BY <2>6, <2>7, <2>10, <2>11, <2>12, <2>13 DEF Lines
  <2> QED
    BY <2>7, <2>13, <2>14 DEF Whole
<1>2. ASSUME NEW i \in Nat, NEW j \in Nat, NEW e \in Nat, Whole(s, i, j, e) PROVE IsRequest(s)
  <2>1. /\ RequestLineTo(s, i, j, e - 1) /\ e + 2 <= n - 1 /\ (n - 1) - 1 <= n
        /\ LineEndAt(s, e) /\ LineEndAt(s, (n - 1) - 2) /\ LineEndAt(s, n - 1)
        /\ \A f \in ends : e < f /\ f < n - 1 => GoodLine(s, e, f)
    BY <1>2 DEF Whole, Lines
  <2>2. e - 1 \in Int /\ j + 7 < e - 1
    BY <2>1, RequestLineBounds
  <2>3. /\ 1 <= e /\ e + 1 <= n /\ n - 1 \in Nat /\ 1 <= n - 1 /\ (n - 1) + 1 <= n
        /\ e # n - 1 /\ n > 1 /\ 3 <= n - 1 /\ n - 1 \in n - 1 .. n
    BY <1>0, <2>1, <2>2
  <2>4. e \in ends /\ n - 1 \in ends
    BY <2>1, <2>3, LineEndsAre
  <2>5. ASSUME NEW f \in ends PROVE e <= f
    <3>1. f \in Nat \ {0} /\ s[f] = "cr"
      BY DEF LineEnds
    <3>2. f \notin 1 .. e - 1
      BY <2>1, <2>2, <3>1, RequestLineHasNoEnd
    <3> QED
      BY <3>1, <3>2
  <2>6. Min(ends) = e /\ UriEnds(LineTo(s, e)) # {}
    <3>1. <<i, j>> \in UriEnds(LineTo(s, e))
      BY <2>1, <2>4, <2>5, FirstLineIs
    <3> QED
      BY <2>4, <2>5, <3>1, FirstLineIs
  <2>7. LineTo(s, n - 1) = <<>>
    <3>1. LineTo(s, n - 1) = SubSeq(s, n - 1, (n - 1) - 1)
      <4>1. \A x \in n - 1 .. (n - 1) - 1 : x \notin LineEnds(s)
        BY <1>0
      <4> QED
        BY <2>1, <2>3, <4>1, LineFrom
    <3>2. (n - 1) - 1 < n - 1 /\ n - 1 \in Int /\ (n - 1) - 1 \in Int
      BY <1>0
    <3> QED
      BY <3>1, <3>2, SubSeqEmpty
  <2>8. ASSUME NEW f \in inner
        PROVE  GoodLine(s, e, f) /\ f \in Nat /\ e < f /\ f < n - 1
    <3>1. f \in ends /\ f # e /\ f # n - 1 /\ f \in 1 .. n - 1 /\ e <= f
      BY <2>5, <2>6 DEF LineEnds
    <3>2. e < f /\ f < n - 1 /\ f \in Nat
      BY <1>0, <3>1
    <3> QED
      BY <2>1, <3>1, <3>2
  <2>9. ASSUME inner # {} PROVE IsHeader(LineTo(s, Min(inner)))
    <3>1. Min(inner) \in inner /\ \A f \in inner : Min(inner) <= f
      <4>1. inner \in SUBSET Nat
        BY <1>0
      <4> QED
        BY <2>9, <4>1, MinIsLeast
    <3>2. GoodLine(s, e, Min(inner)) /\ Min(inner) < n - 1 /\ Min(inner) \in Nat
      BY <2>8, <3>1
    <3>3. ASSUME NEW g \in ends, e < g, g < Min(inner) PROVE FALSE
      <4>1. g \in inner
        BY <1>0, <2>6, <3>2, <3>3
      <4>2. Min(inner) <= g /\ g \in Nat
        BY <1>0, <3>1, <4>1
      <4> HIDE DEF inner
      <4> QED
        BY <3>2, <3>3, <4>2
    <3> QED
      BY <3>2, <3>3 DEF GoodLine
  <2> QED
    BY <2>3, <2>4, <2>6, <2>7, <2>8, <2>9 DEF IsRequest, GoodLine
<1> QED
  BY <1>1, <1>2

LEMMA UriIs ==
    ASSUME NEW s \in Seq(Chars), NEW i \in Nat, NEW j \in Nat, NEW e \in Nat, Whole(s, i, j, e)
    PROVE  UriOf(s) = SubSeq(s, i + 1, j - 1)
<1> DEFINE line == LineTo(s, Min(LineEnds(s)))
           found == CHOOSE x \in UriEnds(line) : TRUE
<1>1. /\ RequestLineTo(s, i, j, e - 1) /\ LineEndAt(s, e) /\ e + 2 <= Len(s) - 1
  BY DEF Whole, Lines
<1>2. e - 1 \in Int /\ j + 7 < e - 1 /\ i < j /\ Len(s) \in Nat
  BY <1>1, RequestLineBounds
<1>3. e \in LineEnds(s)
  <2>1. 1 <= e /\ e + 1 <= Len(s)
    BY <1>1, <1>2
  <2> QED
    BY <1>1, <2>1, LineEndsAre
<1>4. ASSUME NEW f \in LineEnds(s) PROVE e <= f
  <2>1. f \in Nat \ {0} /\ s[f] = "cr"
    BY DEF LineEnds
  <2>2. f \notin 1 .. e - 1
    BY <1>1, <1>2, <2>1, RequestLineHasNoEnd
  <2> QED
    BY <2>1, <2>2
<1>5. line = SubSeq(s, 1, e - 1)
  BY <1>3, <1>4, FirstLineIs
<1>6. \A x, y \in Nat : <<x, y>> \in UriEnds(line) <=> RequestLineTo(s, x, y, e - 1)
  BY <1>3, <1>4, FirstLineIs
<1> HIDE DEF line
<1>7. line \in Seq(Chars)
  <2>1. e - 1 \in 0 .. Len(s)
    BY <1>1, <1>2
  <2> QED
    BY <1>5, <2>1
<1>8. found \in UriEnds(line)
  BY <1>1, <1>6
<1>9. PICK x, y \in Nat : found = <<x, y>>
  <2> HIDE DEF found
  <2> QED
    BY <1>7, <1>8, UriEndsArePairs
<1>10. x = i /\ y = j
  <2>1. RequestLineTo(s, x, y, e - 1)
    BY <1>6, <1>8, <1>9
  <2> QED
    BY <1>1, <2>1, UriIsUnique DEF RequestLineTo
<1>11. UriOf(s) = SubSeq(line, found[1] + 1, found[2] - 1)
  BY DEF UriOf, line
<1>12. UriOf(s) = SubSeq(line, i + 1, j - 1)
  <2> HIDE DEF found
  <2> QED
    BY <1>9, <1>10, <1>11
<1>13. SubSeq(line, i + 1, j - 1) = SubSeq(s, i + 1, j - 1)
  BY <1>2, <1>1, <1>5
<1> QED
  BY <1>12, <1>13
\* The line of a request that begins at b: the empty one, or a header line.
LEMMA NextLine ==
    ASSUME NEW s \in Seq(Chars), NEW i \in Nat, NEW j \in Nat, NEW e \in Nat, Whole(s, i, j, e),
           NEW x \in Nat, NEW y \in Nat, NEW b \in Nat, b <= Len(s), Lines(s, x, y, e, b)
    PROVE  \/ b = Len(s) - 1
           \/ \E f \in Nat : f < Len(s) - 1 /\ LineEndAt(s, f) /\ GoodTo(s, e, b, f - 1)
<1> DEFINE n == Len(s)
<1>1. /\ RequestLineTo(s, i, j, e - 1) /\ e + 2 <= n - 1
      /\ LineEndAt(s, e) /\ LineEndAt(s, (n - 1) - 2) /\ LineEndAt(s, n - 1)
      /\ \A f \in LineEnds(s) : e < f /\ f < n - 1 => GoodLine(s, e, f)
  BY DEF Whole, Lines
<1>2. e + 2 <= b /\ LineEndAt(s, b - 2)
  BY DEF Lines
<1>3. e >= 1 /\ n \in Nat
  <2>1. e - 1 \in Int /\ j + 7 < e - 1
    BY <1>1, RequestLineBounds
  <2> QED
    BY <2>1
<1>4. s[n - 1] = "cr" /\ s[b - 1] = "lf" /\ s[n - 2] = "lf"
  <2>1. (b - 2) + 1 = b - 1 /\ ((n - 1) - 2) + 1 = n - 2
    BY <1>3
  <2> QED
    BY <1>1, <1>2, <2>1 DEF LineEndAt
<1>5. b - 1 # n - 1
  BY <1>4
<1>6. b <= n - 1 /\ b \in Nat \ {0} /\ n - 1 \in Nat
  BY <1>1, <1>2, <1>3, <1>5
<1> DEFINE next == {f \in LineEnds(s) : b <= f}
<1>7. next \in SUBSET Nat /\ n - 1 \in next
  <2>1. n - 1 \in Nat /\ 1 <= n - 1 /\ (n - 1) + 1 <= n
    BY <1>3, <1>6
  <2>2. n - 1 \in LineEnds(s)
    BY <1>1, <2>1, LineEndsAre
  <2>3. LineEnds(s) \subseteq Nat
    BY DEF LineEnds
  <2> QED
    BY <1>6, <2>2, <2>3
<1>8. PICK f \in next : \A g \in next : f <= g
  BY <1>7, LeastExists
<1>9. f \in Nat /\ b <= f /\ f <= n - 1 /\ f \in LineEnds(s)
  BY <1>7, <1>8
<1>10. \A g \in b .. f - 1 : g \notin LineEnds(s)
  BY <1>6, <1>8, <1>9
<1> HIDE DEF next
<1>11. CASE f = n - 1
  <2>1. LineEndAt(s, n - 3)
    BY <1>1, <1>3
  <2>2. n - 3 \in LineEnds(s)
    <3>1. n - 3 \in Nat /\ 1 <= n - 3 /\ (n - 3) + 1 <= n
      BY <1>1, <1>3
    <3> QED
      BY <2>1, <3>1, LineEndsAre
  <2>3. n - 3 \notin b .. f - 1
    BY <1>10, <2>2
  <2>4. n - 3 < b
    BY <1>3, <1>11, <2>3
  <2>5. s[n - 3] = "cr"
    BY <2>1 DEF LineEndAt
  <2>6. b - 1 # n - 3
    BY <1>4, <2>5
  <2>7. b = n - 1
    BY <1>3, <1>6, <2>4, <2>6
  <2> QED
    BY <2>7
<1>12. CASE f < n - 1
  <2>1. e < f /\ f \in b .. Len(s) /\ 3 <= b
    BY <1>2, <1>3, <1>9, <1>12
  <2>2. GoodLine(s, e, f)
    BY <1>1, <1>9, <1>12, <2>1
  <2>3. LineTo(s, f) = SubSeq(s, b, f - 1)
    BY <1>2, <1>10, <2>1, LineFrom
  <2>4. b <= f - 1
    <3>1. ASSUME f - 1 < b PROVE FALSE
      <4>1. f - 1 \in Int /\ b \in Int
        BY <1>9
      <4>2. LineTo(s, f) = <<>>
        BY <2>3, <3>1, <4>1, SubSeqEmpty
      <4>3. ~IsHeader(<<>>) /\ ~IsContinuation(<<>>)
        BY DEF IsHeader, IsContinuation
      <4> QED
        BY <2>2, <4>2, <4>3 DEF GoodLine
    <3> QED
      BY <1>6, <1>9, <3>1
  <2>5. f - 1 \in 0 .. Len(s)
    BY <1>9, <1>12, <2>4
  <2>6. CASE IsHeader(LineTo(s, f))
    <3>1. ValueTo(s, b, f - 1)
      BY <1>6, <2>3, <2>4, <2>5, <2>6, HeaderIs
    <3> QED
      BY <1>9, <1>12, <3>1 DEF GoodTo, LineEnds, LineEndAt
  <2>7. CASE IsContinuation(LineTo(s, f)) /\ \E g \in LineEnds(s) : e < g /\ g < f
    <3>1. ContTo(s, b, f - 1)
      BY <1>6, <2>3, <2>4, <2>5, <2>7, HeaderIs
    <3>2. PICK g \in LineEnds(s) : e < g /\ g < f
      BY <2>7
    <3>3. g \notin b .. f - 1 /\ s[g] = "cr" /\ g \in Nat
      BY <1>10 DEF LineEnds
    <3>4. g # b - 1
      BY <1>4, <3>3
    <3>5. e + 2 < b
      BY <1>6, <1>9, <3>2, <3>3, <3>4
    <3> QED
      BY <1>9, <1>12, <3>1, <3>5 DEF GoodTo, LineEnds, LineEndAt
  <2> QED
    BY <2>2, <2>6, <2>7 DEF GoodLine
<1> QED
  BY <1>9, <1>11, <1>12

LEMMA RowAccepts ==
    ASSUME NEW p, NEW c, NEW chars, NEW to, On(p.state, chars, to) \in Rows, c \in chars,
           p.state = "header_line_start" /\ to = "header_lws" => p.headers
    PROVE  \E r \in Rows : Accepts(p, c, r)
<1>1. Accepts(p, c, On(p.state, chars, to))
  BY DEF Accepts, On
<1> QED
  BY <1>1
\* Inside the request line of a request the table has a row for what comes.
LEMMA RequestLineGoesOn ==
    ASSUME NEW s, NEW i \in Nat, NEW j \in Nat, NEW e \in Nat,
           RequestLineTo(s, i, j, e - 1), LineEndAt(s, e),
           NEW k \in Nat, NEW p, Fits(p, s, k),
           p.state \in {"method_start", "method", "uri"} \cup VersionStates
    PROVE  \E r \in Rows : Accepts(p, s[k + 1], r)
<1>0. /\ 2 <= i /\ i < j /\ j + 7 < e - 1 /\ e - 1 \in Int
  BY RequestLineBounds
<1>1. /\ VersionAt(s, i, j) /\ s[i] = " " /\ s[j] = " "
      /\ Among(s, 1, i - 1, Token) /\ Among(s, i + 1, j - 1, Text \ {" "})
  BY DEF RequestLineTo, VersionAt, UriTo, MethodTo
<1>2. s[e] = "cr" /\ s[e + 1] = "lf"
  BY DEF LineEndAt
<1>3. \A chars, to : /\ On(p.state, chars, to) \in RequestLineRows
                     /\ p.state # "header_line_start" /\ s[k + 1] \in chars
                     => \E r \in Rows : Accepts(p, s[k + 1], r)
  BY RowAccepts DEF Rows
<1>4. p.state # "header_line_start"
  BY StatesAre DEF HeaderStates
<1>5. CASE p.state = "method_start"
  <2>1. k = 0
    BY <1>5 DEF Fits
  <2>2. k + 1 \in 1 .. i - 1
    BY <1>0, <2>1
  <2>3. s[k + 1] \in Token
    BY <1>1, <2>2 DEF Among
  <2>4. On("method_start", Token, "method") \in RequestLineRows
    BY DEF RequestLineRows
  <2> QED
    BY <1>3, <1>4, <1>5, <2>3, <2>4
<1>6. CASE p.state = "method"
  <2>1. k >= 1 /\ Among(s, 1, k, Token)
    BY <1>6 DEF Fits, MethodTo
  <2>2. i \notin 1 .. k
    BY <1>1, <2>1, NoLineEnd DEF Among
  <2>3. k + 1 = i \/ k + 1 \in 1 .. i - 1
    BY <1>0, <2>2
  <2>4. s[k + 1] \in {" "} \/ s[k + 1] \in Token
    BY <1>1, <2>3 DEF Among
  <2>5. On("method", Token, "method") \in RequestLineRows /\ On("method", {" "}, "uri") \in RequestLineRows
    BY DEF RequestLineRows
  <2> QED
    BY <1>3, <1>4, <1>6, <2>4, <2>5
<1>7. CASE p.state = "uri"
  <2>1. PICK a \in Nat : UriTo(s, a, k)
    BY <1>7 DEF Fits
  <2>2. a <= k /\ s[a] = " " /\ a - 1 >= 1 /\ Among(s, 1, a - 1, Token) /\ Among(s, a + 1, k, Text \ {" "})
    BY <2>1 DEF UriTo, MethodTo
  <2>3. i \notin 1 .. a - 1 /\ a \notin 1 .. i - 1
    BY <1>1, <2>2, NoLineEnd DEF Among
  <2>9. a - 1 >= 1 /\ a <= k
    BY <2>2
  <2>4. a = i
    BY <1>0, <2>3, <2>9
  <2>5. j \notin i + 1 .. k
    BY <1>1, <2>2, <2>4 DEF Among
  <2>6. k + 1 = j \/ k + 1 \in i + 1 .. j - 1
    BY <1>0, <2>4, <2>5, <2>9
  <2>7. s[k + 1] \in {" "} \/ s[k + 1] \in Text \ {" "}
    BY <1>1, <2>6 DEF Among
  <2>8. On("uri", Text \ {" "}, "uri") \in RequestLineRows /\ On("uri", {" "}, "http_version_h") \in RequestLineRows
    BY DEF RequestLineRows
  <2> QED
    BY <1>3, <1>4, <1>7, <2>7, <2>8
<1>8. CASE p.state \in VersionStates
  <2>1. PICK x, y \in Nat : VersionAt(s, x, y) /\ FitsVersion(p.state, s, y, k)
    BY <1>8 DEF Fits
  <2>2. y = j
    BY <1>1, <2>1, UriIsUnique
  <2>3. FitsVersion(p.state, s, j, k)
    BY <2>1, <2>2
  <2>4. PICK d \in Nat : MinorTo(s, j, d, e - 1)
    BY DEF RequestLineTo
  <2>5. /\ s[d] = "." /\ Http(s, j) /\ Among(s, j + 6, d - 1, Digits) /\ Among(s, d + 1, e - 1, Digits)
        /\ d < e - 1 /\ d - 1 >= j + 6
    BY <2>4 DEF MinorTo, MajorTo
  <2>6. d < e - 1 /\ d - 1 >= j + 6 /\ j + 6 \in j + 6 .. d - 1 /\ d + 1 \in d + 1 .. e - 1
    BY <2>5
  <2>7. \A c \in Digits : c # "." /\ c # "cr"
    BY DEF Digits
  \* The dot is where it is.
  <2>8. ASSUME NEW z \in Nat, MajorTo(s, j, z - 1), s[z] = "." PROVE z = d
    <3>1. z - 1 >= j + 6 /\ Among(s, j + 6, z - 1, Digits)
      BY <2>8 DEF MajorTo
    <3>2. d \notin j + 6 .. z - 1 /\ z \notin j + 6 .. d - 1
      BY <2>5, <2>7, <2>8, <3>1 DEF Among
    <3>3. z - 1 >= j + 6
      BY <3>1
    <3> QED
      BY <2>6, <3>2, <3>3
  <2>9. CASE p.state = "http_version_h"
    <3>1. k = j /\ s[k + 1] \in {"H"}
      BY <2>3, <2>5, <2>9 DEF FitsVersion, Http
    <3>2. On("http_version_h", {"H"}, "http_version_t_1") \in RequestLineRows
      BY DEF RequestLineRows
    <3> QED
      BY <1>3, <1>4, <2>9, <3>1, <3>2
  <2>10. CASE p.state = "http_version_t_1"
    <3>1. k = j + 1
      BY <2>3, <2>10 DEF FitsVersion
    <3>2. k + 1 = j + 2
      BY <3>1
    <3>3. s[k + 1] \in {"T"}
      BY <2>5, <3>2 DEF Http
    <3>4. On("http_version_t_1", {"T"}, "http_version_t_2") \in RequestLineRows
      BY DEF RequestLineRows
    <3> QED
      BY <1>3, <1>4, <2>10, <3>3, <3>4
  <2>11. CASE p.state = "http_version_t_2"
    <3>1. k = j + 2
      BY <2>3, <2>11 DEF FitsVersion
    <3>2. k + 1 = j + 3
      BY <3>1
    <3>3. s[k + 1] \in {"T"}
      BY <2>5, <3>2 DEF Http
    <3>4. On("http_version_t_2", {"T"}, "http_version_p") \in RequestLineRows
      BY DEF RequestLineRows
    <3> QED
      BY <1>3, <1>4, <2>11, <3>3, <3>4
  <2>12. CASE p.state = "http_version_p"
    <3>1. k = j + 3
      BY <2>3, <2>12 DEF FitsVersion
    <3>2. k + 1 = j + 4
      BY <3>1
    <3>3. s[k + 1] \in {"P"}
      BY <2>5, <3>2 DEF Http
    <3>4. On("http_version_p", {"P"}, "http_version_slash") \in RequestLineRows
      BY DEF RequestLineRows
    <3> QED
      BY <1>3, <1>4, <2>12, <3>3, <3>4
  <2>13. CASE p.state = "http_version_slash"
    <3>1. k = j + 4
      BY <2>3, <2>13 DEF FitsVersion
    <3>2. k + 1 = j + 5
      BY <3>1
    <3>3. s[k + 1] \in {"/"}
      BY <2>5, <3>2 DEF Http
    <3>4. On("http_version_slash", {"/"}, "http_version_major_start") \in RequestLineRows
      BY DEF RequestLineRows
    <3> QED
      BY <1>3, <1>4, <2>13, <3>3, <3>4
  <2>14. CASE p.state = "http_version_major_start"
    <3>1. k = j + 5
      BY <2>3, <2>14 DEF FitsVersion
    <3>2. k + 1 \in j + 6 .. d - 1
      BY <2>6, <3>1
    <3>3. s[k + 1] \in Digits
      BY <2>5, <3>2 DEF Among
    <3>4. On("http_version_major_start", Digits, "http_version_major") \in RequestLineRows
      BY DEF RequestLineRows
    <3> QED
      BY <1>3, <1>4, <2>14, <3>3, <3>4
  <2>15. CASE p.state = "http_version_major"
    <3>1. k >= j + 6 /\ Among(s, j + 6, k, Digits)
      BY <2>3, <2>15 DEF FitsVersion, MajorTo
    <3>2. d \notin j + 6 .. k
      BY <2>5, <2>7, <3>1 DEF Among
    <3>3. k >= j + 6
      BY <3>1
    <3>4. k + 1 = d \/ k + 1 \in j + 6 .. d - 1
      BY <2>6, <3>2, <3>3
    <3>5. s[k + 1] \in {"."} \/ s[k + 1] \in Digits
      BY <2>5, <3>4 DEF Among
    <3>6. /\ On("http_version_major", Digits, "http_version_major") \in RequestLineRows
          /\ On("http_version_major", {"."}, "http_version_minor_start") \in RequestLineRows
      BY DEF RequestLineRows
    <3> QED
      BY <1>3, <1>4, <2>15, <3>5, <3>6
  <2>16. CASE p.state = "http_version_minor_start"
    <3>1. s[k] = "." /\ MajorTo(s, j, k - 1)
      BY <2>3, <2>16 DEF FitsVersion
    <3>2. k = d
      BY <2>8, <3>1
    <3>3. s[k + 1] \in Digits
      BY <2>5, <2>6, <3>2 DEF Among
    <3>4. On("http_version_minor_start", Digits, "http_version_minor") \in RequestLineRows
      BY DEF RequestLineRows
    <3> QED
      BY <1>3, <1>4, <2>16, <3>3, <3>4
  <2>17. CASE p.state = "http_version_minor"
    <3>1. PICK z \in Nat : MinorTo(s, j, z, k)
      BY <2>3, <2>17 DEF FitsVersion
    <3>2. z = d
      BY <2>8, <3>1 DEF MinorTo
    <3>3. d < k /\ Among(s, d + 1, k, Digits)
      BY <3>1, <3>2 DEF MinorTo
    <3>4. e \notin d + 1 .. k
      BY <1>2, <2>7, <3>3 DEF Among
    <3>5. d < k
      BY <3>3
    <3>6. k + 1 = e \/ k + 1 \in d + 1 .. e - 1
      BY <2>6, <3>4, <3>5
    <3>7. s[k + 1] \in {"cr"} \/ s[k + 1] \in Digits
      BY <1>2, <2>5, <3>6 DEF Among
    <3>8. /\ On("http_version_minor", Digits, "http_version_minor") \in RequestLineRows
          /\ On("http_version_minor", {"cr"}, "expecting_newline_1") \in RequestLineRows
      BY DEF RequestLineRows
    <3> QED
      BY <1>3, <1>4, <2>17, <3>7, <3>8
  <2>18. CASE p.state = "expecting_newline_1"
    <3>1. s[k] = "cr" /\ \E z \in Nat : MinorTo(s, j, z, k - 1)
      BY <2>3, <2>18 DEF FitsVersion
    <3>2. PICK z \in Nat : MinorTo(s, j, z, k - 1)
      BY <3>1
    <3>3. z = d
      BY <2>8, <3>2 DEF MinorTo
    <3>4. d < k - 1 /\ Among(s, d + 1, k - 1, Digits)
      BY <3>2, <3>3 DEF MinorTo
    <3>5. e \notin d + 1 .. k - 1 /\ k \notin d + 1 .. e - 1
      BY <1>2, <2>5, <2>7, <3>1, <3>4 DEF Among
    <3>6. d < k - 1
      BY <3>4
    <3>7. k = e
      BY <2>6, <3>5, <3>6
    <3>8. On("expecting_newline_1", {"lf"}, "header_line_start") \in RequestLineRows
      BY DEF RequestLineRows
    <3> QED
      BY <1>2, <1>3, <1>4, <2>18, <3>7, <3>8
  <2> QED
    BY <1>8, <2>9, <2>10, <2>11, <2>12, <2>13, <2>14, <2>15, <2>16, <2>17, <2>18 DEF VersionStates
<1> QED
  BY <1>5, <1>6, <1>7, <1>8
\* Inside a header line that goes on to f the table has a row for what comes.
LEMMA HeaderLineGoesOn ==
    ASSUME NEW s, NEW e \in Nat, NEW b \in Nat, NEW f \in Nat, LineEndAt(s, f),
           GoodTo(s, e, b, f - 1), NEW k \in Nat, NEW p, p.state \in HeaderStates,
           FitsHeader(p, s, e, b, k)
    PROVE  \E r \in Rows : Accepts(p, s[k + 1], r)
<1>1. b <= f - 1 /\ \A x \in b .. f - 1 : s[x] # "cr" /\ s[x] # "lf"
  BY GoodHasNoEnd
<1>2. s[f] = "cr" /\ s[f + 1] = "lf"
  BY DEF LineEndAt
<1>3. \A chars, to : /\ On(p.state, chars, to) \in HeaderRows /\ s[k + 1] \in chars
                     /\ p.state = "header_line_start" /\ to = "header_lws" => p.headers
                     => \E r \in Rows : Accepts(p, s[k + 1], r)
  BY RowAccepts DEF Rows
<1>4. b <= f - 1 /\ b \in b .. f - 1 /\ f - 1 \in Int
  BY <1>1
<1>5. \A c \in Token : c \in Text /\ c \notin Blanks
  BY DEF Token, Text, Blanks, Tspecials
<1>6. ":" \in Text /\ " " \in Text /\ ":" \notin Blanks
  BY DEF Text, Chars, Tspecials, Ctl, Blanks
\* Either line: what it begins with, and what it goes on with.
<1>7. CASE ValueTo(s, b, f - 1)
  <2>1. PICK c \in Nat : /\ b < c /\ c < f - 1 /\ s[c] = ":" /\ s[c + 1] = " "
                         /\ Among(s, b, c - 1, Token) /\ Among(s, c + 2, f - 1, Text)
    BY <1>7 DEF ValueTo
  <2>2. b < c /\ c < f - 1
    BY <2>1
  <2>3. b \in b .. c - 1 /\ \A x \in b .. f - 1 : x \in b .. c - 1 \/ x = c \/ x = c + 1 \/ x \in c + 2 .. f - 1
    BY <2>2
  <2>4. s[b] \in Token
    BY <2>1, <2>3 DEF Among
  <2>5. \A x \in b .. f - 1 : s[x] \in Text
    BY <1>5, <1>6, <2>1, <2>3, NoLineEnd DEF Among
  <2>6. CASE p.state = "header_line_start"
    <3>1. b = k + 1
      BY <2>6 DEF FitsHeader
    <3>2. On("header_line_start", Token, "header_name") \in HeaderRows
      BY DEF HeaderRows
    <3> QED
      BY <1>3, <2>4, <2>6, <3>1, <3>2
  <2>7. CASE p.state = "header_name"
    <3>1. b <= k /\ Among(s, b, k, Token)
      BY <2>7 DEF FitsHeader
    <3>2. c \notin b .. k
      BY <2>1, <3>1, NoLineEnd DEF Among
    <3>3. b <= k
      BY <3>1
    <3>4. k + 1 = c \/ k + 1 \in b .. c - 1
      BY <2>2, <3>2, <3>3
    <3>5. s[k + 1] \in {":"} \/ s[k + 1] \in Token
      BY <2>1, <3>4 DEF Among
    <3>6. /\ On("header_name", Token, "header_name") \in HeaderRows
          /\ On("header_name", {":"}, "space_before_header_value") \in HeaderRows
      BY DEF HeaderRows
    <3> QED
      BY <1>3, <2>7, <3>5, <3>6
  <2>8. CASE p.state = "space_before_header_value"
    <3>1. b < k /\ s[k] = ":" /\ Among(s, b, k - 1, Token)
      BY <2>8 DEF FitsHeader
    <3>2. c \notin b .. k - 1 /\ k \notin b .. c - 1
      BY <2>1, <3>1, NoLineEnd DEF Among
    <3>3. b < k
      BY <3>1
    <3>4. k = c
      BY <2>2, <3>2, <3>3
    <3>5. On("space_before_header_value", {" "}, "header_value") \in HeaderRows
      BY DEF HeaderRows
    <3> QED
      BY <1>3, <2>1, <2>8, <3>4, <3>5
  <2>9. CASE p.state = "header_value"
    <3>1. GoodTo(s, e, b, k)
      BY <2>9 DEF FitsHeader
    <3>2. b <= k /\ \A x \in b .. k : s[x] # "cr"
      BY <3>1, GoodHasNoEnd
    <3>3. f \notin b .. k
      BY <1>2, <3>2
    <3>4. k + 1 = f \/ k + 1 \in b .. f - 1
      BY <1>4, <3>2, <3>3
    <3>5. s[k + 1] \in {"cr"} \/ s[k + 1] \in Text
      BY <1>2, <2>5, <3>4
    <3>6. /\ On("header_value", Text, "header_value") \in HeaderRows
          /\ On("header_value", {"cr"}, "expecting_newline_2") \in HeaderRows
      BY DEF HeaderRows
    <3> QED
      BY <1>3, <2>9, <3>5, <3>6
  <2>10. p.state # "header_lws"
    <3>1. ASSUME p.state = "header_lws" PROVE FALSE
      <4>1. b <= k /\ Among(s, b, k, Blanks)
        BY <3>1 DEF FitsHeader
      <4>2. b \in b .. k
        BY <4>1
      <4> QED
        BY <1>5, <2>4, <4>1, <4>2 DEF Among
    <3> QED
      BY <3>1
  <2>11. CASE p.state = "expecting_newline_2"
    <3>1. s[k] = "cr" /\ GoodTo(s, e, b, k - 1)
      BY <2>11 DEF FitsHeader
    <3>2. b <= k - 1 /\ \A x \in b .. k - 1 : s[x] # "cr"
      BY <3>1, GoodHasNoEnd
    <3>3. f \notin b .. k - 1 /\ k \notin b .. f - 1
      BY <1>1, <1>2, <3>1, <3>2
    <3>4. k = f
      BY <1>4, <3>2, <3>3
    <3>5. On("expecting_newline_2", {"lf"}, "header_line_start") \in HeaderRows
      BY DEF HeaderRows
    <3> QED
      BY <1>2, <1>3, <2>11, <3>4, <3>5
  <2>12. p.state # "expecting_newline_3"
    BY <1>1, <1>4 DEF FitsHeader
  <2> QED
    BY <2>6, <2>7, <2>8, <2>9, <2>10, <2>11, <2>12 DEF HeaderStates
<1>8. CASE e + 2 < b /\ ContTo(s, b, f - 1)
  <2>1. PICK n \in Nat : /\ b <= n /\ n <= f - 1
                         /\ Among(s, b, n, Blanks) /\ Among(s, n + 1, f - 1, Text)
    BY <1>8 DEF ContTo
  <2>2. b <= n /\ n <= f - 1
    BY <2>1
  <2>3. b \in b .. n /\ \A x \in b .. f - 1 : x \in b .. n \/ x \in n + 1 .. f - 1
    BY <2>2
  <2>4. s[b] \in Blanks
    BY <2>1, <2>3 DEF Among
  <2>5. \A x \in b .. f - 1 : s[x] \in Blanks \/ s[x] \in Text
    BY <2>1, <2>3 DEF Among
  <2>6. CASE p.state = "header_line_start"
    <3>1. b = k + 1 /\ p.headers
      BY <1>8, <2>6 DEF FitsHeader
    <3>2. On("header_line_start", Blanks, "header_lws") \in HeaderRows
      BY DEF HeaderRows
    <3> QED
      BY <1>3, <2>4, <2>6, <3>1, <3>2
  <2>7. p.state \notin {"header_name", "space_before_header_value"}
    <3>1. ASSUME p.state \in {"header_name", "space_before_header_value"} PROVE FALSE
      <4>1. \/ b <= k /\ Among(s, b, k, Token)
            \/ b < k /\ Among(s, b, k - 1, Token)
        <5>1. p.state = "header_name" => b <= k /\ Among(s, b, k, Token)
          BY DEF FitsHeader
        <5>2. p.state = "space_before_header_value" => b < k /\ Among(s, b, k - 1, Token)
          BY DEF FitsHeader
        <5> QED
          BY <3>1, <5>1, <5>2
      <4>2. (b <= k => b \in b .. k) /\ (b < k => b \in b .. k - 1)
        OBVIOUS
      <4> QED
        BY <1>5, <2>4, <4>1, <4>2 DEF Among
    <3> QED
      BY <3>1
  <2>8. CASE p.state = "header_lws"
    <3>1. b <= k /\ Among(s, b, k, Blanks)
      BY <2>8 DEF FitsHeader
    <3>2. f \notin b .. k
      BY <1>2, <3>1, NoLineEnd DEF Among
    <3>3. b <= k
      BY <3>1
    <3>4. k + 1 = f \/ k + 1 \in b .. f - 1
      BY <1>4, <3>2, <3>3
    <3>5. s[k + 1] \in {"cr"} \/ s[k + 1] \in Blanks \/ s[k + 1] \in Text \ Blanks
      BY <1>2, <2>5, <3>4
    <3>6. /\ On("header_lws", {"cr"}, "expecting_newline_2") \in HeaderRows
          /\ On("header_lws", Blanks, "header_lws") \in HeaderRows
          /\ On("header_lws", Text \ Blanks, "header_value") \in HeaderRows
      BY DEF HeaderRows
    <3> QED
      BY <1>3, <2>8, <3>5, <3>6
  <2>9. CASE p.state = "header_value"
    <3>1. GoodTo(s, e, b, k) /\ \E x \in b .. k : s[x] \notin Blanks
      BY <2>9 DEF FitsHeader
    <3>2. b <= k /\ \A x \in b .. k : s[x] # "cr"
      BY <3>1, GoodHasNoEnd
    <3>3. f \notin b .. k
      BY <1>2, <3>2
    <3>4. PICK x \in b .. k : s[x] \notin Blanks
      BY <3>1
    <3>5. x \notin b .. n
      BY <2>1, <3>4 DEF Among
    <3>6. k + 1 = f \/ k + 1 \in n + 1 .. f - 1
      BY <1>4, <3>2, <3>3, <3>5
    <3>7. s[k + 1] \in {"cr"} \/ s[k + 1] \in Text
      BY <1>2, <2>1, <3>6 DEF Among
    <3>8. /\ On("header_value", Text, "header_value") \in HeaderRows
          /\ On("header_value", {"cr"}, "expecting_newline_2") \in HeaderRows
      BY DEF HeaderRows
    <3> QED
      BY <1>3, <2>9, <3>7, <3>8
  <2>11. CASE p.state = "expecting_newline_2"
    <3>1. s[k] = "cr" /\ GoodTo(s, e, b, k - 1)
      BY <2>11 DEF FitsHeader
    <3>2. b <= k - 1 /\ \A x \in b .. k - 1 : s[x] # "cr"
      BY <3>1, GoodHasNoEnd
    <3>3. f \notin b .. k - 1 /\ k \notin b .. f - 1
      BY <1>1, <1>2, <3>1, <3>2
    <3>4. k = f
      BY <1>4, <3>2, <3>3
    <3>5. On("expecting_newline_2", {"lf"}, "header_line_start") \in HeaderRows
      BY DEF HeaderRows
    <3> QED
      BY <1>2, <1>3, <2>11, <3>4, <3>5
  <2>12. p.state # "expecting_newline_3"
    BY <1>1, <1>4 DEF FitsHeader
  <2> QED
    BY <2>6, <2>7, <2>8, <2>9, <2>11, <2>12 DEF HeaderStates
<1> QED
  BY <1>7, <1>8 DEF GoodTo
LEMMA SameFirstLine ==
    ASSUME NEW s, NEW i \in Nat, NEW j \in Nat, NEW e \in Nat,
           RequestLineTo(s, i, j, e - 1), LineEndAt(s, e),
           NEW x \in Nat, NEW y \in Nat, NEW a \in Nat,
           RequestLineTo(s, x, y, a - 1), LineEndAt(s, a)
    PROVE  a = e
<1>1. e - 1 \in Int /\ a - 1 \in Int
  OBVIOUS
<1>2. j + 7 < e - 1 /\ y + 7 < a - 1
  BY <1>1, RequestLineBounds
<1>3. s[e] = "cr" /\ s[a] = "cr"
  BY DEF LineEndAt
<1>4. a \notin 1 .. e - 1 /\ e \notin 1 .. a - 1
  BY <1>1, <1>3, RequestLineHasNoEnd
<1> QED
  BY <1>2, <1>4

LEMMA EmptyLineGoesOn ==
    ASSUME NEW s, NEW e \in Nat, NEW b \in Nat, LineEndAt(s, b), NEW k \in Nat, NEW p,
           p.state \in HeaderStates, FitsHeader(p, s, e, b, k)
    PROVE  \E r \in Rows : Accepts(p, s[k + 1], r)
<1>1. s[b] = "cr" /\ s[b + 1] = "lf" /\ "cr" \notin Token /\ "cr" \notin Blanks
  BY NoLineEnd DEF LineEndAt
<1>2. ASSUME NEW x \in Int, NEW chars, b <= x, Among(s, b, x, chars) PROVE "cr" \in chars
  <2>1. b \in b .. x
    BY <1>2
  <2> QED
    BY <1>1, <1>2, <2>1 DEF Among
<1>3. ASSUME NEW x \in Int, GoodTo(s, e, b, x) PROVE FALSE
  <2>1. b <= x /\ \A z \in b .. x : s[z] # "cr"
    BY <1>3, GoodHasNoEnd
  <2>2. b \in b .. x
    BY <2>1
  <2> QED
    BY <1>1, <2>1, <2>2
<1>4. k - 1 \in Int /\ k \in Int /\ (b < k => b <= k - 1)
  OBVIOUS
<1>5. p.state # "header_name"
  BY <1>1, <1>2, <1>4 DEF FitsHeader
<1>6. p.state # "space_before_header_value"
  BY <1>1, <1>2, <1>4 DEF FitsHeader
<1>7. p.state # "header_value" /\ p.state # "expecting_newline_2"
  BY <1>3, <1>4 DEF FitsHeader
<1>8. p.state # "header_lws"
  BY <1>1, <1>2, <1>4 DEF FitsHeader
<1>9. CASE p.state = "header_line_start"
  <2>1. b = k + 1
    BY <1>9 DEF FitsHeader
  <2>2. On("header_line_start", {"cr"}, "expecting_newline_3") \in Rows
    BY DEF Rows, HeaderRows
  <2> QED
    BY <1>1, <1>9, <2>1, <2>2, RowAccepts
<1>10. CASE p.state = "expecting_newline_3"
  <2>1. b = k
    BY <1>10 DEF FitsHeader
  <2>2. On("expecting_newline_3", {"lf"}, "true") \in Rows
    BY DEF Rows, HeaderRows
  <2> QED
    BY <1>1, <1>10, <2>1, <2>2, RowAccepts
<1> QED
  BY <1>5, <1>6, <1>7, <1>8, <1>9, <1>10 DEF HeaderStates

\* Before its end a request is never refused.
LEMMA RequestGoesOn ==
    ASSUME NEW s \in Seq(Chars), NEW i \in Nat, NEW j \in Nat, NEW e \in Nat, Whole(s, i, j, e),
           NEW k \in 0 .. Len(s) - 1, NEW p, Fits(p, s, k), p.state \in ReadStates
    PROVE  \E r \in Rows : Accepts(p, s[k + 1], r)
<1>0. k \in Nat /\ Len(s) \in Nat /\ k + 1 <= Len(s)
  OBVIOUS
<1>1. RequestLineTo(s, i, j, e - 1) /\ LineEndAt(s, e) /\ LineEndAt(s, Len(s) - 1)
  BY DEF Whole, Lines
<1>2. CASE p.state \in {"method_start", "method", "uri"} \cup VersionStates
  BY <1>0, <1>1, <1>2, RequestLineGoesOn
<1>3. CASE p.state \in HeaderStates
  <2>1. PICK x, y, a, b \in Nat : Lines(s, x, y, a, b) /\ FitsHeader(p, s, a, b, k)
    BY <1>3 DEF Fits
  <2>2. a = e
    BY <1>1, <2>1, SameFirstLine DEF Lines
  <2>3. FitsHeader(p, s, e, b, k) /\ Lines(s, x, y, e, b)
    BY <2>1, <2>2
  <2>4. b <= k + 1
    <3>1. p.state = "header_line_start" => b = k + 1
      BY <2>3 DEF FitsHeader
    <3>2. p.state = "header_name" => b <= k
      BY <2>3 DEF FitsHeader
    <3>3. p.state = "space_before_header_value" => b < k
      BY <2>3 DEF FitsHeader
    <3>4. p.state = "header_value" => b <= k
      BY <1>0, <2>3, GoodHasNoEnd DEF FitsHeader
    <3>5. p.state = "header_lws" => b <= k
      BY <2>3 DEF FitsHeader
    <3>6. p.state = "expecting_newline_2" => b <= k - 1
      <4>1. k - 1 \in Int
        BY <1>0
      <4> QED
        BY <2>3, <4>1, GoodHasNoEnd DEF FitsHeader
    <3>7. p.state = "expecting_newline_3" => b = k
      BY <2>3 DEF FitsHeader
    <3>8. b = k + 1 \/ b <= k \/ b < k \/ b <= k - 1 \/ b = k
      BY <1>3, <3>1, <3>2, <3>3, <3>4, <3>5, <3>6, <3>7 DEF HeaderStates
    <3> QED
      BY <1>0, <3>8
  <2>5. b <= Len(s)
    BY <1>0, <2>4
  <2>6. CASE b = Len(s) - 1
    BY <1>0, <1>1, <1>3, <2>3, <2>6, EmptyLineGoesOn
  <2>7. CASE \E f \in Nat : f < Len(s) - 1 /\ LineEndAt(s, f) /\ GoodTo(s, e, b, f - 1)
    BY <1>0, <1>3, <2>3, <2>7, HeaderLineGoesOn
  <2> QED
    BY <2>3, <2>5, <2>6, <2>7, NextLine
<1> QED
  BY <1>2, <1>3 DEF ReadStates

\* Nor does it end earlier.
LEMMA RequestEndsOnce ==
    ASSUME NEW s \in Seq(Chars), NEW i \in Nat, NEW j \in Nat, NEW e \in Nat, Whole(s, i, j, e),
           NEW k \in 1 .. Len(s), NEW p, Ended(p, s, k)
    PROVE  k = Len(s)
<1>1. PICK x, y, a \in Nat : Lines(s, x, y, a, k - 1) /\ LineEndAt(s, k - 1)
  BY DEF Ended
<1>2. RequestLineTo(s, i, j, e - 1) /\ LineEndAt(s, e)
  BY DEF Whole, Lines
<1>3. a = e
  BY <1>1, <1>2, SameFirstLine DEF Lines
<1>4. k - 1 \in Nat /\ k - 1 <= Len(s) /\ Len(s) \in Nat
  OBVIOUS
<1>5. CASE k - 1 = Len(s) - 1
  BY <1>5, <1>4
<1>6. CASE \E f \in Nat : f < Len(s) - 1 /\ LineEndAt(s, f) /\ GoodTo(s, e, k - 1, f - 1)
  <2>1. PICK f \in Nat : GoodTo(s, e, k - 1, f - 1)
    BY <1>6
  <2>2. f - 1 \in Int
    OBVIOUS
  <2>3. k - 1 <= f - 1 /\ \A z \in k - 1 .. f - 1 : s[z] # "cr"
    BY <1>4, <2>1, <2>2, GoodHasNoEnd
  <2>4. k - 1 \in k - 1 .. f - 1
    BY <1>4, <2>3
  <2> QED
    BY <1>1, <2>3, <2>4 DEF LineEndAt
<1> QED
  BY <1>1, <1>3, <1>4, <1>5, <1>6, NextLine

\* At its end it has been recognised.
LEMMA RequestIsRead ==
    ASSUME NEW s \in Seq(Chars), NEW i \in Nat, NEW j \in Nat, NEW e \in Nat, Whole(s, i, j, e),
           NEW p, Fits(p, s, Len(s))
    PROVE  p.state \notin ReadStates
<1> DEFINE n == Len(s)
<1>1. /\ RequestLineTo(s, i, j, e - 1) /\ e + 2 <= n - 1 /\ LineEndAt(s, e)
      /\ LineEndAt(s, n - 1)
  BY DEF Whole, Lines
<1>2. n \in Nat /\ n > 1 /\ e - 1 \in Int
  BY <1>1
<1>3. s[n - 1] = "cr" /\ s[n] = "lf"
  BY <1>1, <1>2 DEF LineEndAt
<1>4. ASSUME NEW a \in Int, NEW chars, a <= n, Among(s, a, n, chars) PROVE "lf" \in chars
  <2>1. n \in a .. n
    BY <1>2, <1>4
  <2> QED
    BY <1>3, <1>4, <2>1 DEF Among
<1>5. "lf" \notin Token /\ "lf" \notin Text /\ "lf" \notin Digits /\ "lf" \notin Blanks
  BY NoLineEnd
<1> HIDE DEF n
<1>6. p.state # "method_start" /\ p.state # "method"
  BY <1>2, <1>4, <1>5 DEF Fits, MethodTo, n
<1>7. p.state # "uri"
  <2>1. ASSUME NEW a \in Nat, UriTo(s, a, n) PROVE FALSE
    <3>1. a <= n /\ s[a] = " " /\ Among(s, a + 1, n, Text \ {" "})
      BY <2>1 DEF UriTo
    <3>2. a # n
      BY <1>3, <3>1
    <3>4. a <= n
      BY <3>1
    <3>3. a + 1 <= n /\ a + 1 \in Int
      BY <1>2, <3>2, <3>4
    <3> QED
      BY <1>4, <1>5, <3>1, <3>3
  <2> QED
    BY <2>1 DEF Fits, n
<1>8. p.state \notin VersionStates
  <2> SUFFICES ASSUME p.state \in VersionStates PROVE FALSE
    OBVIOUS
  <2>1. PICK x, y \in Nat : VersionAt(s, x, y) /\ FitsVersion(p.state, s, y, n)
    BY DEF Fits, n
  <2>2. y = j /\ s[j] = " "
    BY <1>1, <2>1, UriIsUnique DEF RequestLineTo, VersionAt
  <2>3. FitsVersion(p.state, s, j, n)
    BY <2>1, <2>2
  <2>4. j + 7 < e - 1
    BY <1>1, <1>2, RequestLineBounds
  <2>5. n > j + 6
    BY <1>1, <1>2, <2>4
  <2>6. p.state = "http_version_minor" => FALSE
    <3> SUFFICES ASSUME NEW d \in Nat, MinorTo(s, j, d, n) PROVE FALSE
      BY <2>3 DEF FitsVersion
    <3>1. d < n /\ Among(s, d + 1, n, Digits)
      BY DEF MinorTo
    <3>2. d + 1 <= n /\ d + 1 \in Int
      BY <1>2, <3>1
    <3> QED
      BY <1>4, <1>5, <3>1, <3>2
  <2>7. p.state = "http_version_major" => FALSE
    <3> SUFFICES ASSUME MajorTo(s, j, n) PROVE FALSE
      BY <2>3 DEF FitsVersion
    <3>1. n >= j + 6 /\ Among(s, j + 6, n, Digits)
      BY DEF MajorTo
    <3>2. j + 6 <= n /\ j + 6 \in Int
      BY <1>2, <3>1
    <3> QED
      BY <1>4, <1>5, <3>1, <3>2
  <2>8. p.state \notin {"http_version_minor_start", "expecting_newline_1"}
    BY <1>3, <2>3 DEF FitsVersion
  <2>9. p.state \notin {"http_version_h", "http_version_t_1", "http_version_t_2", "http_version_p",
                        "http_version_slash", "http_version_major_start"}
    <3>1. n # j /\ n # j + 1 /\ n # j + 2 /\ n # j + 3 /\ n # j + 4 /\ n # j + 5
      BY <2>5, <1>2
    <3> QED
      BY <2>3, <3>1 DEF FitsVersion
  <2> QED
    BY <2>6, <2>7, <2>8, <2>9 DEF VersionStates
<1>9. p.state \notin HeaderStates
  <2> SUFFICES ASSUME p.state \in HeaderStates PROVE FALSE
    OBVIOUS
  <2>1. PICK x, y, a, b \in Nat : Lines(s, x, y, a, b) /\ FitsHeader(p, s, a, b, n)
    BY DEF Fits, n
  <2>2. a = e
    BY <1>1, <2>1, SameFirstLine DEF Lines
  <2>3. Lines(s, x, y, e, b) /\ FitsHeader(p, s, e, b, n)
    BY <2>1, <2>2
  <2>4. p.state # "header_line_start"
    <3> SUFFICES ASSUME b = n + 1 PROVE FALSE
      BY <2>3 DEF FitsHeader
    <3>1. \A f \in LineEnds(s) : e < f /\ f < n + 1 => GoodLine(s, e, f)
      BY <2>3 DEF Lines
    <3>2. n - 1 \in LineEnds(s) /\ e < n - 1 /\ n - 1 < n + 1
      <4>1. n - 1 \in Nat /\ 1 <= n - 1 /\ (n - 1) + 1 <= n /\ e < n - 1 /\ n - 1 < n + 1
        BY <1>1, <1>2
      <4> QED
        BY <1>1, <4>1, LineEndsAre DEF n
    <3>3. LineTo(s, n - 1) = <<>>
      BY RequestIs DEF IsRequest, n
    <3>4. ~IsHeader(<<>>) /\ ~IsContinuation(<<>>)
      BY DEF IsHeader, IsContinuation
    <3> QED
      BY <3>1, <3>2, <3>3, <3>4 DEF GoodLine
  <2>5. p.state # "header_name"
    BY <1>2, <1>4, <1>5, <2>3 DEF FitsHeader
  <2>6. p.state # "header_lws"
    BY <1>2, <1>4, <1>5, <2>3 DEF FitsHeader
  <2>7. p.state # "header_value"
    <3> SUFFICES ASSUME GoodTo(s, e, b, n) PROVE FALSE
      BY <2>3 DEF FitsHeader
    <3>1. b <= n /\ \A z \in b .. n : s[z] # "lf"
      BY <1>2, GoodHasNoEnd
    <3>2. n \in b .. n
      BY <1>2, <3>1
    <3> QED
      BY <1>3, <3>1, <3>2
  <2>8. p.state \notin {"space_before_header_value", "expecting_newline_2", "expecting_newline_3"}
    BY <1>3, <2>3 DEF FitsHeader
  <2> QED
    BY <2>4, <2>5, <2>6, <2>7, <2>8 DEF HeaderStates
<1> QED
  BY <1>6, <1>7, <1>8, <1>9 DEF ReadStates
(***************************************************************************)
(* The parser and the grammar.                                             *)
(***************************************************************************)
LEMMA PrefixParses ==
    ASSUME NEW s \in Seq(Chars), NEW n \in 0 .. Len(s), NEW k \in 0 .. n
    PROVE  /\ SubSeq(s, 1, n) \in Seq(Chars) /\ Len(SubSeq(s, 1, n)) = n
           /\ \A x \in 1 .. n : SubSeq(s, 1, n)[x] = s[x]
           /\ After(SubSeq(s, 1, n), k) = After(s, k)
<1>1. /\ SubSeq(s, 1, n) \in Seq(Chars) /\ Len(SubSeq(s, 1, n)) = n
      /\ \A x \in 1 .. n : SubSeq(s, 1, n)[x] = s[x]
  OBVIOUS
<1>2. SubSeq(SubSeq(s, 1, n), 1, k) = SubSeq(s, 1, k)
  OBVIOUS
<1> QED
  BY <1>1, <1>2 DEF After

\* All of a request makes the parser's result true, and less of it none.
LEMMA RequestParses ==
    ASSUME NEW s \in Seq(Chars), IsRequest(s), NEW k \in 0 .. Len(s)
    PROVE  IF k = Len(s) THEN After(s, k).state = "true" ELSE After(s, k).state \in ReadStates
<1>1. PICK i, j, e \in Nat : Whole(s, i, j, e)
  BY RequestIs
<1>2. Len(s) \in Nat /\ k \in Nat /\ k <= Len(s)
  OBVIOUS
<1> DEFINE p == After(s, k)
<1>3. p.state \in ReadStates \cup Results
  BY AfterIsTyped, RowStates
<1>4. p.state # "false"
  <2>1. ASSUME NEW m \in 0 .. k - 1, Fits(After(s, m), s, m), After(s, m).state \in ReadStates,
               \A r \in Rows : ~Accepts(After(s, m), s[m + 1], r)
        PROVE  FALSE
    <3>1. m \in 0 .. Len(s) - 1
      BY <1>2
    <3> QED
      BY <1>1, <2>1, <3>1, RequestGoesOn
  <2> QED
    BY <2>1, AfterFits
<1>5. p.state = "true" => k = Len(s)
  <2>1. ASSUME p.state = "true" PROVE k = Len(s)
    <3>1. PICK m \in 1 .. k : Ended(p, s, m)
      BY <2>1, AfterFits
    <3>2. m \in 1 .. Len(s) /\ m <= k
      BY <1>2
    <3>3. m = Len(s)
      BY <1>1, <3>1, <3>2, RequestEndsOnce
    <3> QED
      BY <1>2, <3>2, <3>3
  <2> QED
    BY <2>1
<1>6. k = Len(s) => p.state \notin ReadStates
  <2>1. p.state \in ReadStates => Fits(p, s, k)
    BY AfterFits
  <2> HIDE DEF p
  <2> QED
    BY <1>1, <2>1, RequestIsRead
<1> QED
  BY <1>3, <1>4, <1>5, <1>6 DEF Results

\* Once there is a result the parser stays as it is.
LEMMA ResultStays ==
    ASSUME NEW s \in Seq(Chars), NEW m \in 0 .. Len(s), NEW k \in m .. Len(s),
           After(s, m).state \in Results
    PROVE  After(s, k) = After(s, m)
<1> DEFINE Stays == {n \in Nat : m + n <= Len(s) => After(s, m + n) = After(s, m)}
<1>1. 0 \in Stays
  <2>1. m + 0 = m
    OBVIOUS
  <2> QED
    BY <2>1
<1>2. ASSUME NEW n \in Nat, n \in Stays PROVE n + 1 \in Stays
  <2> SUFFICES ASSUME m + (n + 1) <= Len(s) PROVE After(s, m + (n + 1)) = After(s, m)
    OBVIOUS
  <2>1. m + n \in 0 .. Len(s) - 1 /\ m + n <= Len(s) /\ m + (n + 1) = (m + n) + 1
    OBVIOUS
  <2>2. After(s, m + n) = After(s, m)
    BY <1>2, <2>1
  <2>3. After(s, (m + n) + 1) = Step(After(s, m + n), s[(m + n) + 1])
    BY <2>1, AfterSteps
  <2> QED
    BY <2>1, <2>2, <2>3 DEF Step
<1> HIDE DEF Stays
<1>3. k - m \in Nat /\ m + (k - m) = k /\ k <= Len(s)
  OBVIOUS
<1>4. k - m \in Stays
  BY <1>1, <1>2, <1>3, Induction
<1> QED
  BY <1>3, <1>4 DEF Stays

\* The requests that a stream of characters begins with, by the parser: it
\* ends where the result comes.
LEMMA RequestsAre ==
    ASSUME NEW s \in Seq(Chars), NEW n \in Requests(s)
    PROVE  /\ n \in 1 .. Len(s) /\ After(s, n).state = "true"
           /\ \A k \in 0 .. n - 1 : After(s, k).state \in ReadStates
<1>1. n \in 1 .. Len(s) /\ IsRequest(SubSeq(s, 1, n))
  BY DEF Requests
<1>2. n \in 0 .. Len(s) /\ n \in 0 .. n /\ \A k \in 0 .. n - 1 : k \in 0 .. n /\ k # n
  BY <1>1
<1> DEFINE u == SubSeq(s, 1, n)
<1>3. u \in Seq(Chars) /\ Len(u) = n /\ \A k \in 0 .. n : After(u, k) = After(s, k)
  BY <1>2, PrefixParses
<1> HIDE DEF u
<1>4. \A k \in 0 .. n : IF k = n THEN After(u, k).state = "true" ELSE After(u, k).state \in ReadStates
  BY <1>1, <1>3, RequestParses DEF u
<1> QED
  BY <1>1, <1>2, <1>3, <1>4

\* The parser accepts what the grammar accepts, however much of it has come
\* (RequestParser::parse, consume): the result is true once, and only if, a
\* request has been read to its end, and its uri is then the request's; it
\* is false only if no request begins what is sent, whatever else comes;
\* and while there is none no request is complete.
THEOREM ParserFitsGrammar ==
    ASSUME NEW s \in Seq(Chars), NEW k \in 0 .. Len(s)
    PROVE  LET p == Parse(Reset, SubSeq(s, 1, k))
           IN  CASE p.state = "true" ->
                      \E m \in 1 .. k : Requests(s) = {m} /\ p.uri = UriOf(SubSeq(s, 1, m))
                 [] p.state = "false" -> Requests(s) = {}
                 [] OTHER -> Requests(s) \cap 1 .. k = {}
<1> DEFINE p == After(s, k)
<1>1. Len(s) \in Nat /\ k \in Nat /\ k <= Len(s)
  OBVIOUS
<1>2. ASSUME NEW n \in Requests(s), n <= k PROVE p = After(s, n) /\ p.state = "true"
  <2>1. n \in 1 .. Len(s) /\ After(s, n).state = "true"
    BY RequestsAre
  <2>2. n \in 0 .. Len(s) /\ k \in n .. Len(s)
    BY <1>1, <1>2, <2>1
  <2> QED
    BY <2>1, <2>2, ResultStays DEF Results
<1>3. ASSUME NEW n \in Requests(s), k < n PROVE p.state \in ReadStates
  <2>1. k \in 0 .. n - 1
    BY <1>1, <1>3 DEF Requests
  <2> QED
    BY <2>1, RequestsAre
<1>4. \A n \in Requests(s) : n \in Nat
  BY DEF Requests
<1>5. ASSUME p.state = "true"
      PROVE  \E m \in 1 .. k : Requests(s) = {m} /\ p.uri = UriOf(SubSeq(s, 1, m))
  <2>1. PICK x \in Nat : x <= k /\ After(s, x).state \in Results
                         /\ \A y \in Nat : y <= k /\ After(s, y).state \in Results => x <= y
    <3> DEFINE Done == {x \in Nat : x <= k /\ After(s, x).state \in Results}
    <3>1. k \in Done
      BY <1>1, <1>5 DEF Results
    <3>2. Done \in SUBSET Nat /\ Done # {}
      BY <3>1
    <3>3. PICK x \in Done : \A y \in Done : x <= y
      BY <3>2, LeastExists
    <3> QED
      BY <3>3
  <2>2. p = After(s, x)
    <3>1. x \in 0 .. Len(s) /\ k \in x .. Len(s)
      BY <1>1, <2>1
    <3> QED
      BY <2>1, <3>1, ResultStays
  <2> DEFINE u == SubSeq(s, 1, x)
  <2>3. x \in 0 .. Len(s) /\ x \in 0 .. x /\ k \in Nat
    BY <1>1, <2>1
  <2>4. u \in Seq(Chars) /\ Len(u) = x /\ \A y \in 0 .. x : After(u, y) = After(s, y)
    BY <2>3, PrefixParses
  <2> HIDE DEF u
  <2>5. After(u, x).state = "true"
    BY <1>5, <2>2, <2>3, <2>4
  <2>6. PICK m \in 1 .. x : Ended(After(u, x), u, m) /\ After(u, m) = After(u, x)
    BY <2>3, <2>4, <2>5, AfterFits
  <2>7. m \in Nat /\ m <= k /\ m <= x /\ m \in 0 .. x /\ x \in 1 .. k
    BY <1>1, <2>1
  <2>8. After(s, m).state \in Results
    BY <2>4, <2>5, <2>6, <2>7 DEF Results
  <2>9. m = x
    BY <2>1, <2>7, <2>8
  <2>10. p = After(u, x)
    BY <2>2, <2>3, <2>4
  <2>11. PICK i, j, e \in Nat : Whole(u, i, j, e) /\ p.uri = SubSeq(u, i + 1, j - 1)
    BY <2>4, <2>6, <2>9, <2>10 DEF Ended, Whole
  <2>12. IsRequest(u) /\ p.uri = UriOf(u)
    BY <2>4, <2>11, RequestIs, UriIs
  <2>13. x \in Requests(s)
    BY <1>1, <2>7, <2>12 DEF Requests, u
  <2>14. ASSUME NEW n \in Requests(s) PROVE n = x
    <3>1. n \in 1 .. Len(s) /\ After(s, n).state = "true" /\ After(s, x).state = "true"
      BY <2>13, RequestsAre
    <3>2. n \notin 0 .. x - 1
      BY <2>13, <3>1, RequestsAre, RowStates DEF Results
    <3>3. x \notin 0 .. n - 1
      BY <3>1, RequestsAre, RowStates DEF Results
    <3> QED
      BY <2>1, <3>1, <3>2, <3>3
  <2> QED
    BY <2>7, <2>12, <2>13, <2>14 DEF u
<1>6. ASSUME p.state # "true" PROVE Requests(s) \cap 1 .. k = {}
  BY <1>2, <1>6
<1>7. ASSUME p.state = "false" PROVE Requests(s) = {}
  <2>1. \A n \in Requests(s) : n <= k \/ k < n
    BY <1>1, <1>4
  <2>2. p.state # "true" /\ p.state \notin ReadStates
    BY <1>7, RowStates DEF Results
  <2> HIDE DEF p
  <2> QED
    BY <1>2, <1>3, <2>1, <2>2
<1>8. p = Parse(Reset, SubSeq(s, 1, k))
  BY DEF After
<1> HIDE DEF p
<1> QED
  BY <1>5, <1>6, <1>7, <1>8

(***************************************************************************)
(* The decoder of paths is a fold as well.  What it makes of a uri is      *)
(* known by its characters, none of which stands for a name that the       *)
(* server adds itself.                                                     *)
(***************************************************************************)
PathChars == Text \cup {"quote", "ctl", "high", "nul"}
NothingDecoded == [ok |-> TRUE, escape |-> <<>>, out |-> <<>>]
Decodings == [ok : BOOLEAN, escape : Seq(Text), out : Seq(PathChars)]

DecodesBy(f, s) ==
    f = [D \in SUBSET DOMAIN s |->
            IF D = {} THEN NothingDecoded
            ELSE LET x == Max(D) IN DecodeChar(f[D \ {x}], s[x])]

LEMMA DecodedIsFold == ASSUME NEW s PROVE Decoded(s) = (CHOOSE f : DecodesBy(f, s))[DOMAIN s]
  BY DEF Decoded, FoldLeft, MapThenFoldSet, DecodesBy, NothingDecoded

LEMMA DecodingExists == ASSUME NEW T, NEW s \in Seq(T) PROVE \E f : DecodesBy(f, s)
<1> DEFINE Solves(f, n) ==
             f = [D \in SUBSET (1 .. n) |->
                     IF D = {} THEN NothingDecoded ELSE DecodeChar(f[D \ {Max(D)}], s[Max(D)])]
           Solved == {n \in Nat : \E f : Solves(f, n)}
<1>1. 0 \in Solved
  <2>1. Solves([D \in SUBSET (1 .. 0) |-> NothingDecoded], 0)
    OBVIOUS
  <2> QED
    BY <2>1
<1>2. ASSUME NEW n \in Nat, n \in Solved PROVE n + 1 \in Solved
  <2>1. PICK f : Solves(f, n)
    BY <1>2
  <2> DEFINE g == [D \in SUBSET (1 .. n + 1) |->
                     IF n + 1 \in D THEN DecodeChar(f[D \ {n + 1}], s[n + 1]) ELSE f[D]]
  <2>2. ASSUME NEW D \in SUBSET (1 .. n + 1)
        PROVE  g[D] = IF D = {} THEN NothingDecoded ELSE DecodeChar(g[D \ {Max(D)}], s[Max(D)])
    <3>1. CASE n + 1 \in D
      <4>1. Max(D) = n + 1
        BY <3>1, MaxIsLast
      <4>2. D \ {n + 1} \in SUBSET (1 .. n + 1) /\ n + 1 \notin D \ {n + 1}
        OBVIOUS
      <4> QED
        BY <3>1, <4>1, <4>2
    <3>2. CASE n + 1 \notin D
      <4>1. D \in SUBSET (1 .. n)
        BY <3>2
      <4>2. f[D] = IF D = {} THEN NothingDecoded ELSE DecodeChar(f[D \ {Max(D)}], s[Max(D)])
        BY <2>1, <4>1
      <4>3. D \ {Max(D)} \in SUBSET (1 .. n + 1) /\ n + 1 \notin D \ {Max(D)}
        BY <3>2
      <4> QED
        BY <3>2, <4>2, <4>3
    <3> QED
      BY <3>1, <3>2
  <2>3. g = [D \in SUBSET (1 .. n + 1) |->
              IF D = {} THEN NothingDecoded ELSE DecodeChar(g[D \ {Max(D)}], s[Max(D)])]
    BY <2>2
  <2> HIDE DEF g
  <2>4. \E h : Solves(h, n + 1)
    <3> WITNESS g
    <3> QED
      BY <2>3
  <2>5. n + 1 \in Nat
    OBVIOUS
  <2> QED
    BY <2>4, <2>5, Zenon
<1> HIDE DEF Solved
<1>3. Nat \subseteq Solved
  BY <1>1, <1>2, Induction
<1>4. Len(s) \in Nat /\ DOMAIN s = 1 .. Len(s)
  OBVIOUS
<1>5. PICK f : Solves(f, Len(s))
  BY <1>3, <1>4 DEF Solved
<1> QED
  BY <1>4, <1>5 DEF DecodesBy

\* One more character.
LEMMA DecodeCharIsTyped ==
    ASSUME NEW d \in Decodings, NEW c \in Text
    PROVE  DecodeChar(d, c) \in Decodings
<1>1. /\ d.ok \in BOOLEAN /\ d.escape \in Seq(Text) /\ d.out \in Seq(PathChars)
      /\ d = [ok |-> d.ok, escape |-> d.escape, out |-> d.out]
  BY DEF Decodings
<1>2. \A x, y : Unescaped(x, y) \in PathChars /\ IsHex(x, y) \in BOOLEAN
  BY DEF Unescaped, IsHex, PathChars, Text, Chars, Ctl, Digits, Tspecials
<1>3. c \in PathChars /\ " " \in PathChars /\ (IF c = "+" THEN " " ELSE c) \in PathChars
  BY DEF PathChars, Text, Chars, Ctl, Digits, Tspecials
<1>4. CASE Len(d.escape) = 2
  <2>1. /\ (d.ok /\ IsHex(d.escape[2], c)) \in BOOLEAN
        /\ <<>> \in Seq(Text)
        /\ Append(d.out, Unescaped(d.escape[2], c)) \in Seq(PathChars)
    BY <1>1, <1>2
  <2> QED
    BY <1>4, <2>1 DEF DecodeChar, Decodings
<1>5. CASE Len(d.escape) # 2 /\ (d.escape # <<>> \/ c = "%")
  <2>1. Append(d.escape, c) \in Seq(Text)
    BY <1>1
  <2>2. DecodeChar(d, c) = [ok |-> d.ok, escape |-> Append(d.escape, c), out |-> d.out]
    BY <1>1, <1>5 DEF DecodeChar
  <2> QED
    BY <1>1, <2>1, <2>2 DEF Decodings
<1>6. CASE Len(d.escape) # 2 /\ ~(d.escape # <<>> \/ c = "%")
  <2> DEFINE x == IF c = "+" THEN " " ELSE c
  <2>1. DecodeChar(d, c) = [ok |-> d.ok, escape |-> d.escape, out |-> Append(d.out, x)]
    BY <1>1, <1>6 DEF DecodeChar
  <2>2. x \in PathChars
    BY <1>3
  <2> HIDE DEF x
  <2>3. Append(d.out, x) \in Seq(PathChars)
    BY <1>1, <2>2
  <2> QED
    BY <1>1, <2>1, <2>3 DEF Decodings
<1> QED
  BY <1>4, <1>5, <1>6

LEMMA PathIsTyped == ASSUME NEW uri \in Seq(Text) PROVE PathOf(uri) \in Seq(PathChars)
<1> DEFINE f == CHOOSE g : DecodesBy(g, uri)
           Typed == {k \in Nat : k <= Len(uri) => f[1 .. k] \in Decodings}
<1>1. Len(uri) \in Nat /\ DOMAIN uri = 1 .. Len(uri)
  OBVIOUS
<1>2. DecodesBy(f, uri)
  BY DecodingExists
<1> HIDE DEF f
<1>3. 0 \in Typed
  <2>1. 1 .. 0 = {} /\ {} \in SUBSET DOMAIN uri
    OBVIOUS
  <2>2. f[1 .. 0] = NothingDecoded
    BY <1>2, <2>1 DEF DecodesBy
  <2>3. <<>> \in Seq(Text) /\ <<>> \in Seq(PathChars)
    OBVIOUS
  <2>4. NothingDecoded \in Decodings
    BY <2>3 DEF NothingDecoded, Decodings
  <2> QED
    BY <2>2, <2>4
<1>4. ASSUME NEW k \in Nat, k \in Typed PROVE k + 1 \in Typed
  <2> SUFFICES ASSUME k + 1 <= Len(uri) PROVE f[1 .. k + 1] \in Decodings
    OBVIOUS
  <2>1. 1 .. k + 1 \in SUBSET DOMAIN uri /\ 1 .. k + 1 # {}
    <3>1. 1 \in 1 .. k + 1 /\ 1 .. k + 1 \subseteq 1 .. Len(uri)
      OBVIOUS
    <3> QED
      BY <1>1, <3>1, Zenon
  <2>2. Max(1 .. k + 1) = k + 1
    BY MaxIsLast
  <2>3. (1 .. k + 1) \ {k + 1} = 1 .. k
    OBVIOUS
  <2>4. f[1 .. k + 1] = DecodeChar(f[1 .. k], uri[k + 1])
    BY <1>2, <2>1, <2>2, <2>3 DEF DecodesBy
  <2>5. f[1 .. k] \in Decodings /\ uri[k + 1] \in Text
    BY <1>1, <1>4
  <2> QED
    BY <2>4, <2>5, DecodeCharIsTyped
<1>5. Len(uri) \in Typed
  <2> HIDE DEF Typed
  <2> QED
    BY <1>1, <1>3, <1>4, Induction
<1>6. Decoded(uri) \in Decodings
  BY <1>1, <1>5, DecodedIsFold DEF f
<1> QED
  BY <1>6 DEF PathOf, Decodings

LEMMA MaxIsGreatest ==
    ASSUME NEW n \in Nat, NEW S \in SUBSET (0 .. n), S # {}
    PROVE  Max(S) \in S /\ \A y \in S : Max(S) >= y
<1> DEFINE D == {n - x : x \in S}
<1>1. D \in SUBSET Nat /\ D # {}
  <2>1. \A x \in S : n - x \in Nat
    OBVIOUS
  <2>2. D \subseteq Nat
    BY <2>1, Zenon
  <2> QED
    BY <2>2, Zenon
<1>2. PICK m \in D : \A k \in D : m <= k
  BY <1>1, LeastExists
<1>3. PICK x \in S : m = n - x
  BY <1>2
<1>4. \A y \in S : n - y \in D
  OBVIOUS
<1> HIDE DEF D
<1>5. \A y \in S : x >= y
  BY <1>2, <1>3, <1>4
<1> QED
  BY <1>5 DEF Max

\* The path a file is looked for under: as it was sent, or completed.
LEMMA FullPathIs ==
    ASSUME NEW p \in Seq(PathChars), p # <<>>
    PROVE  LET path == FullPath(p)
               n == Len(p)
           IN  /\ n \in Nat \ {0}
               /\ \A i \in 1 .. n : path[i] = p[i] /\ p[i] \in PathChars
               /\ \/ path = p
                  \/ /\ path = p \o <<"index", ".", "html">> /\ Len(path) = n + 3
                     /\ path \in Seq(PathChars \cup {"index", "html"})
                     /\ p[n] = "/" /\ path[n + 1] = "index" /\ path[n + 2] = "." /\ path[n + 3] = "html"
<1> DEFINE n == Len(p)
           q == p \o <<"index", ".", "html">>
<1>1. n \in Nat \ {0} /\ \A i \in 1 .. n : p[i] \in PathChars
  OBVIOUS
<1>2. Last(p) = p[n]
  BY DEF Last
<1>3. p \in Seq(PathChars \cup {"index", "html"})
  <2>1. PathChars \subseteq PathChars \cup {"index", "html"}
    OBVIOUS
  <2> QED
    BY <2>1
<1>4. <<"index", ".", "html">> \in Seq(PathChars \cup {"index", "html"})
  <2>1. "." \in PathChars
    BY DEF PathChars, Text, Chars, Ctl, Digits, Tspecials
  <2> QED
    BY <2>1
<1>5. /\ q \in Seq(PathChars \cup {"index", "html"}) /\ Len(q) = n + 3
      /\ \A i \in 1 .. n : q[i] = p[i]
      /\ q[n + 1] = "index" /\ q[n + 2] = "." /\ q[n + 3] = "html"
  BY <1>3, <1>4
<1> QED
  BY <1>1, <1>2, <1>5 DEF FullPath

LEMMA NamesAreOwn == "index" \notin PathChars /\ "html" \notin PathChars
  BY DEF PathChars, Text, Chars, Ctl, Digits, Tspecials

\* What is opened of a path is a beginning of it.
LEMMA OpenedIsPrefix ==
    ASSUME NEW T, NEW path \in Seq(T)
    PROVE  /\ Len(Opened(path)) \in 0 .. Len(path)
           /\ \A i \in 1 .. Len(Opened(path)) : Opened(path)[i] = path[i]
<1> DEFINE S == {Len(path) + 1} \cup {i \in DOMAIN path : path[i] = "nul"}
           m == Min(S)
<1>1. Len(path) \in Nat /\ DOMAIN path = 1 .. Len(path)
  OBVIOUS
<1>2. S \in SUBSET Nat /\ S # {} /\ \A x \in S : x \in 1 .. Len(path) + 1
  BY <1>1
<1>3. Opened(path) = SubSeq(path, 1, m - 1)
  BY DEF Opened
<1> HIDE DEF S
<1>4. m \in S
  BY <1>2, MinIsLeast
<1>5. m \in 1 .. Len(path) + 1
  BY <1>2, <1>4
<1> HIDE DEF m
<1> QED
  BY <1>3, <1>5

\* Neither the name that is added to a path nor the NUL that it is cut at
\* makes it one that goes up.
LEMMA OpenedStaysDown ==
    ASSUME NEW p \in Seq(PathChars), p # <<>>, ~GoesUp(p)
    PROVE  ~GoesUp(Opened(FullPath(p)))
<1> DEFINE path == FullPath(p)
           n == Len(p)
           o == Opened(path)
<1>1. /\ n \in Nat \ {0}
      /\ \A i \in 1 .. n : path[i] = p[i] /\ p[i] \in PathChars
      /\ \/ path = p
         \/ /\ Len(path) = n + 3 /\ path \in Seq(PathChars \cup {"index", "html"})
            /\ p[n] = "/" /\ path[n + 1] = "index" /\ path[n + 2] = "." /\ path[n + 3] = "html"
  BY FullPathIs
<1>2. path \in Seq(PathChars) \/ path \in Seq(PathChars \cup {"index", "html"})
  BY <1>1
<1>3. Len(o) \in 0 .. Len(path) /\ \A i \in 1 .. Len(o) : o[i] = path[i]
  BY <1>2, OpenedIsPrefix
<1>4. \A i \in 1 .. n - 1 : ~(p[i] = "." /\ p[i + 1] = ".")
  BY DEF GoesUp
<1> HIDE DEF path, o, n
<1>5. Len(path) \in Nat /\ Len(path) <= n + 3
  BY <1>1 DEF n
<1>6. \A i \in 1 .. Len(path) - 1 : ~(path[i] = "." /\ path[i + 1] = ".")
  <2> SUFFICES ASSUME NEW i \in 1 .. Len(path) - 1, path[i] = ".", path[i + 1] = "." PROVE FALSE
    OBVIOUS
  <2>1. CASE path = p
    <3>1. i \in 1 .. n - 1
      BY <2>1 DEF n
    <3> QED
      BY <1>4, <2>1, <3>1
  <2>2. CASE /\ Len(path) = n + 3 /\ p[n] = "/" /\ path[n + 1] = "index"
             /\ path[n + 2] = "." /\ path[n + 3] = "html"
    <3>1. i \in 1 .. n - 1 \/ i = n \/ i = n + 1 \/ i = n + 2
      BY <1>1, <2>2
    <3>2. CASE i \in 1 .. n - 1
      <4>1. i \in 1 .. n /\ i + 1 \in 1 .. n
        BY <1>1, <3>2
      <4> QED
        BY <1>1, <1>4, <3>2, <4>1
    <3>3. CASE i = n
      BY <1>1, <2>2, <3>3
    <3>4. CASE i = n + 1
      BY <2>2, <3>4
    <3>5. CASE i = n + 2
      <4>1. i + 1 = n + 3
        BY <1>1, <3>5
      <4> QED
        BY <2>2, <4>1
    <3> QED
      BY <3>1, <3>2, <3>3, <3>4, <3>5
  <2> QED
    BY <1>1, <2>1, <2>2
<1>7. \A i \in 1 .. Len(o) - 1 : ~(o[i] = "." /\ o[i + 1] = ".")
  <2> SUFFICES ASSUME NEW i \in 1 .. Len(o) - 1 PROVE ~(o[i] = "." /\ o[i + 1] = ".")
    OBVIOUS
  <2>1. i \in 1 .. Len(o) /\ i + 1 \in 1 .. Len(o) /\ i \in 1 .. Len(path) - 1
    BY <1>3, <1>5
  <2> QED
    BY <1>3, <1>6, <2>1
<1> QED
  BY <1>7 DEF GoesUp, o, path

LEMMA TailIs ==
    ASSUME NEW T, NEW s \in Seq(T), NEW m \in 1 .. Len(s), NEW x,
           SubSeq(s, m + 1, Len(s)) = <<x>>
    PROVE  s[Len(s)] = x
<1>1. Len(s) \in Nat /\ m \in Nat /\ m <= Len(s)
  OBVIOUS
<1>2. CASE m = Len(s)
  <2>1. SubSeq(s, m + 1, Len(s)) = <<>>
    BY <1>1, <1>2
  <2>2. Len(<<>>) = 0 /\ Len(<<x>>) = 1
    OBVIOUS
  <2> QED
    BY <2>1, <2>2
<1>3. CASE m < Len(s)
  <2>1. SubSeq(s, m + 1, Len(s))[Len(s) - m] = s[Len(s)] /\ Len(SubSeq(s, m + 1, Len(s))) = Len(s) - m
    BY <1>1, <1>3
  <2>2. Len(<<x>>) = 1 /\ <<x>>[1] = x
    OBVIOUS
  <2> QED
    BY <2>1, <2>2
<1> QED
  BY <1>1, <1>2, <1>3

\* The extension is html for the name that the server adds itself.
LEMMA ExtensionIs ==
    ASSUME NEW p \in Seq(PathChars), p # <<>>, p[1] = "/"
    PROVE  Extension(FullPath(p)) = <<"html">> <=> Last(FullPath(p)) = "html"
<1> DEFINE path == FullPath(p)
           n == Len(p)
           D == {i \in DOMAIN path : path[i] \in {".", "/"}}
           mark == Max(D)
<1>1. /\ n \in Nat \ {0}
      /\ \A i \in 1 .. n : path[i] = p[i] /\ p[i] \in PathChars
      /\ \/ path = p
         \/ /\ Len(path) = n + 3 /\ path \in Seq(PathChars \cup {"index", "html"})
            /\ p[n] = "/" /\ path[n + 1] = "index" /\ path[n + 2] = "." /\ path[n + 3] = "html"
  BY FullPathIs
<1>2. Extension(path) = IF path[mark] = "." THEN SubSeq(path, mark + 1, Len(path)) ELSE <<>>
  BY DEF Extension
<1>3. /\ path \in Seq(PathChars) \/ path \in Seq(PathChars \cup {"index", "html"})
      /\ Len(path) \in Nat \ {0} /\ DOMAIN path = 1 .. Len(path) /\ Last(path) = path[Len(path)]
  BY <1>1 DEF Last
<1>4. 1 \in D
  <2>1. 1 \in 1 .. n /\ 1 \in 1 .. Len(path)
    <3>1. n \in Nat \ {0} /\ Len(path) \in Nat \ {0}
      BY <1>1, <1>3
    <3> HIDE DEF n, path
    <3> QED
      BY <3>1
  <2>2. path[1] = "/"
    BY <1>1, <2>1
  <2> HIDE DEF path
  <2> QED
    BY <1>3, <2>1, <2>2
<1>5. D \in SUBSET (0 .. Len(path)) /\ D # {}
  BY <1>3, <1>4
<1>6. mark \in D /\ \A y \in D : mark >= y
  <2> HIDE DEF D
  <2> QED
    BY <1>3, <1>5, MaxIsGreatest
<1>7. mark \in 1 .. Len(path)
  BY <1>3, <1>6
<1>8. CASE path = p
  <2>1. Last(path) \in PathChars /\ Last(path) # "html"
    <3>1. Last(path) = p[n] /\ n \in 1 .. n
      BY <1>1, <1>3, <1>8
    <3> HIDE DEF n, path
    <3> QED
      BY <1>1, <3>1, NamesAreOwn
  <2>2. SubSeq(path, mark + 1, Len(path)) # <<"html">>
    <3>1. path \in Seq(PathChars)
      BY <1>8
    <3> HIDE DEF mark, path
    <3> QED
      BY <1>3, <1>7, <2>1, <3>1, TailIs
  <2>3. <<>> # <<"html">>
    <3>1. Len(<<>>) = 0 /\ Len(<<"html">>) = 1
      OBVIOUS
    <3> QED
      BY <3>1
  <2> HIDE DEF mark
  <2> QED
    <3>1. Extension(path) # <<"html">>
      BY <1>2, <2>2, <2>3
    <3> QED
      BY <2>1, <3>1
<1>9. CASE /\ Len(path) = n + 3 /\ path \in Seq(PathChars \cup {"index", "html"})
           /\ path[n + 2] = "." /\ path[n + 3] = "html"
  <2>1. n + 2 \in D /\ n + 3 \notin D
    BY <1>1, <1>3, <1>9
  <2> HIDE DEF D
  <2>2. mark >= n + 2 /\ mark # n + 3
    BY <1>6, <2>1
  <2>3. mark = n + 2
    <3> HIDE DEF mark
    <3> QED
      BY <1>1, <1>7, <1>9, <2>2
  <2> HIDE DEF mark
  <2>4. SubSeq(path, n + 3, n + 3) = <<"html">>
    <3> DEFINE w == SubSeq(path, n + 3, n + 3)
    <3> HIDE DEF path, n
    <3>1. w \in Seq(PathChars \cup {"index", "html"}) /\ Len(w) = 1 /\ w[1] = "html"
      BY <1>1, <1>9
    <3> HIDE DEF w
    <3>2. w = <<"html">>
      BY <3>1
    <3> QED
      BY <3>2 DEF w
  <2>5. Extension(path) = <<"html">>
    <3> HIDE DEF path
    <3>1. mark + 1 = n + 3
      BY <1>1, <2>3
    <3> QED
      BY <1>2, <1>9, <2>3, <2>4, <3>1
  <2> QED
    BY <1>3, <1>9, <2>5
<1> QED
  BY <1>1, <1>8, <1>9

LEMMA TypeIs ==
    ASSUME NEW extension
    PROVE  /\ extension = <<"html">> => ExtensionToType(extension) = "text/html"
           /\ ExtensionToType(extension) = "text/html" => extension = <<"html">>
           /\ ExtensionToType(extension) # "crlf"
<1>1. CASE extension = <<"html">>
  BY <1>1 DEF ExtensionToType
<1>2. CASE extension = <<"m">>
  <2>1. <<"m">> # <<"html">>
    <3>1. <<"m">>[1] = "m" /\ <<"html">>[1] = "html"
      OBVIOUS
    <3> QED
      BY <3>1
  <2> QED
    BY <1>2, <2>1 DEF ExtensionToType
<1>3. CASE extension # <<"html">> /\ extension # <<"m">>
  BY <1>3 DEF ExtensionToType
<1> QED
  BY <1>1, <1>2, <1>3

\* What the request handler answers "ok" to has been checked, and is there.
LEMMA OkIsChecked ==
    ASSUME NEW uri
    PROVE  /\ HandleRequest(uri) \in Answers
           /\ HandleRequest(uri) = "ok" =>
                  IsPath(uri) /\ Opened(FullPath(PathOf(uri))) \in DOMAIN Files
<1> DEFINE asked == FullPath(PathOf(uri))
           file == IF Opened(asked) \in DOMAIN Files THEN "ok" ELSE "not_found"
<1>1. HandleRequest(uri) =
          IF ~IsPath(uri) THEN "bad_request"
          ELSE IF IsStreamPath(asked)
               THEN IF HandleValidStream(asked) THEN "stream" ELSE "not_found"
               ELSE IF Opened(asked) \in DOMAIN Files THEN "ok" ELSE "not_found"
  BY DEF HandleRequest
<1> HIDE DEF asked
<1>2. HandleRequest(uri) \in Answers
  BY <1>1 DEF Answers
<1>3. HandleRequest(uri) = "ok" => IsPath(uri) /\ Opened(asked) \in DOMAIN Files
  BY <1>1
<1> QED
  BY <1>2, <1>3 DEF asked

(***************************************************************************)
(* AnswerFitsRequest compares the answer with a grammar that looks at all  *)
(* of a message.  It follows from what the parser has made of the part     *)
(* that has been read, which is inductive: the pieces join, there is no    *)
(* result while a connection reads, and the answer is that of the result.  *)
(***************************************************************************)
Domains ==
    /\ DOMAIN msg = Clients /\ DOMAIN got = Clients /\ DOMAIN parser = Clients
    /\ DOMAIN answer = Clients /\ DOMAIN written = Clients

ParserAt(c) == parser[c] = After(msg[c], got[c])

AnswerOfResult(c) ==
    IF parser[c].state \in Results
    THEN answer[c] = IF parser[c].state = "true" THEN HandleRequest(parser[c].uri) ELSE "bad_request"
    ELSE answer[c] = "none"

ReadingHasNoResult(c) ==
    conn[c] \in {"none", "backlog", "reading"} => parser[c].state \notin Results

Answering ==
    /\ Domains
    /\ \A c \in Clients : ParserAt(c) /\ AnswerOfResult(c) /\ ReadingHasNoResult(c)

ServerInv == TypeOK /\ Answering

LEMMA MinOfTwo ==
    ASSUME NEW a \in Nat, NEW b \in Nat
    PROVE  Min({a, b}) \in {a, b} /\ Min({a, b}) <= a /\ Min({a, b}) <= b
<1>1. {a, b} \in SUBSET Nat /\ {a, b} # {}
  OBVIOUS
<1> QED
  BY <1>1, MinIsLeast

LEMMA InitServerInv == Init => ServerInv
<1> SUFFICES ASSUME Init PROVE ServerInv
  OBVIOUS
<1>0. <<>> \in Seq(Chars) /\ Len(<<>>) = 0
  OBVIOUS
<1>1. After(<<>>, 0) = Reset
  BY <1>0, AfterSteps
<1>2. Reset.state \in States /\ Reset.state \notin Results /\ Reset.uri \in Seq(Text)
  BY RowStates DEF Reset, ReadStates, Results
<1>3. TypeOK
  BY <1>0, <1>1, <1>2, MaxErrorsAssumption DEF Init, TypeOK
<1>4. Answering
  BY <1>1, <1>2 DEF Init, Answering, Domains, ParserAt, AnswerOfResult, ReadingHasNoResult
<1> QED
  BY <1>3, <1>4 DEF ServerInv
\* One read: the parser gets as far as if all had come at once.
LEMMA ReadParses ==
    ASSUME ServerInv, NEW c \in Clients, NEW n \in 1 .. Min({BufferSize, Len(msg[c]) - got[c]}),
           Reads(c, n)
    PROVE  /\ got[c] + n \in 0 .. Len(msg[c]) /\ msg[c] \in Seq(Chars)
           /\ conn[c] = "reading" /\ parser[c].state \notin Results /\ answer[c] = "none"
           /\ DOMAIN got' = Clients /\ DOMAIN parser' = Clients
           /\ got' = [got EXCEPT ![c] = got[c] + n]
           /\ parser' = [parser EXCEPT ![c] = After(msg[c], got[c] + n)]
           /\ UNCHANGED <<accepting, errors, msg, gone, written>>
<1> DEFINE s == msg[c]
           g == got[c]
<1>1. s \in Seq(Chars) /\ g \in 0 .. Len(s) /\ Len(s) \in Nat /\ answer[c] = "none"
  BY DEF ServerInv, TypeOK, Reads
<1>2. n <= Len(s) - g /\ n \in Nat
  <2>1. Len(s) - g \in Nat
    BY <1>1
  <2>2. Min({BufferSize, Len(s) - g}) \in Nat /\ Min({BufferSize, Len(s) - g}) <= Len(s) - g
    BY <2>1, BufferSizeAssumption, MinOfTwo
  <2> HIDE DEF s, g
  <2>3. n \in 1 .. Min({BufferSize, Len(s) - g})
    BY DEF s, g
  <2> QED
    BY <1>1, <2>2, <2>3
<1>3. n \in 0 .. Len(s) - g /\ g + n \in 0 .. Len(s)
  BY <1>1, <1>2
<1>4. parser[c] = Parse(Reset, SubSeq(s, 1, g))
  BY DEF ServerInv, Answering, ParserAt, After
<1>5. Parse(parser[c], SubSeq(s, g + 1, g + n)) = After(s, g + n)
  BY <1>1, <1>3, <1>4, PiecesJoin DEF After
<1> QED
  BY <1>1, <1>3, <1>5 DEF Reads, acceptor, ServerInv, Answering, Domains, ReadingHasNoResult

LEMMA ReadServerInv ==
    ASSUME ServerInv, NEW c \in Clients, HandleRead(c)
    PROVE  ServerInv'
<1>1. PICK n \in 1 .. Min({BufferSize, Len(msg[c]) - got[c]}) :
           /\ Reads(c, n)
           /\ \/ parser[c]'.state = "true" /\ Answer(c, HandleRequest(parser[c]'.uri))
              \/ parser[c]'.state = "false" /\ Answer(c, "bad_request")
              \/ parser[c]'.state \notin Results /\ UNCHANGED <<conn, answer>>
  BY DEF HandleRead
<1> DEFINE m == got[c] + n
           q == After(msg[c], m)
<1>2. /\ m \in 0 .. Len(msg[c]) /\ msg[c] \in Seq(Chars)
      /\ conn[c] = "reading" /\ parser[c].state \notin Results /\ answer[c] = "none"
      /\ DOMAIN got' = Clients /\ DOMAIN parser' = Clients
      /\ got' = [got EXCEPT ![c] = m] /\ parser' = [parser EXCEPT ![c] = q]
      /\ UNCHANGED <<accepting, errors, msg, gone, written>>
  BY <1>1, ReadParses
<1>3. q.state \in States /\ q.uri \in Seq(Text)
  BY <1>2, AfterIsTyped
<1> DEFINE a == IF q.state = "true" THEN HandleRequest(q.uri) ELSE "bad_request"
<1>4. a \in Answers
  BY OkIsChecked DEF Answers
<1>5. parser'[c] = q /\ got'[c] = m /\ \A d \in Clients \ {c} : parser'[d] = parser[d] /\ got'[d] = got[d]
  BY <1>2 DEF ServerInv, Answering, Domains
<1>6. \/ q.state \in Results /\ Answer(c, a)
      \/ q.state \notin Results /\ UNCHANGED <<conn, answer>>
  BY <1>1, <1>5 DEF Results
<1>7. q = After(msg[c], m)
  OBVIOUS
<1>9. q.state = "true" => a = HandleRequest(q.uri)
  OBVIOUS
<1>10. q.state # "true" => a = "bad_request"
  OBVIOUS
<1> HIDE DEF m, q, a
<1>11. CASE q.state \in Results /\ Answer(c, a)
  <2>1. /\ answer' = [answer EXCEPT ![c] = a]
        /\ conn' = [conn EXCEPT ![c] = IF a = "stream" THEN "stream" ELSE "writing"]
    BY <1>11 DEF Answer
  <2>2. /\ answer'[c] = a /\ DOMAIN answer' = Clients
        /\ conn'[c] = IF a = "stream" THEN "stream" ELSE "writing"
        /\ conn' \in [Clients -> {"none", "backlog", "reading", "writing", "stream", "closed"}]
        /\ \A d \in Clients \ {c} : answer'[d] = answer[d] /\ conn'[d] = conn[d]
    BY <2>1 DEF ServerInv, Answering, Domains, TypeOK
  <2>3. TypeOK'
    <3>1. /\ accepting' \in BOOLEAN /\ errors' \in 0 .. MaxErrors /\ gone' \in [Clients -> BOOLEAN]
      BY <1>2 DEF ServerInv, TypeOK
    <3>2. ASSUME NEW d \in Clients
          PROVE  /\ msg'[d] \in Seq(Chars)
                 /\ got'[d] \in 0 .. Len(msg'[d])
                 /\ parser'[d].state \in States /\ parser'[d].uri \in Seq(Text)
                 /\ answer'[d] \in Answers \cup {"none"}
                 /\ conn'[d] \in {"none", "backlog"} => got'[d] = 0
                 /\ conn'[d] = "reading" => answer'[d] = "none"
                 /\ conn'[d] = "writing" => answer'[d] \in Answers \ {"stream"}
                 /\ conn'[d] = "stream" => answer'[d] = "stream"
                 /\ conn'[d] \notin {"closed"} => written'[d] = <<>>
      <4>1. CASE d = c
        BY <1>2, <1>3, <1>4, <1>5, <2>2, <4>1 DEF ServerInv, TypeOK
      <4>2. CASE d # c
        BY <1>2, <1>5, <2>2, <4>2 DEF ServerInv, TypeOK
      <4> QED
        BY <4>1, <4>2
    <3> QED
      BY <2>2, <3>1, <3>2 DEF TypeOK
  <2>4. Answering'
    <3>1. Domains'
      BY <1>2, <2>2 DEF ServerInv, Answering, Domains
    <3>2. ASSUME NEW d \in Clients
          PROVE  ParserAt(d)' /\ AnswerOfResult(d)' /\ ReadingHasNoResult(d)'
      <4>1. CASE d = c
        BY <1>2, <1>5, <1>7, <1>9, <1>10, <1>11, <2>2, <4>1
        DEF ParserAt, AnswerOfResult, ReadingHasNoResult
      <4>2. CASE d # c
        BY <1>2, <1>5, <2>2, <4>2
        DEF ServerInv, Answering, ParserAt, AnswerOfResult, ReadingHasNoResult
      <4> QED
        BY <4>1, <4>2
    <3> QED
      BY <3>1, <3>2 DEF Answering
  <2> QED
    BY <2>3, <2>4 DEF ServerInv
<1>12. CASE q.state \notin Results /\ UNCHANGED <<conn, answer>>
  <2>1. TypeOK'
    <3>1. /\ accepting' \in BOOLEAN /\ errors' \in 0 .. MaxErrors /\ gone' \in [Clients -> BOOLEAN]
          /\ conn' \in [Clients -> {"none", "backlog", "reading", "writing", "stream", "closed"}]
      BY <1>2, <1>12 DEF ServerInv, TypeOK
    <3>2. ASSUME NEW d \in Clients
          PROVE  /\ msg'[d] \in Seq(Chars)
                 /\ got'[d] \in 0 .. Len(msg'[d])
                 /\ parser'[d].state \in States /\ parser'[d].uri \in Seq(Text)
                 /\ answer'[d] \in Answers \cup {"none"}
                 /\ conn'[d] \in {"none", "backlog"} => got'[d] = 0
                 /\ conn'[d] = "reading" => answer'[d] = "none"
                 /\ conn'[d] = "writing" => answer'[d] \in Answers \ {"stream"}
                 /\ conn'[d] = "stream" => answer'[d] = "stream"
                 /\ conn'[d] \notin {"closed"} => written'[d] = <<>>
      <4>1. CASE d = c
        BY <1>2, <1>3, <1>5, <1>12, <4>1 DEF ServerInv, TypeOK
      <4>2. CASE d # c
        BY <1>2, <1>5, <1>12, <4>2 DEF ServerInv, TypeOK
      <4> QED
        BY <4>1, <4>2
    <3> QED
      BY <3>1, <3>2 DEF TypeOK
  <2>2. Answering'
    <3>1. Domains'
      BY <1>2, <1>12 DEF ServerInv, Answering, Domains
    <3>2. ASSUME NEW d \in Clients
          PROVE  ParserAt(d)' /\ AnswerOfResult(d)' /\ ReadingHasNoResult(d)'
      <4>1. CASE d = c
        BY <1>2, <1>5, <1>7, <1>12, <4>1 DEF ParserAt, AnswerOfResult, ReadingHasNoResult
      <4>2. CASE d # c
        BY <1>2, <1>5, <1>12, <4>2
        DEF ServerInv, Answering, ParserAt, AnswerOfResult, ReadingHasNoResult
      <4> QED
        BY <4>1, <4>2
    <3> QED
      BY <3>1, <3>2 DEF Answering
  <2> QED
    BY <2>1, <2>2 DEF ServerInv
<1> QED
  BY <1>6, <1>11, <1>12

LEMMA ConnectServerInv ==
    ASSUME ServerInv, NEW c \in Clients, Connects(c)
    PROVE  ServerInv'
<1>1. PICK s \in Messages[c] : msg' = [msg EXCEPT ![c] = s]
  BY DEF Connects
<1>2. /\ conn[c] = "none" /\ conn' = [conn EXCEPT ![c] = "backlog"]
      /\ UNCHANGED <<accepting, errors, got, parser, answer, gone, written>>
  BY DEF Connects, acceptor, request
<1>3. s \in Seq(Chars) /\ got[c] = 0 /\ got[c] \in 0 .. Len(s)
  BY <1>1, <1>2, MessagesAssumption DEF ServerInv, TypeOK
<1>4. After(s, 0) = After(msg[c], 0)
  BY <1>3, AfterSteps DEF ServerInv, TypeOK
<1>5. DOMAIN msg' = Clients /\ msg'[c] = s /\ \A d \in Clients \ {c} : msg'[d] = msg[d]
  BY <1>1 DEF ServerInv, Answering, Domains
<1>6. conn'[c] = "backlog" /\ \A d \in Clients \ {c} : conn'[d] = conn[d]
  BY <1>2 DEF ServerInv, TypeOK
<1>7. TypeOK'
  BY <1>2, <1>3, <1>5, <1>6 DEF ServerInv, TypeOK
<1>8. Answering'
  BY <1>2, <1>3, <1>4, <1>5, <1>6
  DEF ServerInv, Answering, Domains, ParserAt, AnswerOfResult, ReadingHasNoResult
<1> QED
  BY <1>7, <1>8 DEF ServerInv
LEMMA AcceptorTyped ==
    ASSUME ServerInv, AcceptFails
    PROVE  accepting' \in BOOLEAN /\ errors' \in 0 .. MaxErrors
<1>1. errors < MaxErrors /\ errors' = errors + 1 /\ accepting' = TRUE
  BY DEF AcceptFails
<1>2. errors \in 0 .. MaxErrors
  BY DEF ServerInv, TypeOK
<1> QED
  BY <1>1, <1>2, MaxErrorsAssumption

\* The steps that read nothing and connect nobody.
LEMMA OtherServerInv ==
    ASSUME ServerInv, NEW c \in Clients,
           \/ HandleAccept(c) \/ HandleReadError(c) \/ HandleWrite(c) \/ GoesAway(c) \/ AcceptFails
           \/ UNCHANGED vars
    PROVE  ServerInv'
<1>1. UNCHANGED <<msg, got, parser, answer>>
  BY DEF HandleAccept, HandleReadError, HandleWrite, GoesAway, AcceptFails, vars, request
<1>2. /\ accepting' \in BOOLEAN /\ errors' \in 0 .. MaxErrors /\ gone' \in [Clients -> BOOLEAN]
      /\ conn' \in [Clients -> {"none", "backlog", "reading", "writing", "stream", "closed"}]
  <2>1. accepting' \in BOOLEAN /\ errors' \in 0 .. MaxErrors
    <3>1. CASE AcceptFails
      BY <3>1, AcceptorTyped
    <3>2. CASE UNCHANGED errors /\ accepting' \in {accepting, TRUE}
      BY <3>2 DEF ServerInv, TypeOK
    <3> QED
      BY <3>1, <3>2
      DEF HandleAccept, HandleReadError, HandleWrite, GoesAway, vars, acceptor
  <2>2. gone' \in [Clients -> BOOLEAN]
    BY DEF HandleAccept, HandleReadError, HandleWrite, GoesAway, AcceptFails, vars, ServerInv, TypeOK
  <2>3. conn' \in [Clients -> {"none", "backlog", "reading", "writing", "stream", "closed"}]
    BY DEF HandleAccept, HandleReadError, HandleWrite, GoesAway, AcceptFails, vars, ServerInv, TypeOK
  <2> QED
    BY <2>1, <2>2, <2>3
<1>3. \/ UNCHANGED conn
      \/ conn[c] = "backlog" /\ conn' = [conn EXCEPT ![c] = "reading"]
      \/ conn' = [conn EXCEPT ![c] = "closed"]
  BY DEF HandleAccept, HandleReadError, HandleWrite, GoesAway, AcceptFails, vars
<1>4. /\ \A d \in Clients \ {c} : conn'[d] = conn[d]
      /\ conn'[c] = conn[c] \/ (conn[c] = "backlog" /\ conn'[c] = "reading") \/ conn'[c] = "closed"
  BY <1>3 DEF ServerInv, TypeOK
<1>5. DOMAIN written' = Clients /\ \A d \in Clients : conn'[d] # "closed" => written'[d] = <<>>
  <2>1. CASE UNCHANGED written
    <3>1. conn[c] = "closed" => conn'[c] = "closed"
      BY DEF HandleAccept, HandleReadError, HandleWrite, GoesAway, AcceptFails, vars, ServerInv, TypeOK
    <3> QED
      BY <1>4, <2>1, <3>1 DEF ServerInv, TypeOK, Answering, Domains
  <2>2. CASE \E w : written' = [written EXCEPT ![c] = w] /\ conn' = [conn EXCEPT ![c] = "closed"]
    BY <1>4, <2>2 DEF ServerInv, TypeOK, Answering, Domains
  <2> QED
    BY <2>1, <2>2 DEF HandleAccept, HandleReadError, HandleWrite, GoesAway, AcceptFails, vars
<1>6. conn[c] = "backlog" => answer[c] = "none"
  BY DEF ServerInv, Answering, AnswerOfResult, ReadingHasNoResult
<1>7. TypeOK'
  BY <1>1, <1>2, <1>4, <1>5, <1>6 DEF ServerInv, TypeOK
<1>8. Answering'
  BY <1>1, <1>4, <1>5
  DEF ServerInv, Answering, Domains, ParserAt, AnswerOfResult, ReadingHasNoResult
<1> QED
  BY <1>7, <1>8 DEF ServerInv

LEMMA NextServerInv == ServerInv /\ [Next]_vars => ServerInv'
<1> SUFFICES ASSUME ServerInv, [Next]_vars PROVE ServerInv'
  OBVIOUS
<1>1. CASE Clients = {}
  <2>1. AcceptFails \/ UNCHANGED vars
    BY <1>1 DEF Next
  <2>2. UNCHANGED <<conn, msg, got, parser, answer, gone, written>>
    BY <2>1 DEF AcceptFails, vars, request
  <2>3. accepting' \in BOOLEAN /\ errors' \in 0 .. MaxErrors
    <3>1. CASE UNCHANGED vars
      BY <3>1 DEF vars, ServerInv, TypeOK
    <3> QED
      BY <2>1, <3>1, AcceptorTyped
  <2> QED
    BY <1>1, <2>2, <2>3 DEF ServerInv, TypeOK, Answering, Domains
<1>2. CASE Clients # {}
  BY <1>2, ReadServerInv, ConnectServerInv, OtherServerInv DEF Next, ConnectionStep
<1> QED
  BY <1>1, <1>2

\* An answer is the one the grammar gives, by what the parser has made of
\* as much of the message as has been read.
LEMMA AnswersByGrammar == ServerInv => AnswerFitsRequest
<1> SUFFICES ASSUME ServerInv, NEW c \in Clients
             PROVE  /\ answer[c] # "none" =>
                         LET ends == Requests(msg[c])
                         IN  answer[c] = IF ends = {} THEN "bad_request"
                                         ELSE HandleRequest(UriOf(SubSeq(msg[c], 1, Min(ends))))
                    /\ conn[c] = "reading" => Requests(msg[c]) \cap 1 .. got[c] = {}
  BY DEF AnswerFitsRequest
<1> DEFINE s == msg[c]
           k == got[c]
           p == parser[c]
<1>1. s \in Seq(Chars) /\ k \in 0 .. Len(s) /\ p = Parse(Reset, SubSeq(s, 1, k))
  BY DEF ServerInv, TypeOK, Answering, ParserAt, After
<1>2. /\ p.state = "true" => \E m \in 1 .. k : Requests(s) = {m} /\ p.uri = UriOf(SubSeq(s, 1, m))
      /\ p.state = "false" => Requests(s) = {}
      /\ p.state \notin Results => Requests(s) \cap 1 .. k = {}
  <2> HIDE DEF s, k, p
  <2> QED
    BY <1>1, ParserFitsGrammar DEF Results
<1>3. AnswerOfResult(c) /\ ReadingHasNoResult(c)
  BY DEF ServerInv, Answering
<1>4. ASSUME answer[c] # "none", p.state = "true"
      PROVE  Requests(s) # {} /\ answer[c] = HandleRequest(UriOf(SubSeq(s, 1, Min(Requests(s)))))
  <2>1. PICK m \in 1 .. k : Requests(s) = {m} /\ p.uri = UriOf(SubSeq(s, 1, m))
    BY <1>2, <1>4
  <2>2. Min({m}) = m
    BY DEF Min
  <2> QED
    BY <1>3, <1>4, <2>1, <2>2 DEF AnswerOfResult, Results
<1>5. ASSUME answer[c] # "none", p.state # "true" PROVE Requests(s) = {} /\ answer[c] = "bad_request"
  BY <1>2, <1>3, <1>5 DEF AnswerOfResult, Results
<1>6. conn[c] = "reading" => Requests(s) \cap 1 .. k = {}
  BY <1>2, <1>3 DEF ReadingHasNoResult
<1> QED
  BY <1>4, <1>5, <1>6

LEMMA ServerInvAlways == Spec => []ServerInv
<1> QED
  BY InitServerInv, NextServerInv, PTL DEF Spec

\* The variables keep their types, and a connection's stage, answer and
\* output go together.
THEOREM TypeCorrect == Spec => []TypeOK
<1>1. ServerInv => TypeOK
  BY DEF ServerInv
<1> QED
  BY <1>1, ServerInvAlways, PTL

\* No request, however it is escaped and cut, is answered with a file that
\* is not below the document root, whatever is made of its path between the
\* check and the opening.
THEOREM FilesStayUnderRoot == Spec => []FilesUnderRoot
<1>1. ServerInv => FilesUnderRoot
  <2> SUFFICES ASSUME ServerInv, NEW c \in Clients, answer[c] = "ok"
               PROVE  ~GoesUp(Opened(FullPath(PathOf(parser[c].uri))))
    BY DEF FilesUnderRoot
  <2>1. parser[c].uri \in Seq(Text) /\ AnswerOfResult(c)
    BY DEF ServerInv, TypeOK, Answering
  <2>2. HandleRequest(parser[c].uri) = "ok"
    BY <2>1 DEF AnswerOfResult
  <2>3. IsPath(parser[c].uri)
    BY <2>2, OkIsChecked
  <2> QED
    BY <2>1, <2>3, PathIsTyped, OpenedStaysDown DEF IsPath
<1> QED
  BY <1>1, ServerInvAlways, PTL

\* However the bytes of a client are cut into reads, the answer is the one
\* that the grammar gives to the request they begin with.
THEOREM AnswersFitRequests == Spec => []AnswerFitsRequest
  BY AnswersByGrammar, ServerInvAlways, PTL

(***************************************************************************)
(* Replies.  A reply is flattened from sequences of sequences, and so is a *)
(* file from its blocks.                                                   *)
(***************************************************************************)
Flattens(f, seqs, n) == f = [i \in 1 .. n |-> IF i = 1 THEN seqs[i] ELSE f[i - 1] \o seqs[i]]

LEMMA FlattenExists == ASSUME NEW seqs, NEW n \in Nat PROVE \E f : Flattens(f, seqs, n)
<1> DEFINE Flat == {m \in Nat : \E f : Flattens(f, seqs, m)}
<1>1. 0 \in Flat
  <2>1. Flattens([i \in 1 .. 0 |-> seqs], seqs, 0)
    BY DEF Flattens
  <2> QED
    BY <2>1
<1>2. ASSUME NEW m \in Nat, m \in Flat PROVE m + 1 \in Flat
  <2>1. PICK f : Flattens(f, seqs, m)
    BY <1>2
  <2> DEFINE g == [i \in 1 .. m + 1 |->
                     IF i = m + 1 THEN (IF i = 1 THEN seqs[i] ELSE f[m] \o seqs[i]) ELSE f[i]]
  <2>2. ASSUME NEW i \in 1 .. m + 1
        PROVE  g[i] = IF i = 1 THEN seqs[i] ELSE g[i - 1] \o seqs[i]
    <3>1. CASE i = m + 1
      BY <3>1
    <3>2. CASE i # m + 1
      <4>1. i \in 1 .. m /\ (i # 1 => i - 1 \in 1 .. m + 1 /\ i - 1 # m + 1)
        BY <3>2
      <4>2. f[i] = IF i = 1 THEN seqs[i] ELSE f[i - 1] \o seqs[i]
        BY <2>1, <4>1 DEF Flattens
      <4> QED
        BY <3>2, <4>1, <4>2
    <3> QED
      BY <3>1, <3>2
  <2>3. g = [i \in 1 .. m + 1 |-> IF i = 1 THEN seqs[i] ELSE g[i - 1] \o seqs[i]]
    BY <2>2
  <2> HIDE DEF g
  <2>4. \E h : Flattens(h, seqs, m + 1)
    BY <2>3 DEF Flattens
  <2>5. m + 1 \in Nat
    OBVIOUS
  <2> QED
    BY <2>4, <2>5, Zenon
<1> HIDE DEF Flat
<1>3. n \in Flat
  BY <1>1, <1>2, Induction
<1> QED
  BY <1>3 DEF Flat

LEMMA FlattenIs ==
    ASSUME NEW seqs, NEW n \in Nat \ {0}, Len(seqs) = n
    PROVE  \E f : /\ FlattenSeq(seqs) = f[n] /\ f[1] = seqs[1]
                  /\ \A i \in 1 .. n - 1 : f[i + 1] = f[i] \o seqs[i + 1]
<1> DEFINE f == CHOOSE x : Flattens(x, seqs, n)
<1>1. Flattens(f, seqs, n)
  BY FlattenExists
<1>2. FlattenSeq(seqs) = f[n]
  BY DEF FlattenSeq, Flattens
<1> HIDE DEF f
<1>3. \A i \in 1 .. n : f[i] = IF i = 1 THEN seqs[i] ELSE f[i - 1] \o seqs[i]
  BY <1>1 DEF Flattens
<1>4. f[1] = seqs[1]
  <2>1. 1 \in 1 .. n
    OBVIOUS
  <2> QED
    BY <1>3, <2>1
<1>5. ASSUME NEW i \in 1 .. n - 1 PROVE f[i + 1] = f[i] \o seqs[i + 1]
  <2>1. i + 1 \in 1 .. n /\ i + 1 # 1 /\ (i + 1) - 1 = i
    OBVIOUS
  <2>2. f[i + 1] = IF i + 1 = 1 THEN seqs[i + 1] ELSE f[(i + 1) - 1] \o seqs[i + 1]
    BY <1>3, <2>1
  <2> QED
    BY <2>1, <2>2
<1> QED
  BY <1>2, <1>4, <1>5

\* What precedes the content of a reply, element by element.
HeadAt(u, status, length, type) ==
    /\ u[1] = status
    /\ u[2] = "Content-Length" /\ u[3] = ": " /\ u[4] = length /\ u[5] = "crlf"
    /\ u[6] = "Content-Type" /\ u[7] = ": " /\ u[8] = type /\ u[9] = "crlf"
    /\ u[10] = "crlf"

IsHead(u, status, length, type) == Len(u) = 10 /\ HeadAt(u, status, length, type)

IsLine(h, name, value) == h[1] = name /\ h[2] = ": " /\ h[3] = value /\ h[4] = "crlf"

\* w is s and then u, of m and n elements.
Joins(w, s, u, m, n, S) ==
    /\ w \in Seq(S) /\ Len(w) = m + n
    /\ \A i \in 1 .. m : w[i] = s[i]
    /\ \A i \in 1 .. n : w[m + i] = u[i]
LEMMA ConcatAt ==
    ASSUME NEW S, NEW s \in Seq(S), NEW u \in Seq(S), NEW m \in Nat, NEW n \in Nat,
           Len(s) = m, Len(u) = n
    PROVE  Joins(s \o u, s, u, m, n, S)
  BY DEF Joins

JoinsFour(u, a, h1, h2, z, S) ==
    /\ u \in Seq(S) /\ Len(u) = 10 /\ u[1] = a[1] /\ u[10] = z[1]
    /\ u[2] = h1[1] /\ u[3] = h1[2] /\ u[4] = h1[3] /\ u[5] = h1[4]
    /\ u[6] = h2[1] /\ u[7] = h2[2] /\ u[8] = h2[3] /\ u[9] = h2[4]

LEMMA TenAt ==
    ASSUME NEW S, NEW a \in Seq(S), NEW h1 \in Seq(S), NEW h2 \in Seq(S), NEW z \in Seq(S),
           Len(a) = 1, Len(z) = 1, Len(h1) = 4, Len(h2) = 4
    PROVE  JoinsFour(a \o (h1 \o h2) \o z, a, h1, h2, z, S)
<1> DEFINE hs == h1 \o h2
           ah == a \o hs
           u == ah \o z
<1>1. Joins(hs, h1, h2, 4, 4, S)
  BY ConcatAt
<1> HIDE DEF hs
<1>2. hs \in Seq(S) /\ Len(hs) = 8
  BY <1>1 DEF Joins
<1>3. Joins(ah, a, hs, 1, 8, S)
  BY <1>2, ConcatAt
<1> HIDE DEF ah
<1>4. ah \in Seq(S) /\ Len(ah) = 9
  BY <1>3 DEF Joins
<1>5. Joins(u, ah, z, 9, 1, S)
  BY <1>4, ConcatAt
<1> HIDE DEF u
<1>6. u \in Seq(S) /\ Len(u) = 10
  BY <1>5 DEF Joins
<1>7. /\ hs[1] = h1[1] /\ hs[2] = h1[2] /\ hs[3] = h1[3] /\ hs[4] = h1[4]
      /\ hs[5] = h2[1] /\ hs[6] = h2[2] /\ hs[7] = h2[3] /\ hs[8] = h2[4]
  BY <1>1 DEF Joins
<1>8. /\ ah[1] = a[1] /\ ah[2] = hs[1] /\ ah[3] = hs[2] /\ ah[4] = hs[3] /\ ah[5] = hs[4]
      /\ ah[6] = hs[5] /\ ah[7] = hs[6] /\ ah[8] = hs[7] /\ ah[9] = hs[8]
  BY <1>3 DEF Joins
<1>9. /\ u[1] = ah[1] /\ u[2] = ah[2] /\ u[3] = ah[3] /\ u[4] = ah[4] /\ u[5] = ah[5]
      /\ u[6] = ah[6] /\ u[7] = ah[7] /\ u[8] = ah[8] /\ u[9] = ah[9] /\ u[10] = z[1]
  BY <1>5 DEF Joins
<1>10. /\ u[1] = a[1] /\ u[10] = z[1]
       /\ u[2] = h1[1] /\ u[3] = h1[2] /\ u[4] = h1[3] /\ u[5] = h1[4]
       /\ u[6] = h2[1] /\ u[7] = h2[2] /\ u[8] = h2[3] /\ u[9] = h2[4]
  BY <1>7, <1>8, <1>9, Zenon
<1> QED
  BY <1>6, <1>10, Zenon DEF u, ah, hs, JoinsFour

LEMMA HeadIs ==
    ASSUME NEW S, NEW a \in Seq(S), NEW h1 \in Seq(S), NEW h2 \in Seq(S), NEW z \in Seq(S),
           Len(a) = 1, Len(z) = 1, Len(h1) = 4, Len(h2) = 4,
           NEW status, NEW length, NEW type, a[1] = status, z[1] = "crlf",
           IsLine(h1, "Content-Length", length), IsLine(h2, "Content-Type", type)
    PROVE  a \o (h1 \o h2) \o z \in Seq(S) /\ IsHead(a \o (h1 \o h2) \o z, status, length, type)
<1> DEFINE u == a \o (h1 \o h2) \o z
<1>1. JoinsFour(u, a, h1, h2, z, S)
  BY TenAt
<1> HIDE DEF u
<1>2. IsHead(u, status, length, type)
  BY <1>1, Zenon DEF IsHead, HeadAt, IsLine, JoinsFour
<1> QED
  BY <1>1, <1>2 DEF u, JoinsFour
LEMMA BuffersAre ==
    ASSUME NEW status \in Statuses, NEW T, NEW content \in Seq(T), NEW type
    PROVE  \E S : \E u \in Seq(S) :
              /\ content \in Seq(S) /\ IsHead(u, status, ToString(Len(content)), type)
              /\ ToBuffers(ReplyOf(status, content, type)) = u \o content
<1> DEFINE length == ToString(Len(content))
           h == << <<"Content-Length", length>>, <<"Content-Type", type>> >>
           seqs == [i \in DOMAIN h |-> <<h[i][1], ": ", h[i][2], "crlf">>]
           h1 == <<"Content-Length", ": ", length, "crlf">>
           h2 == <<"Content-Type", ": ", type, "crlf">>
           a == <<status>>
           z == <<"crlf">>
           S == T \cup {status, length, type, "Content-Length", "Content-Type", ": ", "crlf"}
           u == a \o (h1 \o h2) \o z
<1>0. ToBuffers(ReplyOf(status, content, type)) = a \o FlattenSeq(seqs) \o z \o content
  BY DEF ToBuffers, ReplyOf
<1> HIDE DEF length
<1>1. /\ DOMAIN h = 1 .. 2
      /\ h[1][1] = "Content-Length" /\ h[1][2] = length
      /\ h[2][1] = "Content-Type" /\ h[2][2] = type
  OBVIOUS
<1> HIDE DEF h
<1>2. seqs = [i \in 1 .. 2 |-> <<h[i][1], ": ", h[i][2], "crlf">>]
  BY <1>1
<1> DEFINE line(i) == <<h[i][1], ": ", h[i][2], "crlf">>
<1>13. seqs = [i \in 1 .. 2 |-> line(i)]
  BY <1>2
<1> HIDE DEF seqs, line
<1>3. Len(seqs) = 2
  BY <1>13
<1>4. seqs[1] = h1 /\ seqs[2] = h2
  <2>2. seqs[1] = line(1) /\ seqs[2] = line(2)
    BY <1>13
  <2>1. seqs[1] = <<h[1][1], ": ", h[1][2], "crlf">> /\ seqs[2] = <<h[2][1], ": ", h[2][2], "crlf">>
    BY <2>2, Zenon DEF line
  <2> QED
    BY <1>1, <2>1, Zenon
<1>5. /\ h1 \in Seq(S) /\ Len(h1) = 4 /\ h2 \in Seq(S) /\ Len(h2) = 4
      /\ h1[1] = "Content-Length" /\ h1[2] = ": " /\ h1[3] = length /\ h1[4] = "crlf"
      /\ h2[1] = "Content-Type" /\ h2[2] = ": " /\ h2[3] = type /\ h2[4] = "crlf"
  OBVIOUS
<1>6. a \in Seq(S) /\ z \in Seq(S) /\ Len(a) = 1 /\ Len(z) = 1 /\ a[1] = status /\ z[1] = "crlf"
  OBVIOUS
<1>7. T \subseteq S
  OBVIOUS
<1> HIDE DEF h1, h2, S, a, z
<1>8. content \in Seq(S)
  BY <1>7
<1>9. FlattenSeq(seqs) = h1 \o h2
  <2>1. 2 \in Nat \ {0} /\ 1 \in 1 .. 2 - 1 /\ 1 + 1 = 2
    OBVIOUS
  <2>2. PICK f : /\ FlattenSeq(seqs) = f[2] /\ f[1] = seqs[1]
                 /\ \A i \in 1 .. 2 - 1 : f[i + 1] = f[i] \o seqs[i + 1]
    BY <1>3, <2>1, FlattenIs
  <2>3. f[1 + 1] = f[1] \o seqs[1 + 1]
    BY <2>1, <2>2, Zenon
  <2> QED
    BY <1>4, <2>1, <2>2, <2>3
<1>12. IsLine(h1, "Content-Length", length) /\ IsLine(h2, "Content-Type", type)
  BY <1>5, Zenon DEF IsLine
<1>10. u \in Seq(S) /\ IsHead(u, status, length, type)
  BY <1>5, <1>6, <1>12, HeadIs
<1>11. ToBuffers(ReplyOf(status, content, type)) = u \o content
  BY <1>0, <1>9
<1> HIDE DEF u
<1> QED
  BY <1>8, <1>10, <1>11 DEF length

(***************************************************************************)
(* What a client reads.  The headers end at the tenth element, because no  *)
(* other line end follows a line end; each header is found where it is.    *)
(***************************************************************************)
FourAre(r, i, a, b, c, d) == r[i] = a /\ r[i + 1] = b /\ r[i + 2] = c /\ r[i + 3] = d

LEMMA FourAt ==
    ASSUME NEW S, NEW r \in Seq(S), NEW i \in 1 .. Len(r) - 3, NEW a, NEW b, NEW c, NEW d
    PROVE  SubSeq(r, i, i + 3) = <<a, b, c, d>> <=> FourAre(r, i, a, b, c, d)
<1> DEFINE w == SubSeq(r, i, i + 3)
           v == <<a, b, c, d>>
           V == S \cup {a, b, c, d}
<1>1. /\ w \in Seq(S) /\ Len(w) = 4
      /\ w[1] = r[i] /\ w[2] = r[i + 1] /\ w[3] = r[i + 2] /\ w[4] = r[i + 3]
  OBVIOUS
<1>2. v \in Seq(V) /\ Len(v) = 4 /\ v[1] = a /\ v[2] = b /\ v[3] = c /\ v[4] = d
  OBVIOUS
<1>3. S \subseteq V
  OBVIOUS
<1> HIDE DEF w, v, V
<1>4. w \in Seq(V)
  BY <1>1, <1>3
<1>5. ASSUME w[1] = v[1], w[2] = v[2], w[3] = v[3], w[4] = v[4] PROVE w = v
  <2>1. \A k \in 1 .. 4 : k = 1 \/ k = 2 \/ k = 3 \/ k = 4
    OBVIOUS
  <2>2. \A k \in 1 .. 4 : w[k] = v[k]
    BY <1>5, <2>1
  <2> QED
    BY <1>1, <1>2, <1>4, <2>2, SeqEqual
<1>6. w = v <=> r[i] = a /\ r[i + 1] = b /\ r[i + 2] = c /\ r[i + 3] = d
  BY <1>1, <1>2, <1>5
<1> QED
  BY <1>6 DEF w, v, FourAre

\* Of places that are not next to each other but for the last two.
LEMMA FirstPair ==
    ASSUME NEW n \in Nat, n >= 10, NEW B,
           2 \notin B, 3 \notin B, 4 \notin B, 6 \notin B, 7 \notin B, 8 \notin B,
           9 \in B, 10 \in B
    PROVE  Min({i \in 2 .. n : i \in B /\ i - 1 \in B}) = 10
<1> DEFINE E == {i \in 2 .. n : i \in B /\ i - 1 \in B}
<1>1. E \in SUBSET Nat /\ 10 \in E
  OBVIOUS
<1>2. \A m \in E : 10 <= m
  OBVIOUS
<1> HIDE DEF E
<1>3. Min(E) \in E /\ Min(E) <= 10
  BY <1>1, MinIsLeast
<1> DEFINE m == Min(E)
<1> HIDE DEF m
<1>5. m \in Nat /\ m <= 10 /\ 10 <= m
  BY <1>1, <1>2, <1>3 DEF m
<1>4. m = 10
  BY <1>5
<1> QED
  BY <1>4, Zenon DEF E, m

LEMMA HeadJoins ==
    ASSUME NEW S, NEW u \in Seq(S), NEW content \in Seq(S),
           NEW status, NEW length, NEW type, IsHead(u, status, length, type)
    PROVE  Joins(u \o content, u, content, 10, Len(content), S)
<1>1. Len(u) \in Nat /\ Len(content) \in Nat
  OBVIOUS
<1>2. Len(u) = 10
  BY Zenon DEF IsHead
<1>3. Joins(u \o content, u, content, Len(u), Len(content), S)
  BY <1>1, ConcatAt, Zenon
<1> QED
  BY <1>2, <1>3, Zenon

LEMMA HeadElements ==
    ASSUME NEW S, NEW u \in Seq(S), NEW content \in Seq(S),
           NEW status, NEW length, NEW type, IsHead(u, status, length, type)
    PROVE  HeadAt(u \o content, status, length, type)
<1> DEFINE r == u \o content
<1>1. Joins(r, u, content, 10, Len(content), S)
  BY HeadJoins
<1> HIDE DEF r
<1>2. /\ r[1] = u[1] /\ r[2] = u[2] /\ r[3] = u[3] /\ r[4] = u[4] /\ r[5] = u[5]
      /\ r[6] = u[6] /\ r[7] = u[7] /\ r[8] = u[8] /\ r[9] = u[9] /\ r[10] = u[10]
  BY <1>1 DEF Joins
<1>3. HeadAt(r, status, length, type)
  BY <1>2, Zenon DEF IsHead, HeadAt
<1> QED
  BY <1>3, Zenon DEF r

\* Neither value of a header is a line end.
Apart(length, type) == length # "crlf" /\ type # "crlf"

LEMMA HeadersEndIs ==
    ASSUME NEW S, NEW u \in Seq(S), NEW content \in Seq(S),
           NEW status, NEW length, NEW type, IsHead(u, status, length, type),
           Apart(length, type)
    PROVE  HeadersEnd(u \o content) = 10
<1> DEFINE r == u \o content
           n == Len(r)
           B == {i \in 1 .. n : r[i] = "crlf"}
<1>9. Joins(r, u, content, 10, Len(content), S)
  BY HeadJoins
<1>1. n \in Nat /\ n >= 10
  BY <1>9 DEF Joins
<1> HIDE DEF n
<1>2. 9 \in 1 .. n /\ 10 \in 1 .. n
  BY <1>1
<1>10. HeadAt(r, status, length, type)
  BY HeadElements, Zenon
<1>3. /\ r[2] = "Content-Length" /\ r[3] = ": " /\ r[4] = length
      /\ r[6] = "Content-Type" /\ r[7] = ": " /\ r[8] = type
      /\ r[9] = "crlf" /\ r[10] = "crlf"
  BY <1>10, Zenon DEF HeadAt
<1> HIDE DEF r
<1>4. /\ 2 \notin B /\ 3 \notin B /\ 4 \notin B /\ 6 \notin B /\ 7 \notin B /\ 8 \notin B
      /\ 9 \in B /\ 10 \in B
  BY <1>2, <1>3, Zenon DEF Apart
<1>5. \A i \in 2 .. n : i \in 1 .. n /\ i - 1 \in 1 .. n
  BY <1>1
<1>6. {i \in 2 .. n : r[i] = "crlf" /\ r[i - 1] = "crlf"} = {i \in 2 .. n : i \in B /\ i - 1 \in B}
  BY <1>5, Zenon
<1> HIDE DEF B
<1>7. Min({i \in 2 .. n : i \in B /\ i - 1 \in B}) = 10
  BY <1>1, <1>4, FirstPair
<1>8. Min({i \in 2 .. n : r[i] = "crlf" /\ r[i - 1] = "crlf"}) = 10
  BY <1>6, <1>7, Zenon
<1> QED
  BY <1>8, Zenon DEF HeadersEnd, n, r

\* The content that a client reads is the one the reply was written with.
LEMMA ContentIs ==
    ASSUME NEW S, NEW u \in Seq(S), NEW content \in Seq(S),
           NEW status, NEW length, NEW type, IsHead(u, status, length, type),
           Apart(length, type)
    PROVE  ContentRead(u \o content) = content
<1> DEFINE r == u \o content
           w == SubSeq(r, 11, Len(r))
<1>1. HeadersEnd(r) = 10
  BY HeadersEndIs
<1>6. Joins(r, u, content, 10, Len(content), S)
  BY HeadJoins
<1> HIDE DEF r
<1>2. /\ r \in Seq(S) /\ Len(content) \in Nat /\ Len(r) = 10 + Len(content)
      /\ \A i \in 1 .. Len(content) : r[10 + i] = content[i]
  BY <1>6 DEF Joins
<1>3. /\ w \in Seq(S) /\ Len(w) = Len(content)
      /\ \A i \in 1 .. Len(content) : w[i] = r[10 + i]
  BY <1>2
<1>4. ContentRead(r) = w
  BY <1>1 DEF ContentRead
<1> HIDE DEF w
<1>5. w = content
  BY <1>2, <1>3, SeqEqual
<1> QED
  BY <1>4, <1>5, Zenon DEF r

\* A header is looked for in the seven places before the empty line.
LEMMA HeaderAt ==
    ASSUME NEW S, NEW u \in Seq(S), NEW content \in Seq(S),
           NEW status, NEW length, NEW type, IsHead(u, status, length, type),
           Apart(length, type), NEW name, NEW value
    PROVE  HasHeader(u \o content, name, value)
              <=> \E i \in 2 .. 7 : FourAre(u \o content, i, name, ": ", value, "crlf")
<1> DEFINE r == u \o content
           n == Len(r)
<1>1. HeadersEnd(r) = 10
  BY HeadersEndIs
<1>2. Joins(r, u, content, 10, Len(content), S)
  BY HeadJoins
<1>3. r \in Seq(S) /\ n \in Nat /\ n >= 10
  BY <1>2 DEF Joins
<1>4. 10 - 3 = 7
  OBVIOUS
<1>5. HasHeader(r, name, value)
         <=> \E i \in 2 .. 7 : SubSeq(r, i, i + 3) = <<name, ": ", value, "crlf">>
  BY <1>1, <1>4, Zenon DEF HasHeader
<1> HIDE DEF n
<1>6. \A i \in 2 .. 7 : i \in 1 .. n - 3
  BY <1>3
<1> HIDE DEF r
<1>7. ASSUME NEW i \in 2 .. 7
      PROVE  SubSeq(r, i, i + 3) = <<name, ": ", value, "crlf">>
                <=> FourAre(r, i, name, ": ", value, "crlf")
  <2>1. i \in 1 .. Len(r) - 3
    BY <1>6, Zenon DEF n
  <2> QED
    BY <1>3, <2>1, FourAt, Zenon
<1>8. HasHeader(r, name, value)
         <=> \E i \in 2 .. 7 : FourAre(r, i, name, ": ", value, "crlf")
  BY <1>5, <1>7, Zenon
<1> QED
  BY <1>8, Zenon DEF r

LEMMA LengthIsRead ==
    ASSUME NEW S, NEW u \in Seq(S), NEW content \in Seq(S),
           NEW status, NEW length, NEW type, IsHead(u, status, length, type),
           Apart(length, type)
    PROVE  HasHeader(u \o content, "Content-Length", length)
<1> DEFINE r == u \o content
<1>1. HeadAt(r, status, length, type)
  BY HeadElements, Zenon
<1>2. 2 \in 2 .. 7 /\ 2 + 1 = 3 /\ 2 + 2 = 4 /\ 2 + 3 = 5
  OBVIOUS
<1>3. HasHeader(r, "Content-Length", length)
         <=> \E i \in 2 .. 7 : FourAre(r, i, "Content-Length", ": ", length, "crlf")
  BY HeaderAt, Zenon
<1> HIDE DEF r
<1>4. FourAre(r, 2, "Content-Length", ": ", length, "crlf")
  BY <1>1, <1>2, Zenon DEF HeadAt, FourAre
<1>5. HasHeader(r, "Content-Length", length)
  BY <1>2, <1>3, <1>4, Zenon
<1> QED
  BY <1>5, Zenon DEF r

LEMMA TypeIsRead ==
    ASSUME NEW S, NEW u \in Seq(S), NEW content \in Seq(S),
           NEW status, NEW length, NEW type, IsHead(u, status, length, type),
           Apart(length, type), NEW value
    PROVE  HasHeader(u \o content, "Content-Type", value) <=> type = value
<1> DEFINE r == u \o content
           At(i) == FourAre(r, i, "Content-Type", ": ", value, "crlf")
<1>1. HeadAt(r, status, length, type)
  BY HeadElements, Zenon
<1>2. \A i \in 2 .. 7 : i = 2 \/ i = 3 \/ i = 4 \/ i = 5 \/ i = 6 \/ i = 7
  OBVIOUS
<1>3. 6 \in 2 .. 7 /\ 4 + 1 = 5 /\ 5 + 1 = 6 /\ 6 + 1 = 7 /\ 6 + 2 = 8 /\ 6 + 3 = 9
  OBVIOUS
<1>4. HasHeader(r, "Content-Type", value) <=> \E i \in 2 .. 7 : At(i)
  BY HeaderAt, Zenon
<1> HIDE DEF r
<1>5. ~At(2) /\ ~At(3) /\ ~At(4) /\ ~At(5) /\ ~At(7)
  BY <1>1, <1>3 DEF HeadAt, FourAre
<1>6. At(6) <=> type = value
  BY <1>1, <1>3, Zenon DEF HeadAt, FourAre
<1> HIDE DEF At
<1>7. HasHeader(r, "Content-Type", value) <=> type = value
  BY <1>2, <1>3, <1>4, <1>5, <1>6, Zenon
<1> QED
  BY <1>7, Zenon DEF r

\* What a client makes of a reply it has read to the end.
ReadsAs(w, status, content, type) ==
    /\ w # <<>> /\ w[1] = status /\ ContentRead(w) = content
    /\ HasHeader(w, "Content-Length", ToString(Len(content)))
    /\ \A v : HasHeader(w, "Content-Type", v) <=> type = v

LEMMA ReplyReads ==
    ASSUME NEW status \in Statuses, NEW T, NEW content \in Seq(T), NEW type,
           Apart(ToString(Len(content)), type)
    PROVE  ReadsAs(ToBuffers(ReplyOf(status, content, type)), status, content, type)
<1> DEFINE length == ToString(Len(content))
           w == ToBuffers(ReplyOf(status, content, type))
<1>1. PICK S : \E u \in Seq(S) :
         content \in Seq(S) /\ IsHead(u, status, length, type) /\ w = u \o content
  BY BuffersAre, Zenon
<1>2. PICK u \in Seq(S) :
         content \in Seq(S) /\ IsHead(u, status, length, type) /\ w = u \o content
  BY <1>1, Zenon
<1> HIDE DEF w
<1>3. Apart(length, type)
  OBVIOUS
<1> HIDE DEF length
<1>4. Joins(w, u, content, 10, Len(content), S)
  BY <1>2, HeadJoins, Zenon
<1>5. w # <<>>
  BY <1>4 DEF Joins
<1>6. w[1] = status
  <2>1. HeadAt(w, status, length, type)
    BY <1>2, HeadElements, Zenon
  <2> QED
    BY <2>1, Zenon DEF HeadAt
<1>7. ContentRead(w) = content
  BY <1>2, <1>3, ContentIs, Zenon
<1>8. HasHeader(w, "Content-Length", length)
  BY <1>2, <1>3, LengthIsRead, Zenon
<1>9. ASSUME NEW v PROVE HasHeader(w, "Content-Type", v) <=> type = v
  BY <1>2, <1>3, TypeIsRead, Zenon
<1> QED
  BY <1>5, <1>6, <1>7, <1>8, <1>9, Zenon DEF ReadsAs, w, length

\* Where the k-th block of a file of n bytes ends.
Cut(k, n) == Min({k * BlockSize, n})

LEMMA BlocksCover ==
    ASSUME NEW n \in Nat
    PROVE  LET m == (n + BlockSize - 1) \div BlockSize
           IN  /\ m \in Nat /\ (m = 0 <=> n = 0)
               /\ \A k \in Nat : k < m => Cut(k, n) = k * BlockSize /\ k * BlockSize \in 0 .. n
               /\ Cut(m, n) = n
<1> DEFINE B == BlockSize
           m == (n + B - 1) \div B
<1>1. B \in Nat /\ B >= 1
  BY BlockSizeAssumption
<1> HIDE DEF B
<1>2. m \in Nat /\ m * B <= n + B - 1 /\ n + B - 1 < (m + 1) * B
  BY <1>1
<1> HIDE DEF m
<1>3. (m + 1) * B = m * B + B /\ m * B \in Nat
  BY <1>1, <1>2
<1>4. n <= m * B
  BY <1>1, <1>2, <1>3
<1>5. ASSUME NEW k \in Nat, k < m PROVE k * B \in Nat /\ k * B <= n
  <2>1. k + 1 <= m /\ k + 1 \in Nat
    BY <1>2, <1>5
  <2>2. (k + 1) * B <= m * B
    BY <1>1, <1>2, <2>1
  <2>3. (k + 1) * B = k * B + B /\ k * B \in Nat
    BY <1>1
  <2> QED
    BY <1>1, <1>2, <1>3, <2>2, <2>3
<1>6. ASSUME NEW a \in Nat, NEW b \in Nat
      PROVE  (a <= b => Min({a, b}) = a) /\ (b <= a => Min({a, b}) = b)
  <2>1. Min({a, b}) \in {a, b} /\ Min({a, b}) <= a /\ Min({a, b}) <= b
    BY MinIsLeast
  <2> QED
    BY <2>1
<1>7. ASSUME NEW k \in Nat, k < m PROVE Cut(k, n) = k * B /\ k * B \in 0 .. n
  BY <1>5, <1>6, <1>7 DEF Cut, B
<1>8. Cut(m, n) = n
  BY <1>3, <1>4, <1>6 DEF Cut, B
<1>9. m = 0 <=> n = 0
  <2>1. ASSUME m = 0 PROVE n = 0
    BY <1>4, <1>1, <2>1
  <2>2. ASSUME n = 0, m # 0 PROVE FALSE
    <3>1. m >= 1
      BY <1>2, <2>2
    <3>2. 1 * B <= m * B /\ 1 * B = B
      BY <1>1, <1>2, <3>1
    <3> QED
      BY <1>1, <1>2, <1>3, <2>2, <3>2
  <2> QED
    BY <2>1, <2>2
<1> QED
  BY <1>2, <1>7, <1>8, <1>9 DEF m, B

BlockOf(file, k) == SubSeq(file, (k - 1) * BlockSize + 1, Cut(k, Len(file)))

\* Read block by block, a file is read from its start to its end.
LEMMA FileIsRead ==
    ASSUME NEW T, NEW file \in Seq(T)
    PROVE  FileContent(file) = file
<1> DEFINE n == Len(file)
           m == (n + BlockSize - 1) \div BlockSize
           seqs == [k \in 1 .. m |-> SubSeq(file, (k - 1) * BlockSize + 1, Min({k * BlockSize, n}))]
<1>1. FileContent(file) = FlattenSeq(seqs)
  BY Zenon DEF FileContent
<1>2. n \in Nat
  OBVIOUS
<1>3. /\ m \in Nat /\ (m = 0 <=> n = 0) /\ Cut(m, n) = n
      /\ \A k \in Nat : k < m => Cut(k, n) = k * BlockSize /\ k * BlockSize \in 0 .. n
  BY <1>2, BlocksCover
<1> HIDE DEF n
<1>4. seqs = [k \in 1 .. m |-> BlockOf(file, k)]
  BY Zenon DEF BlockOf, Cut, n
<1> HIDE DEF m, seqs
<1>5. Len(seqs) = m
  BY <1>3, <1>4
<1>6. CASE m = 0
  <2>1. FlattenSeq(seqs) = seqs
    BY <1>5, <1>6, Zenon DEF FlattenSeq
  <2>2. seqs = <<>>
    BY <1>4, <1>6
  <2>3. file = <<>>
    BY <1>3, <1>6 DEF n
  <2> QED
    BY <1>1, <2>1, <2>2, <2>3
<1>7. CASE m # 0
  <2>0. m \in Nat \ {0}
    BY <1>3, <1>7
  <2>1. PICK f : /\ FlattenSeq(seqs) = f[m] /\ f[1] = seqs[1]
                 /\ \A i \in 1 .. m - 1 : f[i + 1] = f[i] \o seqs[i + 1]
    BY <1>5, <2>0, FlattenIs
  <2>2. \A k \in 1 .. m : seqs[k] = BlockOf(file, k)
    BY <1>4
  <2>3. \A k \in 1 .. m : Cut(k, n) \in 0 .. n
    <3>1. \A k \in 1 .. m : k \in Nat /\ (k < m \/ k = m)
      BY <1>3
    <3>2. n \in 0 .. n
      BY <1>2
    <3> QED
      BY <1>3, <3>1, <3>2, Zenon
  <2> DEFINE Good == {k \in Nat : k + 1 \in 1 .. m => f[k + 1] = SubSeq(file, 1, Cut(k + 1, n))}
  <2>4. 0 \in Good
    <3>1. 1 \in 1 .. m
      BY <1>3, <1>7
    <3>2. f[1] = BlockOf(file, 1)
      BY <2>1, <2>2, <3>1
    <3>3. (1 - 1) * BlockSize + 1 = 1 /\ 0 + 1 = 1 /\ 0 \in Nat
      BY BlockSizeAssumption
    <3>4. f[0 + 1] = SubSeq(file, 1, Cut(0 + 1, n))
      BY <3>2, <3>3, Zenon DEF BlockOf, n
    <3> QED
      BY <3>3, <3>4, Zenon
  <2>5. ASSUME NEW k \in Nat, k \in Good PROVE k + 1 \in Good
    <3>1. SUFFICES ASSUME (k + 1) + 1 \in 1 .. m
                   PROVE  f[(k + 1) + 1] = SubSeq(file, 1, Cut((k + 1) + 1, n))
      OBVIOUS
    <3> DEFINE j == k + 1
    <3>2. j \in Nat /\ j \in 1 .. m - 1 /\ j \in 1 .. m /\ j < m
      BY <1>3, <3>1
    <3>3. f[j] = SubSeq(file, 1, Cut(j, n))
      BY <2>5, <3>2
    <3> HIDE DEF j
    <3>4. f[j + 1] = f[j] \o seqs[j + 1]
      BY <2>1, <3>2
    <3>5. j + 1 \in 1 .. m /\ (j + 1) - 1 = j
      BY <3>1, <3>2 DEF j
    <3>6. seqs[j + 1] = SubSeq(file, j * BlockSize + 1, Cut(j + 1, n))
      BY <2>2, <3>5, Zenon DEF BlockOf, n
    <3>7. Cut(j, n) = j * BlockSize /\ j * BlockSize \in 0 .. n
      BY <1>3, <3>2
    <3>8. Cut(j + 1, n) \in 0 .. n
      BY <2>3, <3>5
    <3>9. j * BlockSize <= Cut(j + 1, n)
      <4>1. CASE j + 1 < m
        <5>1. Cut(j + 1, n) = (j + 1) * BlockSize
          BY <1>3, <3>2, <4>1
        <5>2. (j + 1) * BlockSize = j * BlockSize + BlockSize /\ j * BlockSize \in Nat
          BY <3>2, BlockSizeAssumption
        <5> QED
          BY <5>1, <5>2, BlockSizeAssumption
      <4>2. CASE j + 1 = m
        BY <1>3, <3>7, <4>2
      <4> QED
        BY <1>3, <3>2, <4>1, <4>2
    <3> DEFINE a == j * BlockSize
               b == Cut(j + 1, n)
    <3>10. a \in 0 .. n /\ b \in 0 .. n /\ a <= b
      BY <3>7, <3>8, <3>9
    <3>11. f[j + 1] = SubSeq(file, 1, a) \o SubSeq(file, a + 1, b)
      BY <3>3, <3>4, <3>6, <3>7, Zenon
    <3> HIDE DEF a, b
    <3>12. SubSeq(file, 1, a) \o SubSeq(file, a + 1, b) = SubSeq(file, 1, b)
      <4>1. 1 \in 1 .. n + 1 /\ a \in 1 - 1 .. n /\ b \in a .. n
        BY <1>2, <3>10
      <4> QED
        BY <4>1, ConcatAdjacentSubSeq DEF n
    <3>13. f[j + 1] = SubSeq(file, 1, b)
      BY <3>11, <3>12, Zenon
    <3> QED
      BY <3>13 DEF b, j
  <2> HIDE DEF Good
  <2>6. m - 1 \in Nat /\ (m - 1) + 1 = m /\ m \in 1 .. m
    BY <1>3, <1>7
  <2>7. m - 1 \in Good
    BY <2>4, <2>5, <2>6, Induction
  <2>8. f[m] = SubSeq(file, 1, n)
    BY <1>3, <2>6, <2>7 DEF Good
  <2>9. SubSeq(file, 1, n) = file
    BY DEF n
  <2> QED
    BY <1>1, <2>1, <2>8, <2>9, Zenon
<1> QED
  BY <1>6, <1>7

\* The path of the file that c has asked for.
Asked(c) == FullPath(PathOf(parser[c].uri))

\* What RepliesAreWhole says of one client, of what is to be written to it.
WholeReply(c, w) ==
    LET content == ContentRead(w)
    IN  /\ w[1] = answer[c]
        /\ HasHeader(w, "Content-Length", ToString(Len(content)))
        /\ answer[c] = "ok" => content = Files[Opened(Asked(c))]
        /\ HasHeader(w, "Content-Type", "text/html")
              <=> answer[c] # "ok" \/ Last(Asked(c)) = "html"

LEMMA FileReplyIsWhole ==
    ASSUME NEW c \in Clients, answer[c] = "ok", parser[c].uri \in Seq(Text),
           IsPath(parser[c].uri), Opened(Asked(c)) \in DOMAIN Files
    PROVE  WholeReply(c, ToBuffers(ReplyTo(c)))
<1> DEFINE path == Asked(c)
           file == Files[Opened(path)]
           type == ExtensionToType(Extension(path))
<1>1. file \in Seq(ToSet(file))
  BY FilesAssumption, Zenon
<1>2. FileContent(file) = file
  BY <1>1, FileIsRead, Zenon
<1>3. ReplyTo(c) = ReplyOf("ok", file, type)
  <2>1. ReplyTo(c) = FileReply(file, Extension(path))
    BY DEF ReplyTo, Asked
  <2> QED
    BY <1>2, <2>1, Zenon DEF FileReply
<1>4. ToString(Len(file)) # "crlf"
  BY LengthsAssumption, Zenon
<1>5. type # "crlf" /\ (type = "text/html" <=> Last(path) = "html")
  <2>1. /\ PathOf(parser[c].uri) \in Seq(PathChars) /\ PathOf(parser[c].uri) # <<>>
        /\ PathOf(parser[c].uri)[1] = "/"
    BY PathIsTyped, Zenon DEF IsPath
  <2>2. Extension(path) = <<"html">> <=> Last(path) = "html"
    BY <2>1, ExtensionIs, Zenon DEF Asked
  <2> QED
    BY <2>2, TypeIs, Zenon
<1>6. "ok" \in Statuses
  BY DEF Statuses
<1> HIDE DEF path, file, type
<1>7. ReadsAs(ToBuffers(ReplyTo(c)), "ok", file, type)
  BY <1>1, <1>3, <1>4, <1>5, <1>6, ReplyReads, Zenon DEF Apart
<1> DEFINE w == ToBuffers(ReplyTo(c))
<1> HIDE DEF w
<1>8. ReadsAs(w, "ok", file, type)
  BY <1>7 DEF w
<1>9. WholeReply(c, w)
  BY <1>5, <1>8, Zenon DEF WholeReply, ReadsAs, file, path
<1> QED
  BY <1>9 DEF w

LEMMA StockReplyIsWhole ==
    ASSUME NEW c \in Clients, answer[c] \in {"bad_request", "not_found"}
    PROVE  WholeReply(c, ToBuffers(ReplyTo(c)))
<1> DEFINE status == answer[c]
           page == <<"<html>", status, "</html>">>
           T == {"<html>", status, "</html>"}
<1>1. status \in Statuses /\ status # "ok"
  BY DEF Statuses
<1>2. ReplyTo(c) = ReplyOf(status, page, "text/html")
  BY <1>1, Zenon DEF ReplyTo, StockReply, StockPage
<1> HIDE DEF status
<1>3. page \in Seq(T) /\ Len(page) = 3
  OBVIOUS
<1>4. ToString(3) # "crlf"
  BY LengthsAssumption, Zenon
<1>5. "text/html" # "crlf"
  OBVIOUS
<1> HIDE DEF page, T
<1>6. Apart(ToString(Len(page)), "text/html")
  BY <1>3, <1>4, <1>5, Zenon DEF Apart
<1>7. ReadsAs(ToBuffers(ReplyTo(c)), status, page, "text/html")
  BY <1>1, <1>2, <1>3, <1>6, ReplyReads, Zenon
<1> DEFINE w == ToBuffers(ReplyTo(c))
<1> HIDE DEF w
<1>8. ReadsAs(w, status, page, "text/html")
  BY <1>7 DEF w
<1>9. WholeReply(c, w)
  BY <1>1, <1>8, Zenon DEF WholeReply, ReadsAs, status
<1> QED
  BY <1>9 DEF w

(***************************************************************************)
(* What has been written stays what the request was answered with, since   *)
(* the connection is closed by then.                                       *)
(***************************************************************************)
Written(c) ==
    written[c] # <<>> =>
        /\ conn[c] = "closed" /\ answer[c] \in Answers \ {"stream"}
        /\ written[c] = ToBuffers(ReplyTo(c))

RepliesInv == ServerInv /\ \A c \in Clients : Written(c)

LEMMA WrittenStays ==
    ASSUME NEW d \in Clients, Written(d), written'[d] = written[d],
           conn[d] = "closed" =>
               conn'[d] = conn[d] /\ answer'[d] = answer[d] /\ parser'[d] = parser[d]
    PROVE  Written(d)'
  BY DEF Written, ReplyTo

LEMMA NextRepliesInv == RepliesInv /\ [Next]_vars => RepliesInv'
<1> SUFFICES ASSUME RepliesInv, [Next]_vars PROVE RepliesInv'
  OBVIOUS
<1>1. ServerInv'
  BY NextServerInv DEF RepliesInv
<1>2. /\ conn \in [Clients -> {"none", "backlog", "reading", "writing", "stream", "closed"}]
      /\ DOMAIN parser = Clients /\ DOMAIN answer = Clients /\ DOMAIN written = Clients
      /\ \A d \in Clients : conn[d] = "writing" => answer[d] \in Answers \ {"stream"}
      /\ \A d \in Clients : Written(d)
  BY DEF RepliesInv, ServerInv, TypeOK, Answering, Domains
<1>3. ASSUME NEW c \in Clients, HandleRead(c) PROVE \A d \in Clients : Written(d)'
  <2>1. /\ conn[c] = "reading" /\ written' = written
        /\ \E p : parser' = [parser EXCEPT ![c] = p]
        /\ \/ \E a : Answer(c, a)
           \/ UNCHANGED <<conn, answer>>
    BY <1>3 DEF HandleRead, Reads
  <2>2. \A d \in Clients \ {c} :
            conn'[d] = conn[d] /\ answer'[d] = answer[d] /\ parser'[d] = parser[d]
    BY <1>2, <2>1 DEF Answer
  <2>3. conn[c] # "closed"
    BY <2>1
  <2>4. ASSUME NEW d \in Clients PROVE Written(d)'
    <3>1. Written(d)
      BY <1>2
    <3> QED
      BY <2>1, <2>2, <2>3, <3>1, WrittenStays, Zenon
  <2> QED
    BY <2>4
<1>4. ASSUME NEW c \in Clients, HandleWrite(c) PROVE \A d \in Clients : Written(d)'
  <2>1. /\ conn[c] = "writing" /\ conn' = [conn EXCEPT ![c] = "closed"]
        /\ \/ written' = written
           \/ written' = [written EXCEPT ![c] = ToBuffers(ReplyTo(c))]
        /\ parser' = parser /\ answer' = answer
    BY <1>4 DEF HandleWrite, request
  <2>2. ASSUME NEW d \in Clients, written'[d] = written[d] PROVE Written(d)'
    <3>1. Written(d) /\ (conn[d] = "closed" => conn'[d] = conn[d])
      BY <1>2, <2>1
    <3> QED
      BY <2>1, <2>2, <3>1, WrittenStays, Zenon
  <2>3. ASSUME written' = [written EXCEPT ![c] = ToBuffers(ReplyTo(c))] PROVE Written(c)'
    <3>1. written'[c] = ToBuffers(ReplyTo(c)) /\ conn'[c] = "closed"
      BY <1>2, <2>1, <2>3
    <3>2. answer'[c] \in Answers \ {"stream"}
      BY <1>2, <2>1
    <3>3. ReplyTo(c)' = ReplyTo(c)
      BY <2>1 DEF ReplyTo
    <3> QED
      BY <3>1, <3>2, <3>3 DEF Written
  <2>4. \A d \in Clients : \/ written'[d] = written[d]
                           \/ d = c /\ written' = [written EXCEPT ![c] = ToBuffers(ReplyTo(c))]
    BY <1>2, <2>1
  <2> QED
    BY <2>2, <2>3, <2>4
<1>5. ASSUME NEW c \in Clients, Connects(c) \/ HandleAccept(c) \/ HandleReadError(c)
      PROVE  \A d \in Clients : Written(d)'
  <2>1. /\ conn[c] # "closed" /\ UNCHANGED <<parser, answer, written>>
        /\ \E s : conn' = [conn EXCEPT ![c] = s]
    BY <1>5 DEF Connects, HandleAccept, HandleReadError, request
  <2>2. \A d \in Clients : conn[d] = "closed" => conn'[d] = conn[d]
    BY <1>2, <2>1
  <2> QED
    BY <1>2, <2>1, <2>2, WrittenStays, Zenon
<1>6. ASSUME AcceptFails \/ (\E c \in Clients : GoesAway(c)) \/ UNCHANGED vars
      PROVE  \A d \in Clients : Written(d)'
  <2>1. UNCHANGED <<conn, parser, answer, written>>
    BY <1>6 DEF AcceptFails, GoesAway, vars, request
  <2>2. ASSUME NEW d \in Clients PROVE Written(d)'
    BY <1>2, <2>1, WrittenStays
  <2> QED
    BY <2>2
<1>7. \A d \in Clients : Written(d)'
  BY <1>3, <1>4, <1>5, <1>6 DEF Next, ConnectionStep
<1> QED
  BY <1>1, <1>7 DEF RepliesInv

LEMMA WholeReplies == RepliesInv => RepliesAreWhole
<1> SUFFICES ASSUME RepliesInv, NEW c \in Clients, written[c] # <<>> PROVE WholeReply(c, written[c])
  BY DEF RepliesAreWhole, WholeReply, Asked
<1>1. answer[c] \in Answers \ {"stream"} /\ written[c] = ToBuffers(ReplyTo(c))
  BY DEF RepliesInv, Written
<1>2. CASE answer[c] = "ok"
  <2>1. AnswerOfResult(c)
    BY DEF RepliesInv, ServerInv, Answering
  <2>2. HandleRequest(parser[c].uri) = "ok"
    BY <1>2, <2>1 DEF AnswerOfResult
  <2>3. IsPath(parser[c].uri) /\ Opened(Asked(c)) \in DOMAIN Files
    BY <2>2, OkIsChecked DEF Asked
  <2>4. parser[c].uri \in Seq(Text)
    BY DEF RepliesInv, ServerInv, TypeOK
  <2> QED
    BY <1>1, <1>2, <2>3, <2>4, FileReplyIsWhole
<1>3. CASE answer[c] # "ok"
  <2>1. answer[c] \in {"bad_request", "not_found"}
    BY <1>1, <1>3 DEF Answers
  <2> QED
    BY <1>1, <2>1, StockReplyIsWhole
<1> QED
  BY <1>2, <1>3

\* Whatever the file, the blocks it is read in and the way its name ends,
\* what a client reads is a whole reply with that content.
THEOREM RepliesStayWhole == Spec => []RepliesAreWhole
<1>1. Init => RepliesInv
  <2>1. Init => \A c \in Clients : Written(c)
    BY DEF Init, Written
  <2> QED
    BY <2>1, InitServerInv DEF RepliesInv
<1> QED
  BY <1>1, NextRepliesInv, WholeReplies, PTL DEF Spec
=============================================================================

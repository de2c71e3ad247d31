--------------------------- MODULE CommandsProofs ---------------------------
(***************************************************************************)
(* What the server makes of a message, proved for messages of every        *)
(* length, every content of the clients' name fields and every length of   *)
(* the fixed parts of a text.                                              *)
(***************************************************************************)
EXTENDS Commands, SequenceTheorems, WellFoundedInduction, TLAPS

-----------------------------------------------------------------------------
(* Numbers and sequences                                                   *)

\* A set of numbers that is not empty has a least one.
LEMMA LeastNumber ==
  ASSUME NEW S, S \subseteq Nat, S # {}
  PROVE  \E x \in S : \A y \in S : x <= y
  <1>1. PICK x \in S : \A y \in S : ~(<<y, x>> \in OpToRel(<, Nat))
    BY NatLessThanWellFounded, WFMin
  <1>2. ASSUME NEW y \in S PROVE x <= y
    <2>1. x \in Nat /\ y \in Nat
      OBVIOUS
    <2>2. ~(y < x)
      BY <1>1, <2>1 DEF OpToRel
    <2> QED
      BY <2>1, <2>2
  <1> QED
    BY <1>2

\* What a part of a sequence holds.
LEMMA PartOf ==
  ASSUME NEW S, NEW s \in Seq(S), NEW m \in Nat, m >= 1, NEW n \in Int, n <= Len(s)
  PROVE  /\ SubSeq(s, m, n) \in Seq(S)
         /\ Len(SubSeq(s, m, n)) = IF m <= n THEN n - m + 1 ELSE 0
         /\ \A i \in 1..(n - m + 1) : SubSeq(s, m, n)[i] = s[m + i - 1]
  <1>1. Len(s) \in Nat /\ m \in Int
    OBVIOUS
  <1>2. \A i \in m..n : s[i] \in S
    BY <1>1
  <1> QED
    BY <1>1, <1>2, SubSeqProperties

-----------------------------------------------------------------------------
(* C strings and strtok_r                                                  *)

Chars == Input \cup {Other, Newline}

\* A sequence in which no character is NUL.
Clean(s) == \A j \in 1..Len(s) : s[j] # NUL

\* A C string is a clean first part of the sequence.
LEMMA CStringFacts ==
  ASSUME NEW s \in Seq(Chars)
  PROVE  /\ CString(s) \in Seq(Chars) /\ Clean(CString(s))
         /\ Len(CString(s)) <= Len(s)
         /\ \A j \in 1..Len(CString(s)) : CString(s)[j] = s[j]
         /\ Clean(s) => CString(s) = s
         /\ s # << >> /\ s[1] # NUL => CString(s) # << >>
  <1> DEFINE ends == {j \in 1..Len(s) : s[j] = NUL}
  <1>1. Len(s) \in Nat
    OBVIOUS
  <1>2. CASE ends = {}
    <2>1. CString(s) = s
      BY <1>2 DEF CString
    <2>2. Clean(s)
      BY <1>2 DEF Clean
    <2> QED
      BY <1>1, <2>1, <2>2
  <1>3. CASE ends # {}
    <2>1. \E j \in ends : \A k \in ends : j <= k
      <3>1. ends \subseteq Nat
        BY <1>1
      <3> QED
        BY <1>3, <3>1, LeastNumber
    <2>2. PICK e \in ends : /\ \A k \in ends : e <= k
                            /\ CString(s) = SubSeq(s, 1, e - 1)
      BY <1>3, <2>1 DEF CString
    <2>3. e \in 1..Len(s) /\ s[e] = NUL /\ e \in Nat /\ e - 1 <= Len(s)
      BY <1>1
    <2>4. PICK n \in Nat : n = e - 1
      BY <2>3
    <2>5. /\ CString(s) \in Seq(Chars) /\ Len(CString(s)) = n
          /\ \A j \in 1..n : CString(s)[j] = s[j]
      BY <1>1, <2>2, <2>3, <2>4, PartOf
    <2>6. \A j \in 1..n : s[j] # NUL
      BY <1>1, <2>2, <2>3, <2>4
    <2>7. ~Clean(s)
      BY <2>3 DEF Clean
    <2>8. Clean(CString(s))
      BY <2>5, <2>6 DEF Clean
    <2>9. s[1] # NUL => n # 0
      BY <2>3, <2>4
    <2> QED
      BY <1>1, <2>3, <2>4, <2>5, <2>7, <2>8, <2>9, EmptySeq
  <1> QED
    BY <1>2, <1>3

\* The first n characters of s are spaces, and no more of them.
Spaces(s, n) ==
  /\ n \in 0..Len(s)
  /\ \A j \in 1..n : s[j] = Space
  /\ n = Len(s) \/ s[n + 1] # Space

\* The first n characters of s are none, and no more of them.
NoSpaces(s, n) ==
  /\ n \in 0..Len(s)
  /\ \A j \in 1..n : s[j] # Space
  /\ n = Len(s) \/ s[n + 1] = Space

LEMMA SpanOfSpaces ==
  ASSUME NEW s \in Seq(Chars)
  PROVE  Spaces(s, Span(s, IsSpace))
  <1> DEFINE ends == {j \in 1..Len(s) : s[j] # Space}
  <1>1. Len(s) \in Nat
    OBVIOUS
  <1>2. \E n \in 0..Len(s) : Spaces(s, n)
    <2>1. CASE ends = {}
      <3>1. Spaces(s, Len(s))
        BY <1>1, <2>1 DEF Spaces
      <3> QED
        BY <1>1, <3>1
    <2>2. CASE ends # {}
      <3>1. PICK e \in ends : \A k \in ends : e <= k
        <4>1. ends \subseteq Nat
          BY <1>1
        <4> QED
          BY <2>2, <4>1, LeastNumber
      <3>2. PICK n \in 0..Len(s) : n = e - 1
        BY <1>1
      <3>3. e \in 1..Len(s) /\ n + 1 = e /\ s[e] # Space
        BY <1>1, <3>2
      <3>4. \A j \in 1..n : s[j] = Space
        BY <1>1, <3>1, <3>2, <3>3
      <3>5. Spaces(s, n)
        BY <3>3, <3>4 DEF Spaces
      <3> QED
        BY <3>5
    <2> QED
      BY <2>1, <2>2
  <1>3. Span(s, IsSpace) = CHOOSE n \in 0..Len(s) :
            (\A j \in 1..n : s[j] = Space) /\ (n = Len(s) \/ s[n + 1] # Space)
    BY DEF Span, IsSpace
  <1> QED
    BY <1>2, <1>3 DEF Spaces

LEMMA SpanOfNoSpaces ==
  ASSUME NEW s \in Seq(Chars)
  PROVE  NoSpaces(s, Span(s, IsNoSpace))
  <1> DEFINE ends == {j \in 1..Len(s) : s[j] = Space}
  <1>1. Len(s) \in Nat
    OBVIOUS
  <1>2. \E n \in 0..Len(s) : NoSpaces(s, n)
    <2>1. CASE ends = {}
      <3>1. NoSpaces(s, Len(s))
        BY <1>1, <2>1 DEF NoSpaces
      <3> QED
        BY <1>1, <3>1
    <2>2. CASE ends # {}
      <3>1. PICK e \in ends : \A k \in ends : e <= k
        <4>1. ends \subseteq Nat
          BY <1>1
        <4> QED
          BY <2>2, <4>1, LeastNumber
      <3>2. PICK n \in 0..Len(s) : n = e - 1
        BY <1>1
      <3>3. e \in 1..Len(s) /\ n + 1 = e /\ s[e] = Space
        BY <1>1, <3>2
      <3>4. \A j \in 1..n : s[j] # Space
        BY <1>1, <3>1, <3>2, <3>3
      <3>5. NoSpaces(s, n)
        BY <3>3, <3>4 DEF NoSpaces
      <3> QED
        BY <3>5
    <2> QED
      BY <2>1, <2>2
  <1>3. Span(s, IsNoSpace) = CHOOSE n \in 0..Len(s) :
            (\A j \in 1..n : s[j] # Space) /\ (n = Len(s) \/ ~(s[n + 1] # Space))
    BY DEF Span, IsNoSpace
  <1> QED
    BY <1>2, <1>3 DEF NoSpaces

\* What the last part of a sequence holds.
LEMMA RestOf ==
  ASSUME NEW s \in Seq(Chars), NEW p \in Nat, p <= Len(s)
  PROVE  /\ From(s, p) \in Seq(Chars) /\ Len(From(s, p)) = Len(s) - p
         /\ \A i \in 1..(Len(s) - p) : From(s, p)[i] = s[p + i]
  <1>1. PICK one \in Nat : one = p + 1
    OBVIOUS
  <1>2. PICK r : r = From(s, p)
    OBVIOUS
  <1>3. /\ r \in Seq(Chars) /\ Len(r) = IF one <= Len(s) THEN Len(s) - one + 1 ELSE 0
        /\ \A i \in 1..(Len(s) - one + 1) : r[i] = s[one + i - 1]
    BY <1>1, <1>2, PartOf DEF From
  <1> QED
    BY <1>1, <1>2, <1>3

\* A last part of a sequence, cut once more.
LEMMA PartOfRest ==
  ASSUME NEW s \in Seq(Chars), NEW p \in Nat, p <= Len(s),
         NEW m \in Nat, m >= 1, NEW n \in Int, n <= Len(s) - p,
         NEW from \in Nat, from = p + m, NEW to \in Int, to = p + n
  PROVE  SubSeq(From(s, p), m, n) = SubSeq(s, from, to)
  <1>1. Len(s) \in Nat
    OBVIOUS
  <1>2. PICK r : r = From(s, p)
    OBVIOUS
  <1>3. /\ r \in Seq(Chars) /\ Len(r) = Len(s) - p
        /\ \A i \in 1..(Len(s) - p) : r[i] = s[p + i]
    BY <1>2, RestOf
  <1>4. PICK x : x = SubSeq(r, m, n)
    OBVIOUS
  <1>5. PICK y : y = SubSeq(s, from, to)
    OBVIOUS
  <1>6. /\ x \in Seq(Chars) /\ Len(x) = IF m <= n THEN n - m + 1 ELSE 0
        /\ \A i \in 1..(n - m + 1) : x[i] = r[m + i - 1]
    BY <1>1, <1>3, <1>4, PartOf
  <1>7. /\ y \in Seq(Chars) /\ Len(y) = IF from <= to THEN to - from + 1 ELSE 0
        /\ \A i \in 1..(to - from + 1) : y[i] = s[from + i - 1]
    BY <1>1, <1>5, PartOf
  <1>8. Len(x) = Len(y)
    BY <1>6, <1>7
  <1>9. ASSUME NEW i \in 1..Len(x) PROVE x[i] = y[i]
    <2>1. /\ i \in Nat /\ i \in 1..(n - m + 1) /\ i \in 1..(to - from + 1)
      BY <1>6
    <2>2. PICK j \in 1..(Len(s) - p) : j = m + i - 1
      BY <1>1, <2>1
    <2>3. p + j = from + i - 1
      BY <2>1, <2>2
    <2>4. x[i] = r[j] /\ y[i] = s[p + j]
      BY <1>6, <1>7, <2>1, <2>2, <2>3
    <2> QED
      BY <1>3, <2>2, <2>4
  <1> QED
    BY <1>2, <1>4, <1>5, <1>6, <1>7, <1>8, <1>9, SeqEqual

\* The last part of a last part.
LEMMA RestOfRest ==
  ASSUME NEW s \in Seq(Chars), NEW p \in Nat, p <= Len(s),
         NEW k \in Nat, NEW q \in Nat, q = p + k
  PROVE  From(From(s, p), k) = From(s, q)
  <1>1. Len(s) \in Nat
    OBVIOUS
  <1>2. PICK r : r = From(s, p)
    OBVIOUS
  <1>3. /\ r \in Seq(Chars) /\ Len(r) = Len(s) - p
        /\ \A i \in 1..(Len(s) - p) : r[i] = s[p + i]
    BY <1>2, RestOf
  <1>4. PICK x : x = From(r, k)
    OBVIOUS
  <1>5. PICK y : y = From(s, q)
    OBVIOUS
  <1>6. CASE k <= Len(r)
    <2>1. /\ x \in Seq(Chars) /\ Len(x) = Len(r) - k
          /\ \A i \in 1..(Len(r) - k) : x[i] = r[k + i]
      BY <1>3, <1>4, <1>6, RestOf
    <2>2. q <= Len(s)
      BY <1>1, <1>3, <1>6
    <2>3. /\ y \in Seq(Chars) /\ Len(y) = Len(s) - q
          /\ \A i \in 1..(Len(s) - q) : y[i] = s[q + i]
      BY <1>5, <2>2, RestOf
    <2>4. Len(x) = Len(y)
      BY <1>1, <1>3, <2>1, <2>3
    <2>5. ASSUME NEW i \in 1..Len(x) PROVE x[i] = y[i]
      <3>1. PICK j \in 1..(Len(s) - p) : j = k + i
        BY <1>1, <1>3, <2>1, SMTT(30)
      <3>2. i \in 1..(Len(r) - k) /\ i \in 1..(Len(s) - q) /\ p + j = q + i
        BY <1>1, <1>3, <2>1, <3>1
      <3>3. x[i] = r[j] /\ y[i] = s[p + j]
        BY <2>1, <2>3, <3>1, <3>2
      <3> QED
        BY <1>3, <3>1, <3>3
    <2> QED
      BY <1>2, <1>4, <1>5, <2>1, <2>3, <2>4, <2>5, SeqEqual
  <1>7. CASE k > Len(r)
    <2>1. Len(r) < k + 1 /\ Len(s) < q + 1 /\ Len(r) \in Int /\ Len(s) \in Int
      BY <1>1, <1>3, <1>7
    <2>2. x = << >>
      BY <1>4, <2>1, SubSeqEmpty DEF From
    <2>3. y = << >>
      BY <1>5, <2>1, SubSeqEmpty DEF From
    <2> QED
      BY <1>2, <1>4, <1>5, <2>2, <2>3
  <1> QED
    BY <1>1, <1>3, <1>6, <1>7

\* strtok_r finds its token in the characters p+1 .. q of s.
TokenAt(s, p, q) ==
  /\ p \in 0..Len(s) /\ q \in p..Len(s)
  /\ \A j \in 1..p : s[j] = Space
  /\ p = Len(s) \/ s[p + 1] # Space
  /\ \A j \in (p + 1)..q : s[j] # Space
  /\ q = Len(s) \/ s[q + 1] = Space

LEMMA TokenFound ==
  ASSUME NEW s \in Seq(Chars)
  PROVE  \E p, q \in Nat :
           /\ TokenAt(s, p, q)
           /\ Token(s) = SubSeq(s, p + 1, q)
           /\ Saveptr(s) = From(s, q + 1)
  <1>1. Len(s) \in Nat
    OBVIOUS
  <1>2. PICK p : p = Span(s, IsSpace)
    OBVIOUS
  <1>3. Spaces(s, p) /\ p \in Nat /\ p <= Len(s)
    BY <1>1, <1>2, SpanOfSpaces DEF Spaces
  <1>4. PICK r : r = From(s, p)
    OBVIOUS
  <1>5. /\ r \in Seq(Chars) /\ Len(r) = Len(s) - p
        /\ \A i \in 1..(Len(s) - p) : r[i] = s[p + i]
    BY <1>3, <1>4, RestOf
  <1>6. PICK k : k = Span(r, IsNoSpace)
    OBVIOUS
  <1>7. NoSpaces(r, k) /\ k \in Nat /\ k <= Len(s) - p
    BY <1>1, <1>3, <1>5, <1>6, SpanOfNoSpaces DEF NoSpaces
  <1>8. PICK q \in Nat : q = p + k
    BY <1>3, <1>7
  <1>9. TokenAt(s, p, q)
    <2>1. p \in 0..Len(s) /\ q \in p..Len(s)
      BY <1>1, <1>3, <1>7, <1>8
    <2>2. (\A j \in 1..p : s[j] = Space) /\ (p = Len(s) \/ s[p + 1] # Space)
      BY <1>3 DEF Spaces
    <2>3. ASSUME NEW j \in (p + 1)..q PROVE s[j] # Space
      <3>1. PICK i \in Nat : i = j - p
        BY <1>3, <1>8
      <3>2. i \in 1..k /\ i \in 1..(Len(s) - p) /\ p + i = j
        BY <1>1, <1>3, <1>7, <1>8, <3>1
      <3> QED
        BY <1>5, <1>7, <3>2 DEF NoSpaces
    <2>4. q = Len(s) \/ s[q + 1] = Space
      <3>1. k = Len(r) \/ r[k + 1] = Space
        BY <1>7 DEF NoSpaces
      <3>2. k # Len(r) => k + 1 \in 1..(Len(s) - p) /\ p + (k + 1) = q + 1
        BY <1>1, <1>3, <1>5, <1>7, <1>8
      <3> QED
        BY <1>1, <1>3, <1>5, <1>7, <1>8, <3>1, <3>2
    <2> QED
      BY <2>1, <2>2, <2>3, <2>4 DEF TokenAt
  <1>10. SkipSpaces(s) = r
    BY <1>2, <1>4 DEF SkipSpaces
  <1>11. Token(s) = SubSeq(s, p + 1, q)
    <2>1. Token(s) = SubSeq(r, 1, k)
      BY <1>6, <1>10 DEF Token
    <2>2. PICK from \in Nat : from = p + 1
      BY <1>3
    <2>3. SubSeq(From(s, p), 1, k) = SubSeq(s, from, q)
      BY <1>3, <1>7, <1>8, <2>2, PartOfRest
    <2> QED
      BY <1>4, <2>1, <2>2, <2>3
  <1>12. Saveptr(s) = From(s, q + 1)
    <2>1. Saveptr(s) = From(r, k + 1)
      BY <1>6, <1>10 DEF Saveptr
    <2>2. PICK m \in Nat : m = k + 1
      BY <1>7
    <2>3. PICK n \in Nat : n = q + 1
      BY <1>8
    <2>4. n = p + m
      BY <1>3, <1>7, <1>8, <2>2, <2>3
    <2>5. From(From(s, p), m) = From(s, n)
      BY <1>3, <2>4, RestOfRest
    <2> QED
      BY <1>4, <2>1, <2>2, <2>3, <2>5
  <1> QED
    BY <1>3, <1>8, <1>9, <1>11, <1>12

\* There is one such place.
LEMMA TokenUnique ==
  ASSUME NEW s \in Seq(Chars),
         NEW p \in Nat, NEW q \in Nat, TokenAt(s, p, q),
         NEW x \in Nat, NEW y \in Nat, TokenAt(s, x, y)
  PROVE  p = x /\ q = y
  <1>1. Len(s) \in Nat
    OBVIOUS
  <1>2. p = x
    <2>1. ~(p < x)
      <3>1. ASSUME p < x PROVE FALSE
        <4>1. p + 1 \in 1..x /\ p # Len(s)
          BY <1>1, <3>1 DEF TokenAt
        <4> QED
          BY <4>1 DEF TokenAt
      <3> QED
        BY <3>1
    <2>2. ~(x < p)
      <3>1. ASSUME x < p PROVE FALSE
        <4>1. x + 1 \in 1..p /\ x # Len(s)
          BY <1>1, <3>1 DEF TokenAt
        <4> QED
          BY <4>1 DEF TokenAt
      <3> QED
        BY <3>1
    <2> QED
      BY <2>1, <2>2
  <1>3. q = y
    <2>1. ~(q < y)
      <3>1. ASSUME q < y PROVE FALSE
        <4>1. q + 1 \in (x + 1)..y /\ q # Len(s)
          BY <1>1, <1>2, <3>1 DEF TokenAt
        <4> QED
          BY <4>1 DEF TokenAt
      <3> QED
        BY <3>1
    <2>2. ~(y < q)
      <3>1. ASSUME y < q PROVE FALSE
        <4>1. y + 1 \in (p + 1)..q /\ y # Len(s)
          BY <1>1, <1>2, <3>1 DEF TokenAt
        <4> QED
          BY <4>1 DEF TokenAt
      <3> QED
        BY <3>1
    <2> QED
      BY <2>1, <2>2
  <1> QED
    BY <1>2, <1>3

-----------------------------------------------------------------------------
(* The form of a whisper, character by character                           *)

\* One sequence after another.
Follows(u, v, w) ==
  /\ w \in Seq(Chars) /\ Len(w) = Len(u) + Len(v)
  /\ \A i \in 1..Len(u) : w[i] = u[i]
  /\ \A i \in 1..Len(v) : w[Len(u) + i] = v[i]

LEMMA Joined ==
  ASSUME NEW u \in Seq(Chars), NEW v \in Seq(Chars)
  PROVE  Follows(u, v, u \o v)
  <1>1. Len(u) \in Nat /\ Len(v) \in Nat
    OBVIOUS
  <1>2. PICK w : w = u \o v
    OBVIOUS
  <1>3. /\ w \in Seq(Chars) /\ Len(w) = Len(u) + Len(v)
        /\ \A i \in 1..(Len(u) + Len(v)) :
             w[i] = IF i <= Len(u) THEN u[i] ELSE v[i - Len(u)]
    BY <1>2, ConcatProperties
  <1>4. \A i \in 1..Len(u) : w[i] = u[i]
    BY <1>1, <1>3
  <1>5. ASSUME NEW i \in 1..Len(v) PROVE w[Len(u) + i] = v[i]
    <2>1. PICK j \in 1..(Len(u) + Len(v)) : j = Len(u) + i
      BY <1>1
    <2>2. ~(j <= Len(u)) /\ j - Len(u) = i
      BY <1>1, <2>1
    <2> QED
      BY <1>3, <2>1, <2>2
  <1> QED
    BY <1>2, <1>3, <1>4, <1>5 DEF Follows

\* The text of a whisper: its first and last spaces are the characters 3 and e.
Whole(w, k, t, msg) ==
  <<Slash, w>> \o [j \in 1..k |-> Space] \o t \o <<Space>> \o msg

Laid(s, w, k, t, msg, e) ==
  /\ s \in Seq(Chars) /\ Len(s) = e + Len(msg)
  /\ s[1] = Slash /\ s[2] = w
  /\ \A j \in 3..(k + 2) : s[j] = Space
  /\ \A j \in 1..Len(t) : s[k + 2 + j] = t[j]
  /\ s[e] = Space
  /\ \A j \in 1..Len(msg) : s[e + j] = msg[j]

LEMMA WholeLaid ==
  ASSUME NEW w \in {a, A}, NEW k \in Nat, NEW t \in Seq(Chars), NEW msg \in Seq(Chars),
         NEW e \in Nat, e = k + 3 + Len(t)
  PROVE  Laid(Whole(w, k, t, msg), w, k, t, msg, e)
  <1>1. PICK u : u = <<Slash, w>>
    OBVIOUS
  <1>2. u \in Seq(Chars) /\ Len(u) = 2 /\ u[1] = Slash /\ u[2] = w
    BY <1>1 DEF Chars, Input
  <1>3. PICK v : v = [j \in 1..k |-> Space]
    OBVIOUS
  <1>4. v \in Seq(Chars) /\ Len(v) = k /\ \A j \in 1..k : v[j] = Space
    BY <1>3 DEF Chars, Input
  <1>5. PICK x : x = <<Space>>
    OBVIOUS
  <1>6. x \in Seq(Chars) /\ Len(x) = 1 /\ x[1] = Space
    BY <1>5 DEF Chars, Input
  <1>7. Len(t) \in Nat /\ Len(msg) \in Nat
    OBVIOUS
  <1>8. PICK p : p = u \o v
    OBVIOUS
  <1>9. /\ p \in Seq(Chars) /\ Len(p) = 2 + k
        /\ p[1] = Slash /\ p[2] = w
        /\ \A j \in 1..k : p[2 + j] = Space
    <2>1. /\ p \in Seq(Chars) /\ Len(p) = Len(u) + Len(v)
          /\ \A i \in 1..Len(u) : p[i] = u[i]
          /\ \A i \in 1..Len(v) : p[Len(u) + i] = v[i]
      <3>1. Follows(u, v, p)
        BY <1>2, <1>4, <1>8, Joined
      <3> QED
        BY <3>1 DEF Follows
    <2>2. p[1] = Slash /\ p[2] = w
      BY <1>2, <2>1
    <2>3. ASSUME NEW j \in 1..k PROVE p[2 + j] = Space
      BY <1>2, <1>4, <2>1
    <2>4. Len(p) = 2 + k
      BY <1>2, <1>4, <2>1
    <2> QED
      BY <2>1, <2>2, <2>3, <2>4
  <1>10. PICK q : q = p \o t
    OBVIOUS
  <1>11. /\ q \in Seq(Chars) /\ Len(q) = Len(p) + Len(t)
         /\ \A i \in 1..Len(p) : q[i] = p[i]
         /\ \A i \in 1..Len(t) : q[Len(p) + i] = t[i]
    <2>1. Follows(p, t, q)
      BY <1>9, <1>10, Joined
    <2> QED
      BY <2>1 DEF Follows
  <1>12. PICK r : r = q \o x
    OBVIOUS
  <1>13. /\ r \in Seq(Chars) /\ Len(r) = Len(q) + Len(x)
         /\ \A i \in 1..Len(q) : r[i] = q[i]
         /\ \A i \in 1..Len(x) : r[Len(q) + i] = x[i]
    <2>1. Follows(q, x, r)
      BY <1>6, <1>11, <1>12, Joined
    <2> QED
      BY <2>1 DEF Follows
  <1>14. PICK s : s = r \o msg
    OBVIOUS
  <1>15. /\ s \in Seq(Chars) /\ Len(s) = Len(r) + Len(msg)
         /\ \A i \in 1..Len(r) : s[i] = r[i]
         /\ \A i \in 1..Len(msg) : s[Len(r) + i] = msg[i]
    <2>1. Follows(r, msg, s)
      BY <1>13, <1>14, Joined
    <2> QED
      BY <2>1 DEF Follows
  <1>16. s = Whole(w, k, t, msg)
    BY <1>1, <1>3, <1>5, <1>8, <1>10, <1>12, <1>14 DEF Whole
  <1>17. Len(p) = k + 2 /\ Len(q) = e - 1 /\ Len(r) = e
    BY <1>6, <1>7, <1>9, <1>11, <1>13
  <1>18. \A i \in 1..Len(p) : s[i] = p[i]
    BY <1>7, <1>11, <1>13, <1>15, <1>17
  <1>19. s[1] = Slash /\ s[2] = w
    BY <1>9, <1>17, <1>18
  <1>20. ASSUME NEW j \in 3..(k + 2) PROVE s[j] = Space
    <2>1. PICK i \in 1..k : j = 2 + i
      <3>1. j - 2 \in 1..k /\ j = 2 + (j - 2)
        OBVIOUS
      <3> QED
        BY <3>1
    <2>2. p[j] = Space
      BY <1>9, <2>1
    <2> QED
      BY <1>17, <1>18, <2>2
  <1>21. ASSUME NEW j \in 1..Len(t) PROVE s[k + 2 + j] = t[j]
    <2>1. PICK i \in Nat : i = k + 2 + j
      BY <1>7
    <2>2. i \in 1..Len(q) /\ i \in 1..Len(r) /\ i = Len(p) + j
      BY <1>7, <1>17, <2>1
    <2>3. s[i] = r[i] /\ r[i] = q[i]
      BY <1>13, <1>15, <2>2
    <2>4. q[i] = t[j]
      BY <1>11, <2>2
    <2> QED
      BY <2>1, <2>3, <2>4
  <1>22. s[e] = Space
    <2>1. e = Len(q) + 1 /\ e \in 1..Len(r) /\ 1 \in 1..Len(x)
      BY <1>6, <1>7, <1>17
    <2> QED
      BY <1>6, <1>13, <1>15, <2>1
  <1>23. \A j \in 1..Len(msg) : s[e + j] = msg[j]
    BY <1>15, <1>17
  <1>24. Laid(s, w, k, t, msg, e)
    BY <1>15, <1>17, <1>19, <1>20, <1>21, <1>22, <1>23 DEF Laid
  <1> QED
    BY <1>16, <1>24

\* A sequence laid out so is that text.
LEMMA LaidIsWhole ==
  ASSUME NEW w \in {a, A}, NEW k \in Nat, NEW t \in Seq(Chars), NEW msg \in Seq(Chars),
         NEW e \in Nat, e = k + 3 + Len(t), NEW s, Laid(s, w, k, t, msg, e)
  PROVE  s = Whole(w, k, t, msg)
  <1>1. PICK x : x = Whole(w, k, t, msg)
    OBVIOUS
  <1>2. Laid(x, w, k, t, msg, e)
    BY <1>1, WholeLaid
  <1>3. Len(t) \in Nat /\ Len(msg) \in Nat
    OBVIOUS
  <1>4. s \in Seq(Chars) /\ x \in Seq(Chars) /\ Len(s) = e + Len(msg) /\ Len(s) = Len(x)
    BY <1>2 DEF Laid
  <1>5. ASSUME NEW i \in 1..Len(s) PROVE s[i] = x[i]
    <2>1. CASE i \in 1..2
      <3>1. i = 1 \/ i = 2
        BY <2>1
      <3> QED
        BY <1>2, <3>1 DEF Laid
    <2>2. CASE i \in 3..(k + 2)
      BY <1>2, <2>2 DEF Laid
    <2>3. CASE i \in (k + 3)..(e - 1)
      <3>1. PICK j \in 1..Len(t) : i = k + 2 + j
        <4>1. i - k - 2 \in 1..Len(t) /\ i = k + 2 + (i - k - 2)
          BY <1>3, <2>3
        <4> QED
          BY <4>1
      <3>2. s[k + 2 + j] = t[j] /\ x[k + 2 + j] = t[j]
        BY <1>2 DEF Laid
      <3> QED
        BY <3>1, <3>2
    <2>4. CASE i = e
      BY <1>2, <2>4 DEF Laid
    <2>5. CASE i \in (e + 1)..Len(s)
      <3>1. PICK j \in 1..Len(msg) : i = e + j
        <4>1. i - e \in 1..Len(msg) /\ i = e + (i - e)
          BY <1>3, <1>4, <2>5
        <4> QED
          BY <4>1
      <3>2. s[e + j] = msg[j] /\ x[e + j] = msg[j]
        BY <1>2 DEF Laid
      <3> QED
        BY <3>1, <3>2
    <2> QED
      BY <1>3, <1>4, <2>1, <2>2, <2>3, <2>4, <2>5
  <1> QED
    BY <1>1, <1>4, <1>5, SeqEqual

\* The same form, said of the sequence alone: the target is in the characters
\* n .. m-1 of s, the message in those after m.
Form(s, n, m) ==
  /\ n >= 4 /\ n < m /\ m < Len(s)
  /\ s[1] = Slash /\ s[2] \in {a, A}
  /\ \A j \in 3..(n - 1) : s[j] = Space
  /\ \A j \in n..(m - 1) : s[j] # Space
  /\ s[m] = Space

LEMMA FormOfWhisper ==
  ASSUME NEW s \in Seq(Chars), NEW n \in 1..Len(s), NEW m \in 1..Len(s), n < m
  PROVE  IsWhisper(s, SubSeq(s, n, m - 1), From(s, m)) <=> Form(s, n, m)
  <1>1. Len(s) \in Nat /\ n \in Nat /\ m \in Nat /\ m <= Len(s)
    OBVIOUS
  <1>2. PICK t : t = SubSeq(s, n, m - 1)
    OBVIOUS
  <1>3. t \in Seq(Chars) /\ Len(t) = m - n /\ \A j \in 1..(m - n) : t[j] = s[n + j - 1]
    <2>1. PICK to \in Int : to = m - 1
      BY <1>1
    <2>2. /\ t \in Seq(Chars) /\ Len(t) = IF n <= to THEN to - n + 1 ELSE 0
          /\ \A i \in 1..(to - n + 1) : t[i] = s[n + i - 1]
      BY <1>1, <1>2, <2>1, PartOf
    <2> QED
      BY <1>1, <2>1, <2>2
  <1>4. PICK msg : msg = From(s, m)
    OBVIOUS
  <1>5. /\ msg \in Seq(Chars) /\ Len(msg) = Len(s) - m
        /\ \A j \in 1..(Len(s) - m) : msg[j] = s[m + j]
    BY <1>1, <1>4, RestOf
  <1>6. ASSUME IsWhisper(s, t, msg) PROVE Form(s, n, m)
    <2>1. PICK k \in 1..Len(s), w \in {a, A} :
            /\ s = Whole(w, k, t, msg)
            /\ t # << >> /\ msg # << >> /\ \A j \in 1..Len(t) : t[j] # Space
      BY <1>6 DEF IsWhisper, Whole
    <2>2. k \in Nat /\ k >= 1
      BY <1>1
    <2>3. PICK e \in Nat : e = k + 3 + Len(t)
      BY <1>1, <1>3, <2>2
    <2>4. Laid(s, w, k, t, msg, e)
      <3>1. Laid(Whole(w, k, t, msg), w, k, t, msg, e)
        BY <1>3, <1>5, <2>3, <2>2, WholeLaid
      <3> QED
        BY <2>1, <3>1
    <2>5. Len(s) = e + Len(msg)
      BY <2>4 DEF Laid
    <2>6. e = m /\ k = n - 3
      BY <1>1, <1>3, <1>5, <2>3, <2>5, <2>2
    <2>7. Len(msg) # 0
      BY <1>5, <2>1, EmptySeq
    <2>8. n >= 4 /\ m < Len(s)
      <3>1. n >= 4
        BY <1>1, <2>6, <2>2
      <3>2. Len(s) - m # 0
        BY <1>5, <2>7
      <3> QED
        BY <1>1, <3>1, <3>2
    <2>9. s[1] = Slash /\ s[2] \in {a, A} /\ s[m] = Space
      BY <2>4, <2>6 DEF Laid
    <2>10. \A j \in 3..(n - 1) : s[j] = Space
      <3>1. k + 2 = n - 1
        BY <1>1, <2>6
      <3> QED
        BY <2>4, <3>1 DEF Laid
    <2>11. ASSUME NEW i \in n..(m - 1) PROVE s[i] # Space
      <3>1. PICK j \in 1..(m - n) : i = n + j - 1
        <4>1. i - n + 1 \in 1..(m - n) /\ i = n + (i - n + 1) - 1
          BY <1>1
        <4> QED
          BY <4>1
      <3> QED
        BY <1>3, <2>1, <3>1
    <2> QED
      BY <2>8, <2>9, <2>10, <2>11 DEF Form
  <1>7. ASSUME Form(s, n, m) PROVE IsWhisper(s, t, msg)
    <2>1. PICK k \in Nat : k = n - 3
      BY <1>1, <1>7 DEF Form
    <2>2. k \in 1..Len(s) /\ m = k + 3 + Len(t) /\ Len(s) = m + Len(msg) /\ k + 2 = n - 1
      <3>1. n >= 4 /\ m < Len(s)
        BY <1>7 DEF Form
      <3>2. Len(t) = m - n /\ Len(msg) = Len(s) - m
        BY <1>3, <1>5
      <3> QED
        BY <1>1, <2>1, <3>1, <3>2
    <2>3. PICK w \in {a, A} : w = s[2]
      BY <1>7 DEF Form
    <2>4. ASSUME NEW j \in 1..Len(t) PROVE s[k + 2 + j] = t[j]
      <3>1. j \in 1..(m - n) /\ k + 2 + j = n + j - 1
        BY <1>1, <1>3, <2>1
      <3> QED
        BY <1>3, <3>1
    <2>5. \A j \in 1..Len(msg) : s[m + j] = msg[j]
      BY <1>5
    <2>6. \A j \in 3..(k + 2) : s[j] = Space
      BY <1>7, <2>2 DEF Form
    <2>7. s[1] = Slash /\ s[m] = Space
      BY <1>7 DEF Form
    <2>8. Laid(s, w, k, t, msg, m)
      BY <2>2, <2>3, <2>4, <2>5, <2>6, <2>7 DEF Laid
    <2>9. s = Whole(w, k, t, msg)
      <3>1. /\ t \in Seq(Chars) /\ msg \in Seq(Chars)
            /\ m \in Nat /\ m = k + 3 + Len(t)
        BY <1>1, <1>3, <1>5, <2>2
      <3> QED
        BY <2>8, <3>1, LaidIsWhole, Zenon
    <2>10. Len(t) # 0 /\ Len(msg) # 0
      BY <1>1, <1>3, <1>5, <1>7 DEF Form
    <2>11. t # << >> /\ msg # << >>
      BY <2>10, EmptySeq
    <2>12. ASSUME NEW j \in 1..Len(t) PROVE t[j] # Space
      <3>1. n + j - 1 \in n..(m - 1) /\ j \in 1..(m - n)
        BY <1>1, <1>3
      <3> QED
        BY <1>3, <1>7, <3>1 DEF Form
    <2> QED
      BY <2>2, <2>9, <2>11, <2>12 DEF IsWhisper, Whole
  <1> QED
    BY <1>2, <1>4, <1>6, <1>7

\* Where the first token of a whisper ends.
LEMMA CommandCut ==
  ASSUME NEW s \in Seq(Chars), s # << >>, s[1] = Slash,
         find_command(make_lowercase(Token(s))) = "CMD_WHISPER"
  PROVE  /\ Len(s) >= 2 /\ s[2] \in {a, A}
         /\ Len(s) = 2 \/ s[3] = Space
         /\ Saveptr(s) = From(s, 3)
  <1>1. Len(s) \in Nat \ {0}
    BY EmptySeq
  <1>2. PICK p, q \in Nat :
           /\ TokenAt(s, p, q)
           /\ Token(s) = SubSeq(s, p + 1, q)
           /\ Saveptr(s) = From(s, q + 1)
    BY TokenFound
  <1>3. p = 0
    <2>1. ASSUME p # 0 PROVE FALSE
      <3>1. 1 \in 1..p
        BY <2>1
      <3>2. s[1] = Space
        BY <1>2, <3>1 DEF TokenAt
      <3> QED
        BY <3>2 DEF Slash, Space
    <2> QED
      BY <2>1
  <1>4. PICK tok : tok = Token(s)
    OBVIOUS
  <1>5. tok = SubSeq(s, 1, q) /\ q \in Int /\ q <= Len(s)
    BY <1>1, <1>2, <1>3, <1>4 DEF TokenAt
  <1>6. /\ tok \in Seq(Chars) /\ Len(tok) = q
        /\ \A i \in 1..q : tok[i] = s[i]
    <2>1. /\ tok \in Seq(Chars) /\ Len(tok) = IF 1 <= q THEN q - 1 + 1 ELSE 0
          /\ \A i \in 1..(q - 1 + 1) : tok[i] = s[1 + i - 1]
      BY <1>5, PartOf
    <2> QED
      BY <1>2, <2>1
  <1>7. make_lowercase(tok) = <<Slash, a>>
    BY <1>4 DEF find_command
  <1>8. PICK low : low = make_lowercase(tok)
    OBVIOUS
  <1>9. Len(low) = 2 /\ low[2] = a
    BY <1>7, <1>8
  <1>10. low = [j \in 1..q |-> IF tok[j] = A THEN a ELSE tok[j]]
    BY <1>6, <1>8 DEF make_lowercase
  <1>11. Len(low) = q
    BY <1>10
  <1>12. q = 2
    BY <1>9, <1>11
  <1>13. tok[2] \in {a, A}
    <2>1. 2 \in 1..q
      BY <1>12
    <2>2. low[2] = IF tok[2] = A THEN a ELSE tok[2]
      BY <1>10, <2>1
    <2> QED
      BY <1>9, <2>2
  <1>14. s[2] \in {a, A}
    BY <1>6, <1>12, <1>13
  <1>15. Len(s) >= 2 /\ (Len(s) = 2 \/ s[3] = Space)
    BY <1>1, <1>2, <1>12 DEF TokenAt
  <1> QED
    BY <1>2, <1>12, <1>14, <1>15

\* What the second call of strtok_r on a whisper finds is its target, and what
\* it leaves is its message: there is a message just if s has the form, and the
\* form leaves no other choice of target and message.
LEMMA ArgumentsCut ==
  ASSUME NEW s \in Seq(Chars), s # << >>, s[1] = Slash,
         find_command(make_lowercase(Token(s))) = "CMD_WHISPER",
         NEW t, t = Token(Saveptr(s)), NEW msg, msg = Saveptr(Saveptr(s))
  PROVE  /\ msg # << >> =>
              \E n, m \in 1..Len(s) :
                Form(s, n, m) /\ t = SubSeq(s, n, m - 1) /\ msg = From(s, m)
         /\ \A n, m \in 1..Len(s) :
              Form(s, n, m) => t = SubSeq(s, n, m - 1) /\ msg = From(s, m)
  <1>1. /\ Len(s) \in Nat /\ Len(s) >= 2 /\ s[2] \in {a, A}
        /\ Len(s) = 2 \/ s[3] = Space
        /\ Saveptr(s) = From(s, 3)
    BY CommandCut
  <1>2. PICK r : r = From(s, 3)
    OBVIOUS
  <1>3. t = Token(r) /\ msg = Saveptr(r)
    BY <1>1, <1>2
  <1>4. CASE Len(s) = 2
    <2>1. r = << >>
      BY <1>2, <1>4, SubSeqEmpty DEF From
    <2>2. r \in Seq(Chars) /\ Len(r) = 0
      BY <2>1
    <2>3. PICK p, q \in Nat : TokenAt(r, p, q) /\ Saveptr(r) = From(r, q + 1)
      BY <2>2, TokenFound
    <2>4. q = 0
      BY <2>2, <2>3 DEF TokenAt
    <2>5. msg = << >>
      BY <1>3, <2>2, <2>3, <2>4, SubSeqEmpty DEF From
    <2>6. \A n, m \in 1..Len(s) : ~Form(s, n, m)
      BY <1>4 DEF Form
    <2> QED
      BY <2>5, <2>6
  <1>5. CASE Len(s) > 2
    <2>0. Len(s) \in Nat /\ 3 <= Len(s)
      BY <1>5
    <2>1. /\ r \in Seq(Chars) /\ Len(r) = Len(s) - 3
          /\ \A i \in 1..(Len(s) - 3) : r[i] = s[3 + i]
      BY <1>2, <2>0, RestOf
    <2>2. s[3] = Space
      BY <1>1, <1>5
    <2>3. PICK p, q \in Nat :
            /\ TokenAt(r, p, q)
            /\ Token(r) = SubSeq(r, p + 1, q)
            /\ Saveptr(r) = From(r, q + 1)
      BY <2>1, TokenFound
    <2>4. PICK n \in Nat : n = p + 4
      OBVIOUS
    <2>5. PICK m \in Nat : m = q + 4
      OBVIOUS
    <2>6. p <= q /\ q <= Len(s) - 3
      BY <1>1, <1>5, <2>1, <2>3 DEF TokenAt
    <2>7. t = SubSeq(s, n, m - 1)
      <3>1. PICK x \in Nat : x = p + 1
        OBVIOUS
      <3>2. PICK to \in Int : to = m - 1
        OBVIOUS
      <3>3. x >= 1 /\ n = 3 + x /\ to = 3 + q /\ q \in Int /\ 3 <= Len(s)
        BY <2>0, <2>4, <2>5, <3>1, <3>2
      <3>4. SubSeq(From(s, 3), x, q) = SubSeq(s, n, to)
        BY <2>6, <3>3, PartOfRest
      <3> QED
        BY <1>2, <1>3, <2>3, <3>1, <3>2, <3>4
    <2>8. msg = From(s, m)
      <3>1. PICK x \in Nat : x = q + 1
        OBVIOUS
      <3>2. m = 3 + x /\ 3 <= Len(s)
        BY <2>0, <2>5, <3>1
      <3>3. From(From(s, 3), x) = From(s, m)
        BY <3>2, RestOfRest
      <3> QED
        BY <1>2, <1>3, <2>3, <3>1, <3>3
    <2>9. ASSUME msg # << >>
          PROVE  n \in 1..Len(s) /\ m \in 1..Len(s) /\ Form(s, n, m)
      <3>1. m < Len(s)
        <4>1. ASSUME ~(m < Len(s)) PROVE FALSE
          <5>1. Len(s) < m + 1 /\ m + 1 \in Int /\ Len(s) \in Int
            BY <1>1, <4>1
          <5> QED
            BY <2>8, <2>9, <5>1, SubSeqEmpty DEF From
        <4> QED
          BY <4>1
      <3>2. /\ q + 1 \in 1..(Len(s) - 3) /\ 3 + (q + 1) = m /\ q # Len(r)
            /\ p + 1 \in 1..(Len(s) - 3) /\ 3 + (p + 1) = n /\ p # Len(r)
        BY <1>1, <2>1, <2>4, <2>5, <2>6, <3>1
      <3>3. s[m] = Space /\ s[n] # Space
        BY <2>1, <2>3, <3>2 DEF TokenAt
      <3>4. n < m
        BY <2>4, <2>5, <2>6, <3>3
      <3>5. ASSUME NEW j \in 3..(n - 1) PROVE s[j] = Space
        <4>1. CASE j = 3
          BY <2>2, <4>1
        <4>2. CASE j # 3
          <5>1. PICK i \in 1..(Len(s) - 3) : j = 3 + i /\ i \in 1..p
            <6>1. j - 3 \in 1..(Len(s) - 3) /\ j = 3 + (j - 3) /\ j - 3 \in 1..p
              BY <1>1, <2>4, <2>6, <4>2
            <6> QED
              BY <6>1
          <5> QED
            BY <2>1, <2>3, <5>1 DEF TokenAt
        <4> QED
          BY <4>1, <4>2
      <3>6. ASSUME NEW j \in n..(m - 1) PROVE s[j] # Space
        <4>1. PICK i \in 1..(Len(s) - 3) : j = 3 + i /\ i \in (p + 1)..q
          <5>1. j - 3 \in 1..(Len(s) - 3) /\ j = 3 + (j - 3) /\ j - 3 \in (p + 1)..q
            BY <1>1, <2>4, <2>5, <2>6
          <5> QED
            BY <5>1
        <4> QED
          BY <2>1, <2>3, <4>1 DEF TokenAt
      <3>7. n >= 4 /\ n \in 1..Len(s) /\ m \in 1..Len(s)
        BY <1>1, <2>4, <2>5, <3>1, <3>4
      <3> QED
        BY <1>1, <3>1, <3>3, <3>4, <3>5, <3>6, <3>7 DEF Form
    <2>10. ASSUME NEW x \in 1..Len(s), NEW y \in 1..Len(s), Form(s, x, y)
           PROVE  x = n /\ y = m
      <3>1. PICK b \in Nat : x = b + 4
        <4>1. x - 4 \in Nat /\ x = (x - 4) + 4
          BY <1>1, <2>10 DEF Form
        <4> QED
          BY <4>1
      <3>2. PICK c \in Nat : y = c + 4
        <4>1. y - 4 \in Nat /\ y = (y - 4) + 4
          BY <1>1, <2>10 DEF Form
        <4> QED
          BY <4>1
      <3>3. b < c /\ c + 4 < Len(s)
        BY <1>1, <2>10, <3>1, <3>2 DEF Form
      <3>4. TokenAt(r, b, c)
        <4>1. b \in 0..Len(r) /\ c \in b..Len(r)
          BY <1>1, <2>1, <3>3
        <4>2. ASSUME NEW j \in 1..b PROVE r[j] = Space
          <5>1. 3 + j \in 3..(x - 1) /\ j \in 1..(Len(s) - 3)
            BY <1>1, <3>1, <3>3
          <5> QED
            BY <2>1, <2>10, <5>1 DEF Form
        <4>3. r[b + 1] # Space
          <5>1. x \in x..(y - 1) /\ b + 1 \in 1..(Len(s) - 3) /\ 3 + (b + 1) = x
            BY <1>1, <3>1, <3>2, <3>3
          <5> QED
            BY <2>1, <2>10, <5>1 DEF Form
        <4>4. ASSUME NEW j \in (b + 1)..c PROVE r[j] # Space
          <5>1. 3 + j \in x..(y - 1) /\ j \in 1..(Len(s) - 3)
            BY <1>1, <3>1, <3>2, <3>3
          <5> QED
            BY <2>1, <2>10, <5>1 DEF Form
        <4>5. r[c + 1] = Space
          <5>1. c + 1 \in 1..(Len(s) - 3) /\ 3 + (c + 1) = y
            BY <1>1, <3>2, <3>3
          <5> QED
            BY <2>1, <2>10, <5>1 DEF Form
        <4> QED
          BY <4>1, <4>2, <4>3, <4>4, <4>5 DEF TokenAt
      <3>5. p = b /\ q = c
        BY <2>1, <2>3, <3>4, TokenUnique
      <3> QED
        BY <2>4, <2>5, <3>1, <3>2, <3>5
    <2> QED
      BY <2>7, <2>8, <2>9, <2>10
  <1>6. Len(s) = 2 \/ Len(s) > 2
    <2>1. PICK len \in Nat : len = Len(s)
      OBVIOUS
    <2>2. len >= 2
      BY <1>1, <2>1
    <2> QED
      BY <2>1, <2>2
  <1> QED
    BY <1>4, <1>5, <1>6

-----------------------------------------------------------------------------
(* The inductive invariant: the types, and of a whisper what was found in  *)
(* the message and what was sent.                                          *)

Typed ==
  /\ payload \in Seq(Input) /\ name \in [Clients -> Seq(Input)]
  /\ \A c \in Clients : name_len[c] \in 0..Len(name[c])

Report == [to |-> target, text |-> CString(format_whisper_message(whisper_msg))]

Warned ==
  /\ result = "CMD_WARNING" /\ sent = << >>
  /\ whisper_msg = << >> \/ Matches = {}

Whispered ==
  /\ result \in {"CMD_OK", "CMD_ERROR"}
  /\ whisper_msg # << >> /\ Matches # {}
  /\ sent = << >> \/ sent = <<Report>>

Answered ==
  (result # "none" /\ IsCommand /\ Cmd = "CMD_WHISPER") => Warned \/ Whispered

IInv ==
  /\ Typed
  /\ result = "none" => sent = << >>
  /\ Answered

LEMMA InitIInv == Init => IInv
  <1> SUFFICES ASSUME Init PROVE IInv
    OBVIOUS
  <1>1. payload \in Seq(Input)
    <2>1. payload \in SeqOf(Input, MaxPayload)
      BY DEF Init
    <2>2. PICK m \in 0..MaxPayload : payload \in [1..m -> Input]
      BY <2>1 DEF SeqOf
    <2>3. m \in Nat
      BY <2>2, CommandAssumption
    <2> QED
      BY <2>2, <2>3, SeqDef
  <1>2. name \in [Clients -> Seq(Input)]
    BY CommandAssumption DEF Init
  <1>3. ASSUME NEW c \in Clients PROVE name_len[c] \in 0..Len(name[c])
    <2>1. name_len[c] = IF has_name[c] THEN Len(name[c]) ELSE 0
      BY DEF Init
    <2>2. Len(name[c]) \in Nat
      BY <1>2
    <2> QED
      BY <2>1, <2>2
  <1>4. Typed
    BY <1>1, <1>2, <1>3 DEF Typed
  <1>5. result = "none" /\ sent = << >>
    BY DEF Init
  <1> QED
    BY <1>4, <1>5 DEF IInv, Answered

\* What is read of a message depends on the message and the names alone.
LEMMA SameReading ==
  ASSUME UNCHANGED <<payload, name, name_len>>
  PROVE  /\ Typed' <=> Typed
         /\ IsCommand' <=> IsCommand
         /\ Cmd' = Cmd /\ whisper_msg' = whisper_msg
         /\ Matches' = Matches /\ Report' = Report
  <1>1. payload' = payload /\ name' = name /\ name_len' = name_len
    OBVIOUS
  <1>2. Typed' <=> Typed
    BY <1>1 DEF Typed
  <1>3. IsCommand' <=> IsCommand
    BY <1>1 DEF IsCommand
  <1>4. Cmd' = Cmd
    BY <1>1 DEF Cmd
  <1>5. Arguments' = Arguments
    BY <1>1 DEF Arguments
  <1>6. whisper_msg' = whisper_msg /\ whisper_target' = whisper_target
    BY <1>5 DEF whisper_msg, whisper_target
  <1>7. Matches' = Matches
    BY <1>1, <1>6 DEF Matches
  <1>8. target' = target
    BY <1>7 DEF target
  <1>9. Report' = Report
    BY <1>1, <1>6, <1>8 DEF Report, format_whisper_message, NameOf
  <1> QED
    BY <1>2, <1>3, <1>4, <1>6, <1>7, <1>9

LEMMA NextIInv ==
  ASSUME IInv, [Next]_vars
  PROVE  IInv'
  <1>1. UNCHANGED <<payload, name, name_len>>
    BY DEF Next, vars, Chat, handle_list, WhisperWarning, Whisper, handle_shutdown,
           server_handle_unknown
  <1>2. Typed'
    BY <1>1, SameReading DEF IInv
  <1>3. /\ IsCommand' <=> IsCommand
        /\ Cmd' = Cmd /\ whisper_msg' = whisper_msg
        /\ Matches' = Matches /\ Report' = Report
    BY <1>1, SameReading
  <1>4. CASE Chat
    <2>1. ~IsCommand' /\ result' = "CMD_OK"
      BY <1>3, <1>4 DEF Chat
    <2> QED
      BY <1>2, <2>1 DEF IInv, Answered
  <1>5. CASE handle_list
    <2>1. Cmd' = "CMD_LIST" /\ result' = "CMD_OK"
      BY <1>3, <1>5 DEF handle_list
    <2> QED
      BY <1>2, <2>1 DEF IInv, Answered
  <1>6. CASE WhisperWarning
    <2>1. /\ result = "none" /\ result' = "CMD_WARNING" /\ sent' = sent
          /\ whisper_msg = << >> \/ Matches = {}
      BY <1>6 DEF WhisperWarning
    <2>2. sent' = << >>
      BY <2>1 DEF IInv
    <2>3. Warned'
      BY <1>3, <2>1, <2>2 DEF Warned
    <2> QED
      BY <1>2, <2>1, <2>3 DEF IInv, Answered
  <1>7. CASE Whisper
    <2>1. /\ result = "none" /\ whisper_msg # << >> /\ Matches # {}
          /\ \/ sent' = <<Report>> /\ result' = "CMD_OK"
             \/ sent' = sent /\ result' = "CMD_ERROR"
      BY <1>7 DEF Whisper, Report
    <2>2. sent = << >>
      BY <2>1 DEF IInv
    <2>3. Whispered'
      BY <1>3, <2>1, <2>2 DEF Whispered
    <2>4. result' # "none"
      BY <2>1
    <2> QED
      BY <1>2, <2>3, <2>4 DEF IInv, Answered
  <1>8. CASE handle_shutdown
    <2>1. Cmd' = "CMD_SHUTDOWN" /\ result' = "CMD_DISCONNECT"
      BY <1>3, <1>8 DEF handle_shutdown
    <2> QED
      BY <1>2, <2>1 DEF IInv, Answered
  <1>9. CASE server_handle_unknown
    <2>1. Cmd' = "CMD_UNKNOWN" /\ result' = "CMD_OK"
      BY <1>3, <1>9 DEF server_handle_unknown
    <2> QED
      BY <1>2, <2>1 DEF IInv, Answered
  <1>10. CASE UNCHANGED vars
    <2>1. result' = result /\ sent' = sent
      BY <1>10 DEF vars
    <2>2. (Warned' <=> Warned) /\ (Whispered' <=> Whispered)
      BY <1>3, <2>1 DEF Warned, Whispered
    <2>3. Answered' <=> Answered
      BY <1>3, <2>1, <2>2 DEF Answered
    <2> QED
      BY <1>2, <2>1, <2>3 DEF IInv
  <1> QED
    BY <1>4, <1>5, <1>6, <1>7, <1>8, <1>9, <1>10 DEF Next

LEMMA Invariance == Spec => []IInv
  BY InitIInv, NextIInv, PTL DEF Spec

-----------------------------------------------------------------------------
(* The texts and their buffers                                             *)

LEMMA Typing ==
  ASSUME Typed
  PROVE  /\ payload \in Seq(Chars) /\ CString(payload) \in Seq(Chars)
         /\ \A c \in Clients : /\ name[c] \in Seq(Chars)
                               /\ NameOf(c) \in Seq(Chars) /\ Len(NameOf(c)) = name_len[c]
                               /\ name_len[c] \in Nat
         /\ Arguments \in Seq(Chars) /\ whisper_msg \in Seq(Chars)
  <1>1. Input \subseteq Chars
    BY DEF Chars
  <1>2. payload \in Seq(Chars)
    BY <1>1, SeqMonotonic DEF Typed
  <1>3. CString(payload) \in Seq(Chars)
    BY <1>2, CStringFacts
  <1>4. ASSUME NEW c \in Clients
        PROVE  /\ name[c] \in Seq(Chars)
               /\ NameOf(c) \in Seq(Chars) /\ Len(NameOf(c)) = name_len[c]
               /\ name_len[c] \in Nat
    <2>1. name[c] \in Seq(Input) /\ name_len[c] \in 0..Len(name[c])
      BY DEF Typed
    <2>2. name[c] \in Seq(Chars)
      BY <1>1, <2>1, SeqMonotonic
    <2>3. PICK n \in Nat : n = name_len[c] /\ n <= Len(name[c])
      BY <2>1
    <2>4. PICK x : x = name[c]
      OBVIOUS
    <2>5. /\ SubSeq(x, 1, n) \in Seq(Chars)
          /\ Len(SubSeq(x, 1, n)) = IF 1 <= n THEN n - 1 + 1 ELSE 0
      BY <2>2, <2>3, <2>4, PartOf
    <2>6. Len(SubSeq(x, 1, n)) = n
      BY <2>5
    <2> QED
      BY <2>2, <2>3, <2>4, <2>5, <2>6 DEF NameOf
  <1>5. ASSUME NEW s \in Seq(Chars) PROVE Saveptr(s) \in Seq(Chars)
    <2>1. PICK q \in Nat : Saveptr(s) = From(s, q + 1)
      BY TokenFound
    <2>2. PICK m \in Nat : m = (q + 1) + 1 /\ m >= 1
      OBVIOUS
    <2>3. SubSeq(s, m, Len(s)) \in Seq(Chars)
      <3>1. Len(s) \in Int /\ Len(s) <= Len(s)
        OBVIOUS
      <3> QED
        BY <2>2, <3>1, PartOf
    <2> QED
      BY <2>1, <2>2, <2>3 DEF From
  <1>6. Arguments \in Seq(Chars)
    BY <1>3, <1>5 DEF Arguments
  <1>7. whisper_msg \in Seq(Chars)
    BY <1>5, <1>6 DEF whisper_msg
  <1> QED
    BY <1>2, <1>3, <1>4, <1>6, <1>7

\* The fixed parts of a text.
LEMMA FixedParts ==
  /\ Timestamp \in Seq(Chars \ {NUL}) /\ Len(Timestamp) = TimestampLen
  /\ Others(WhisperThingLen) \in Seq(Chars \ {NUL})
  /\ Len(Others(WhisperThingLen)) = WhisperThingLen
  <1>1. Other \in Chars \ {NUL}
    BY DEF Chars, Other, NUL
  <1>2. ASSUME NEW n \in Nat
        PROVE  Others(n) \in Seq(Chars \ {NUL}) /\ Len(Others(n)) = n
    BY <1>1 DEF Others
  <1> QED
    BY <1>2, CommandAssumption DEF Timestamp

\* A text of two fixed parts, a name, another fixed part, a message and the
\* newline.
AddsUp(T, u, v, nm, x, msg, y, text) ==
  /\ text \in Seq(T)
  /\ Len(text) = Len(u) + Len(v) + Len(nm) + Len(x) + Len(msg) + Len(y)

LEMMA TextLength ==
  ASSUME NEW T, NEW u \in Seq(T), NEW v \in Seq(T), NEW nm \in Seq(T), NEW x \in Seq(T),
         NEW msg \in Seq(T), NEW y \in Seq(T),
         NEW text, text = u \o v \o nm \o x \o msg \o y
  PROVE  AddsUp(T, u, v, nm, x, msg, y, text)
  <1>1. PICK p : p = u \o v
    OBVIOUS
  <1>2. p \in Seq(T) /\ Len(p) = Len(u) + Len(v)
    BY <1>1, ConcatProperties
  <1>3. PICK q : q = p \o nm
    OBVIOUS
  <1>4. q \in Seq(T) /\ Len(q) = Len(p) + Len(nm)
    BY <1>2, <1>3, ConcatProperties
  <1>5. PICK r : r = q \o x
    OBVIOUS
  <1>6. r \in Seq(T) /\ Len(r) = Len(q) + Len(x)
    BY <1>4, <1>5, ConcatProperties
  <1>7. PICK s : s = r \o msg
    OBVIOUS
  <1>8. s \in Seq(T) /\ Len(s) = Len(r) + Len(msg)
    BY <1>6, <1>7, ConcatProperties
  <1>9. text = s \o y
    BY <1>1, <1>3, <1>5, <1>7
  <1>10. text \in Seq(T) /\ Len(text) = Len(s) + Len(y)
    BY <1>8, <1>9, ConcatProperties
  <1> QED
    BY <1>2, <1>4, <1>6, <1>8, <1>10 DEF AddsUp

\* Short fixed parts.
LEMMA ShortParts ==
  /\ <<Space>> \in Seq(Chars \ {NUL}) /\ Len(<<Space>>) = 1
  /\ <<Newline>> \in Seq(Chars \ {NUL}) /\ Len(<<Newline>>) = 1
  /\ <<Other, Space>> \in Seq(Chars \ {NUL}) /\ Len(<<Other, Space>>) = 2
  /\ <<Other, Other, Space>> \in Seq(Chars \ {NUL}) /\ Len(<<Other, Other, Space>>) = 3
  <1>1. Space \in Chars \ {NUL} /\ Newline \in Chars \ {NUL} /\ Other \in Chars \ {NUL}
    BY DEF Chars, Input, Space, Newline, Other, NUL
  <1> QED
    BY <1>1

\* A text is as long as its parts; if the name and the message hold no NUL,
\* neither does a whisper.
LEMMA Texts ==
  ASSUME Typed, NEW msg \in Seq(Chars)
  PROVE  /\ format_whisper_message(msg) \in Seq(Chars)
         /\ Len(format_chat_message(msg)) < ChatBuffer(msg)
         /\ Len(format_whisper_message(msg)) < WhisperBuffer(msg)
         /\ (NameOf(user) \in Seq(Chars \ {NUL}) /\ msg \in Seq(Chars \ {NUL})) =>
              format_whisper_message(msg) \in Seq(Chars \ {NUL})
  <1> DEFINE T == Chars \ {NUL}
  <1>1. PICK nm : nm = NameOf(user)
    OBVIOUS
  <1>2. nm \in Seq(Chars) /\ Len(nm) = name_len[user] /\ name_len[user] \in Nat
    BY <1>1, Typing DEF user, Clients
  <1>3. PICK u : u = Timestamp
    OBVIOUS
  <1>4. PICK v : v = Others(WhisperThingLen)
    OBVIOUS
  <1>5. PICK x, y, b, e : x = <<Space>> /\ y = <<Newline>> /\ b = <<Other, Space>>
                            /\ e = <<Other, Other, Space>>
    OBVIOUS
  <1>6. /\ u \in Seq(T) /\ v \in Seq(T) /\ x \in Seq(T) /\ y \in Seq(T)
        /\ b \in Seq(T) /\ e \in Seq(T)
    BY <1>3, <1>4, <1>5, FixedParts, ShortParts
  <1>7. /\ Len(u) = TimestampLen /\ Len(v) = WhisperThingLen /\ Len(x) = 1 /\ Len(y) = 1
        /\ Len(b) = 2 /\ Len(e) = 3
    BY <1>3, <1>4, <1>5, FixedParts, ShortParts
  <1>8. /\ u \in Seq(Chars) /\ v \in Seq(Chars) /\ x \in Seq(Chars) /\ y \in Seq(Chars)
        /\ b \in Seq(Chars) /\ e \in Seq(Chars)
    <2>1. T \subseteq Chars
      OBVIOUS
    <2> HIDE DEF T
    <2> QED
      BY <1>6, <2>1, SeqMonotonic
  <1>9. PICK chat : chat = u \o x \o nm \o b \o msg \o y
    OBVIOUS
  <1>10. PICK whisper : whisper = u \o v \o nm \o e \o msg \o y
    OBVIOUS
  <1>11. Len(chat) = Len(u) + Len(x) + Len(nm) + Len(b) + Len(msg) + Len(y)
    <2>1. AddsUp(Chars, u, x, nm, b, msg, y, chat)
      BY <1>2, <1>8, <1>9, TextLength
    <2> QED
      BY <2>1 DEF AddsUp
  <1>12. /\ whisper \in Seq(Chars)
         /\ Len(whisper) = Len(u) + Len(v) + Len(nm) + Len(e) + Len(msg) + Len(y)
    <2>1. AddsUp(Chars, u, v, nm, e, msg, y, whisper)
      BY <1>2, <1>8, <1>10, TextLength
    <2> QED
      BY <2>1 DEF AddsUp
  <1>13. (nm \in Seq(T) /\ msg \in Seq(T)) => whisper \in Seq(T)
    <2> HIDE DEF T
    <2>1. ASSUME nm \in Seq(T), msg \in Seq(T) PROVE whisper \in Seq(T)
      <3>1. AddsUp(T, u, v, nm, e, msg, y, whisper)
        BY <1>6, <1>10, <2>1, TextLength
      <3> QED
        BY <3>1 DEF AddsUp
    <2> QED
      BY <2>1
  <1>14. chat = format_chat_message(msg)
    BY <1>1, <1>3, <1>5, <1>9 DEF format_chat_message
  <1>15. whisper = format_whisper_message(msg)
    BY <1>1, <1>3, <1>4, <1>5, <1>10 DEF format_whisper_message
  <1>16. TimestampLen \in Nat /\ WhisperThingLen \in Nat /\ Len(msg) \in Nat
    BY CommandAssumption
  <1>17. Len(chat) < ChatBuffer(msg)
    <2>1. Len(chat) = TimestampLen + 1 + name_len[user] + 2 + Len(msg) + 1
      BY <1>2, <1>7, <1>11
    <2> QED
      BY <1>2, <1>16, <2>1 DEF ChatBuffer
  <1>18. Len(whisper) < WhisperBuffer(msg)
    <2>1. Len(whisper) = TimestampLen + WhisperThingLen + name_len[user] + 3 + Len(msg) + 1
      BY <1>2, <1>7, <1>12
    <2> QED
      BY <1>2, <1>16, <2>1 DEF WhisperBuffer
  <1> QED
    BY <1>1, <1>12, <1>13, <1>14, <1>15, <1>17, <1>18

\* The buffers that format_chat_message and format_whisper_message allocate
\* have room for their texts, whatever the message, the name and the lengths
\* of the fixed parts.
THEOREM TextsSound == Spec => []TextsFit
  <1>1. ASSUME IInv PROVE TextsFit
    <2>1. Typed
      BY <1>1 DEF IInv
    <2>2. payload \in Seq(Chars) /\ whisper_msg \in Seq(Chars)
      BY <2>1, Typing
    <2> QED
      BY <2>1, <2>2, Texts DEF TextsFit
  <1> QED
    BY <1>1, Invariance, PTL

-----------------------------------------------------------------------------
(* Whispers                                                                *)

\* A clean sequence and a sequence without NUL are the same.
LEMMA CleanSeq ==
  ASSUME NEW s \in Seq(Chars)
  PROVE  Clean(s) <=> s \in Seq(Chars \ {NUL})
  <1>1. ASSUME Clean(s) PROVE s \in Seq(Chars \ {NUL})
    <2>1. Len(s) \in Nat /\ s \in [1..Len(s) -> Chars]
      OBVIOUS
    <2>2. \A j \in 1..Len(s) : s[j] \in Chars \ {NUL}
      BY <1>1, <2>1 DEF Clean
    <2>3. s \in [1..Len(s) -> Chars \ {NUL}]
      BY <2>1, <2>2
    <2> QED
      BY <2>1, <2>3, SeqDef
  <1>2. ASSUME s \in Seq(Chars \ {NUL}) PROVE Clean(s)
    BY <1>2, ElementOfSeq DEF Clean
  <1> QED
    BY <1>1, <1>2

\* What WhisperIsParsed says of the C string s of the message.
Parses(s) ==
  \E n, m \in 1..Len(s) :
    LET t == SubSeq(s, n, m - 1) msg == From(s, m)
    IN /\ n < m /\ IsWhisper(s, t, msg)
       /\ \E c \in Clients : CString(name[c]) = t
       /\ sent # << >> => IsDelivered(t, msg)

\* The C string of a message that is a whisper, and its parts.
LEMMA WhisperString ==
  ASSUME Typed, IsCommand, Cmd = "CMD_WHISPER", NEW s, s = CString(payload)
  PROVE  /\ s \in Seq(Chars) /\ Clean(s) /\ s # << >> /\ s[1] = Slash
         /\ find_command(make_lowercase(Token(s))) = "CMD_WHISPER"
         /\ whisper_target = Token(Saveptr(s)) /\ whisper_msg = Saveptr(Saveptr(s))
  <1>1. payload \in Seq(Chars)
    BY Typing
  <1>2. payload # << >> /\ payload[1] = Slash /\ Slash # NUL
    BY DEF IsCommand, Slash, NUL
  <1>3. /\ s \in Seq(Chars) /\ Clean(s) /\ s # << >>
        /\ \A j \in 1..Len(s) : s[j] = payload[j]
    BY <1>1, <1>2, CStringFacts
  <1>4. 1 \in 1..Len(s)
    BY <1>3, EmptySeq
  <1> QED
    BY <1>2, <1>3, <1>4 DEF Cmd, Arguments, whisper_target, whisper_msg

\* The first client of that name gets the text, and the text is whole unless
\* the sender's name has a NUL.
LEMMA ReportDelivered ==
  ASSUME Typed, IsCommand, Cmd = "CMD_WHISPER", Matches # {}, sent = <<Report>>
  PROVE  IsDelivered(whisper_target, whisper_msg)
  <1>1. target \in Matches
    <2>1. Matches \subseteq Nat
      BY DEF Matches, Clients
    <2>2. \E c \in Matches : \A d \in Matches : c <= d
      BY <2>1, LeastNumber
    <2> QED
      BY <2>2 DEF target
  <1>2. target \in Clients /\ CString(name[target]) = whisper_target
    BY <1>1 DEF Matches
  <1>3. PICK text : text = format_whisper_message(whisper_msg)
    OBVIOUS
  <1>4. Len(sent) = 1 /\ sent[1].to = target /\ sent[1].text = CString(text)
    BY <1>3 DEF Report
  <1>5. whisper_msg \in Seq(Chars) /\ NameOf(user) \in Seq(Chars)
    BY Typing DEF user, Clients
  <1>6. text \in Seq(Chars)
    BY <1>3, <1>5, Texts
  <1>7. whisper_msg \in Seq(Chars \ {NUL})
    <2>1. PICK s : s = CString(payload)
      OBVIOUS
    <2>2. s \in Seq(Chars) /\ Clean(s) /\ whisper_msg = Saveptr(Saveptr(s))
      BY <2>1, WhisperString
    <2>3. ASSUME NEW r \in Seq(Chars), Clean(r) PROVE Saveptr(r) \in Seq(Chars) /\ Clean(Saveptr(r))
      <3>1. r \in Seq(Chars \ {NUL}) /\ Len(r) \in Int /\ Len(r) <= Len(r)
        BY <2>3, CleanSeq
      <3>2. PICK q \in Nat : Saveptr(r) = From(r, q + 1)
        BY TokenFound
      <3>3. PICK m \in Nat : m = (q + 1) + 1 /\ m >= 1
        OBVIOUS
      <3>4. SubSeq(r, m, Len(r)) \in Seq(Chars \ {NUL}) /\ SubSeq(r, m, Len(r)) \in Seq(Chars)
        BY <3>1, <3>3, PartOf
      <3>5. Saveptr(r) = SubSeq(r, m, Len(r))
        BY <3>2, <3>3 DEF From
      <3> QED
        BY <3>4, <3>5, CleanSeq
    <2>4. Saveptr(s) \in Seq(Chars) /\ Clean(Saveptr(s))
      BY <2>2, <2>3
    <2>5. Saveptr(Saveptr(s)) \in Seq(Chars) /\ Clean(Saveptr(Saveptr(s)))
      BY <2>3, <2>4
    <2> QED
      BY <2>2, <2>5, CleanSeq
  <1>8. ASSUME CString(NameOf(user)) = NameOf(user) PROVE CString(text) = text
    <2>1. Clean(NameOf(user))
      BY <1>5, <1>8, CStringFacts
    <2>2. NameOf(user) \in Seq(Chars \ {NUL})
      BY <1>5, <2>1, CleanSeq
    <2>3. text \in Seq(Chars \ {NUL})
      BY <1>3, <1>5, <1>7, <2>2, Texts
    <2>4. Clean(text)
      BY <1>6, <2>3, CleanSeq
    <2> QED
      BY <1>6, <2>4, CStringFacts
  <1> QED
    BY <1>2, <1>3, <1>4, <1>8 DEF IsDelivered

\* strtok_r cuts a whisper into its target and its message: for messages of
\* every length and every content of the name fields, a whisper is sent just
\* for a command of the documented form that names a client, and its text is
\* the message.
THEOREM WhisperSound == Spec => []WhisperIsParsed
  <1>1. ASSUME IInv, result # "none", IsCommand, Cmd = "CMD_WHISPER"
        PROVE  Parses(CString(payload)) <=> result \in {"CMD_OK", "CMD_ERROR"}
    <2>1. Typed /\ (Warned \/ Whispered)
      BY <1>1 DEF IInv, Answered
    <2>2. PICK s : s = CString(payload)
      OBVIOUS
    <2>3. /\ s \in Seq(Chars) /\ s # << >> /\ s[1] = Slash
          /\ find_command(make_lowercase(Token(s))) = "CMD_WHISPER"
          /\ whisper_target = Token(Saveptr(s)) /\ whisper_msg = Saveptr(Saveptr(s))
      BY <1>1, <2>1, <2>2, WhisperString
    <2>4. /\ whisper_msg # << >> =>
               \E n, m \in 1..Len(s) :
                 /\ Form(s, n, m) /\ whisper_target = SubSeq(s, n, m - 1)
                 /\ whisper_msg = From(s, m)
          /\ \A n, m \in 1..Len(s) :
               Form(s, n, m) => /\ whisper_target = SubSeq(s, n, m - 1)
                                /\ whisper_msg = From(s, m)
      BY <2>3, ArgumentsCut
    <2>5. ASSUME Whispered PROVE Parses(s)
      <3>1. /\ whisper_msg # << >> /\ Matches # {}
            /\ sent = << >> \/ sent = <<Report>>
        BY <2>5 DEF Whispered
      <3>2. PICK n \in 1..Len(s), m \in 1..Len(s) :
              /\ Form(s, n, m) /\ whisper_target = SubSeq(s, n, m - 1)
              /\ whisper_msg = From(s, m)
        BY <2>4, <3>1
      <3>3. n < m
        BY <3>2 DEF Form
      <3>4. IsWhisper(s, whisper_target, whisper_msg)
        BY <2>3, <3>2, <3>3, FormOfWhisper
      <3>5. \E c \in Clients : CString(name[c]) = whisper_target
        BY <3>1 DEF Matches
      <3>6. sent # << >> => IsDelivered(whisper_target, whisper_msg)
        BY <1>1, <2>1, <3>1, ReportDelivered
      <3> QED
        BY <3>2, <3>3, <3>4, <3>5, <3>6 DEF Parses
    <2>6. ASSUME Warned, Parses(s) PROVE FALSE
      <3>1. PICK n \in 1..Len(s), m \in 1..Len(s) :
              /\ n < m /\ IsWhisper(s, SubSeq(s, n, m - 1), From(s, m))
              /\ \E c \in Clients : CString(name[c]) = SubSeq(s, n, m - 1)
        BY <2>6 DEF Parses
      <3>2. Form(s, n, m)
        BY <2>3, <3>1, FormOfWhisper
      <3>3. whisper_target = SubSeq(s, n, m - 1) /\ whisper_msg = From(s, m)
        BY <2>4, <3>2
      <3>4. Matches # {}
        BY <3>1, <3>3 DEF Matches
      <3>5. whisper_msg # << >>
        BY <3>1, <3>3 DEF IsWhisper
      <3> QED
        BY <2>6, <3>4, <3>5 DEF Warned
    <2>7. Warned => result \notin {"CMD_OK", "CMD_ERROR"}
      BY DEF Warned
    <2>8. Whispered => result \in {"CMD_OK", "CMD_ERROR"}
      BY DEF Whispered
    <2> QED
      BY <2>1, <2>2, <2>5, <2>6, <2>7, <2>8
  <1>2. ASSUME IInv PROVE WhisperIsParsed
    BY <1>1, <1>2 DEF WhisperIsParsed, Parses
  <1> QED
    BY <1>2, Invariance, PTL
=============================================================================

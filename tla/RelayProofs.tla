---------------------------- MODULE RelayProofs -----------------------------
(***************************************************************************)
(* Tunnels are exact and responses faithful, for any answers, any headers, *)
(* any body, any buffer sizes and limits, and however TCP cuts what is     *)
(* sent.                                                                   *)
(*                                                                         *)
(* The argument: what has been read and what is still unread are together  *)
(* always what the peer sent (Answered, Open), or, of a response, where it *)
(* begins (InHeaders, InBody): a peer that stops early leaves less behind, *)
(* never anything else.  The first empty line of a response that is no     *)
(* interim one ends its own headers, whatever its body holds               *)
(* (TopShape), and the parser stops at the first, wherever the reads were  *)
(* cut, so what it takes for the body is the body.                         *)
(***************************************************************************)
EXTENDS Relay, Integers, SequenceTheorems, WellFoundedInduction, TLAPS

\* All that is ever sent, and sequences of it.
Alphabet == Words \cup Tokens \cup {"0", "1", "2", "4", "5", "ff", "atyp", "bnd"}
Text == Seq(Alphabet)

-----------------------------------------------------------------------------
(* Sequences.                                                              *)

\* s begins with p, said position by position.
Begins(p, s) == Len(p) <= Len(s) /\ \A i \in 1 .. Len(p) : p[i] = s[i]

LEMMA Slice ==
  ASSUME NEW s \in Text, NEW m \in 1 .. Len(s) + 1, NEW n \in m - 1 .. Len(s)
  PROVE  /\ SubSeq(s, m, n) \in Text /\ Len(SubSeq(s, m, n)) = n - m + 1
         /\ \A i \in 1 .. n - m + 1 : SubSeq(s, m, n)[i] = s[m + i - 1]
<1>1. Len(s) \in Nat /\ \A i \in m .. n : s[i] \in Alphabet
  BY LenProperties, ElementOfSeq DEF Text
<1>2. QED
  BY <1>1, SubSeqProperties DEF Text

LEMMA Front ==
  ASSUME NEW s \in Text, NEW n \in 0 .. Len(s)
  PROVE  /\ SubSeq(s, 1, n) \in Text /\ Len(SubSeq(s, 1, n)) = n
         /\ \A i \in 1 .. n : SubSeq(s, 1, n)[i] = s[i]
<1>1. 1 \in 1 .. Len(s) + 1 /\ n \in 1 - 1 .. Len(s) /\ n - 1 + 1 = n /\ n \in Nat
  BY LenProperties DEF Text
<1>2. /\ SubSeq(s, 1, n) \in Text /\ Len(SubSeq(s, 1, n)) = n - 1 + 1
      /\ \A i \in 1 .. n - 1 + 1 : SubSeq(s, 1, n)[i] = s[1 + i - 1]
  BY <1>1, Slice
<1>3. \A i \in 1 .. n : 1 + i - 1 = i
  OBVIOUS
<1>4. QED
  BY <1>1, <1>2, <1>3

LEMMA Joined ==
  ASSUME NEW s \in Text, NEW t \in Text
  PROVE  /\ s \o t \in Text /\ Len(s) \in Nat /\ Len(t) \in Nat /\ Len(s \o t) = Len(s) + Len(t)
         /\ \A i \in 1 .. Len(s) : (s \o t)[i] = s[i]
         /\ \A i \in 1 .. Len(t) : (s \o t)[Len(s) + i] = t[i]
<1>1. Len(s) \in Nat /\ Len(t) \in Nat
  BY LenProperties DEF Text
<1>2. /\ s \o t \in Text /\ Len(s \o t) = Len(s) + Len(t)
      /\ \A i \in 1 .. Len(s) + Len(t) : (s \o t)[i] = IF i <= Len(s) THEN s[i] ELSE t[i - Len(s)]
  BY ConcatProperties DEF Text
<1>3. \A i \in 1 .. Len(t) : (s \o t)[Len(s) + i] = t[i]
  <2>1. TAKE i \in 1 .. Len(t)
  <2>2. Len(s) + i \in 1 .. Len(s) + Len(t) /\ ~ (Len(s) + i <= Len(s)) /\ Len(s) + i - Len(s) = i
    BY <1>1
  <2>3. QED
    BY <1>2, <2>2
<1>4. QED
  BY <1>1, <1>2, <1>3

LEMMA StillBegins ==
  ASSUME NEW s \in Text, NEW t \in Text, NEW n \in Nat, n <= Len(s)
  PROVE  s \o t \in Text /\ n <= Len(s \o t) /\ \A j \in 1 .. n : (s \o t)[j] = s[j]
<1>1. /\ s \o t \in Text /\ Len(s) \in Nat /\ Len(t) \in Nat /\ Len(s \o t) = Len(s) + Len(t)
      /\ \A j \in 1 .. Len(s) : (s \o t)[j] = s[j]
  BY Joined
<1>2. QED
  BY <1>1

LEMMA Regrouped ==
  ASSUME NEW s \in Text, NEW t \in Text, NEW u \in Text
  PROVE  (s \o t) \o u = s \o (t \o u)
BY ConcatAssociative DEF Text

LEMMA Adjacent ==
  ASSUME NEW s \in Text, NEW m \in 0 .. Len(s), NEW n \in m .. Len(s)
  PROVE  SubSeq(s, 1, m) \o SubSeq(s, m + 1, n) = SubSeq(s, 1, n)
<1>1. s \in Seq(Alphabet) /\ 1 \in 1 .. Len(s) + 1 /\ m \in 1 - 1 .. Len(s) /\ n \in m .. Len(s)
  BY LenProperties DEF Text
<1>2. QED
  BY <1>1, ConcatAdjacentSubSeq, Zenon

LEMMA Same ==
  ASSUME NEW s \in Text, NEW t \in Text, Begins(s, t), Len(t) <= Len(s)
  PROVE  s = t
<1>1. Len(s) \in Nat /\ Len(t) \in Nat
  BY LenProperties DEF Text
<1>2. Len(s) = Len(t) /\ \A i \in 1 .. Len(s) : s[i] = t[i]
  BY <1>1 DEF Begins
<1>3. QED
  BY <1>2, SeqEqual DEF Text

\* The prefixes of a sequence are the sequences it begins with.
LEMMA PrefixesBegin ==
  ASSUME NEW s \in Text, NEW p
  PROVE  p \in Prefixes(s) <=> p \in Text /\ Begins(p, s)
<1>1. Len(s) \in Nat
  BY LenProperties DEF Text
<1>2. ASSUME p \in Prefixes(s)
      PROVE  p \in Text /\ Begins(p, s)
  <2>1. PICK n \in 0 .. Len(s) : p = SubSeq(s, 1, n)
    BY <1>2 DEF Prefixes
  <2>2. p \in Text /\ Len(p) = n /\ \A i \in 1 .. n : p[i] = s[i]
    BY <2>1, Front
  <2>3. QED
    BY <1>1, <2>2 DEF Begins
<1>3. ASSUME p \in Text, Begins(p, s)
      PROVE  p \in Prefixes(s)
  <2>1. Len(p) \in 0 .. Len(s)
    BY <1>1, <1>3, LenProperties DEF Text, Begins
  <2>2. /\ SubSeq(s, 1, Len(p)) \in Text /\ Len(SubSeq(s, 1, Len(p))) = Len(p)
        /\ \A i \in 1 .. Len(p) : SubSeq(s, 1, Len(p))[i] = s[i]
    BY <2>1, Front
  <2>3. p = SubSeq(s, 1, Len(p))
    <3>1. Begins(p, SubSeq(s, 1, Len(p))) /\ Len(SubSeq(s, 1, Len(p))) <= Len(p)
      BY <1>3, <2>1, <2>2 DEF Begins
    <3>2. QED
      BY <1>3, <2>2, <3>1, Same
  <2>4. QED
    BY <2>1, <2>3 DEF Prefixes
<1>4. QED
  BY <1>2, <1>3

\* Moving the first bytes of what is unread to the end of what was read leaves
\* the two together as they were.
LEMMA Moved ==
  ASSUME NEW s \in Text, NEW t \in Text, NEW k \in 0 .. Len(t)
  PROVE  /\ SubSeq(t, 1, k) \in Text /\ SubSeq(t, k + 1, Len(t)) \in Text
         /\ Len(SubSeq(t, 1, k)) = k /\ Len(SubSeq(t, k + 1, Len(t))) = Len(t) - k
         /\ (s \o SubSeq(t, 1, k)) \o SubSeq(t, k + 1, Len(t)) = s \o t
<1>1. Len(t) \in Nat
  BY LenProperties DEF Text
<1>2. /\ SubSeq(t, 1, k) \in Text /\ SubSeq(t, k + 1, Len(t)) \in Text
      /\ Len(SubSeq(t, 1, k)) = k /\ Len(SubSeq(t, k + 1, Len(t))) = Len(t) - k
  <2>1. SubSeq(t, 1, k) \in Text /\ Len(SubSeq(t, 1, k)) = k
    BY Front
  <2>2. k + 1 \in 1 .. Len(t) + 1 /\ Len(t) \in (k + 1) - 1 .. Len(t) /\ Len(t) - (k + 1) + 1 = Len(t) - k
    BY <1>1
  <2>3. SubSeq(t, k + 1, Len(t)) \in Text /\ Len(SubSeq(t, k + 1, Len(t))) = Len(t) - (k + 1) + 1
    BY <2>2, Slice
  <2>4. QED
    BY <2>1, <2>2, <2>3
<1>3. SubSeq(t, 1, k) \o SubSeq(t, k + 1, Len(t)) = t
  <2>1. Len(t) \in k .. Len(t)
    BY <1>1
  <2>2. SubSeq(t, 1, k) \o SubSeq(t, k + 1, Len(t)) = SubSeq(t, 1, Len(t))
    BY <2>1, Adjacent
  <2>3. QED
    BY <2>2, SubSeqFull DEF Text
<1>4. (s \o SubSeq(t, 1, k)) \o SubSeq(t, k + 1, Len(t))
        = s \o (SubSeq(t, 1, k) \o SubSeq(t, k + 1, Len(t)))
  BY <1>2, Regrouped
<1>5. QED
  BY <1>2, <1>3, <1>4

\* What begins a sequence begins it however it is cut.
LEMMA FirstPart ==
  ASSUME NEW p \in Text, NEW q \in Text, NEW s \in Text, Begins(p \o q, s)
  PROVE  Begins(p, s)
<1>1. Len(p) \in Nat /\ Len(q) \in Nat /\ Len(s) \in Nat
  BY LenProperties DEF Text
<1>2. Len(p \o q) = Len(p) + Len(q) /\ \A i \in 1 .. Len(p) : (p \o q)[i] = p[i]
  BY Joined
<1>3. QED
  BY <1>1, <1>2 DEF Begins

LEMMA FunctionIsText ==
  ASSUME NEW n \in Nat, NEW f \in [1 .. n -> Alphabet]
  PROVE  f \in Text /\ Len(f) = n
<1>1. f \in Seq(Alphabet)
  BY SeqDef
<1>2. 1 .. n = 1 .. Len(f) /\ Len(f) \in Nat
  BY <1>1, LenProperties
<1>3. ~ (n > Len(f))
  <2>1. n > Len(f) => n \in 1 .. n /\ n \notin 1 .. Len(f)
    BY <1>2
  <2>2. QED
    BY <1>2, <2>1
<1>4. ~ (Len(f) > n)
  <2>1. Len(f) > n => Len(f) \notin 1 .. n /\ Len(f) \in 1 .. Len(f)
    BY <1>2
  <2>2. QED
    BY <1>2, <2>1
<1>5. QED
  BY <1>1, <1>2, <1>3, <1>4 DEF Text

LEMMA ResponseTypes ==
  ASSUME NEW r \in Response
  PROVE  /\ r.status \in {"200", "404"} /\ r.interim \in BOOLEAN
         /\ r.body \in Text /\ r.fields \in Text /\ Len(r.fields) \in Nat /\ Len(r.body) \in Nat
         /\ \A i \in 1 .. Len(r.fields) : r.fields[i] # "CRLF" /\ r.fields[i] \in Alphabet
<1>1. r.fields \in Seq(Fields) /\ r.body \in Seq(Tokens)
  BY DEF Response
<1>2. Fields \subseteq Alphabet /\ Tokens \subseteq Alphabet /\ "CRLF" \notin Fields
  BY DEF Fields, Tokens, Statuses, Alphabet
<1>3. r.fields \in Seq(Alphabet) /\ r.body \in Seq(Alphabet)
  BY <1>1, <1>2, SeqMonotonic
<1>4. \A i \in 1 .. Len(r.fields) : r.fields[i] \in Fields
  BY <1>1, ElementOfSeq
<1>5. QED
  BY <1>2, <1>3, <1>4, LenProperties DEF Response, Text

-----------------------------------------------------------------------------
(* The response on the wire.                                               *)

LEMMA LinesShape ==
  ASSUME NEW r \in Response
  PROVE  /\ Lines(r) \in Text /\ Len(Lines(r)) = 2 * Len(r.fields)
         /\ \A j \in 1 .. Len(r.fields) : Lines(r)[2 * j - 1] # "CRLF" /\ Lines(r)[2 * j] = "CRLF"
<1> DEFINE n == Len(r.fields)
<1>1. n \in Nat /\ \A i \in 1 .. n : r.fields[i] # "CRLF" /\ r.fields[i] \in Alphabet
  BY ResponseTypes
<1>2. ASSUME NEW i \in 1 .. 2 * n, i % 2 = 1
      PROVE  (i + 1) \div 2 \in 1 .. n
  BY <1>1, <1>2
<1>3. Lines(r) \in [1 .. 2 * n -> Alphabet]
  <2>1. "CRLF" \in Alphabet
    BY DEF Alphabet, Tokens
  <2>2. QED
    BY <1>1, <1>2, <2>1 DEF Lines
<1>4. ASSUME NEW j \in 1 .. n
      PROVE  Lines(r)[2 * j - 1] # "CRLF" /\ Lines(r)[2 * j] = "CRLF"
  <2>1. /\ 2 * j - 1 \in 1 .. 2 * n /\ (2 * j - 1) % 2 = 1 /\ (2 * j - 1 + 1) \div 2 = j
        /\ 2 * j \in 1 .. 2 * n /\ (2 * j) % 2 # 1
    BY <1>1
  <2>2. Lines(r)[2 * j - 1] = r.fields[j] /\ Lines(r)[2 * j] = "CRLF"
    BY <1>1, <2>1 DEF Lines
  <2>3. QED
    BY <1>1, <2>2
<1>5. Lines(r) \in Text /\ Len(Lines(r)) = 2 * n
  <2>1. 2 * n \in Nat
    BY <1>1
  <2>2. QED
    BY <1>3, <2>1, FunctionIsText
<1>6. QED
  BY <1>4, <1>5

\* Where the headers end.
End(r) == 2 * Len(r.fields) + 3

\* Everything in front of the body, when no 1xx comes first.
Top(r) == <<"HTTP", r.status, "CRLF">> \o Lines(r) \o <<"CRLF">>

LEMMA TopShape ==
  ASSUME NEW r \in Response
  PROVE  /\ Top(r) \in Text /\ End(r) \in Nat /\ Len(Top(r)) = End(r) + 1
         /\ Top(r)[1] = "HTTP" /\ Top(r)[2] = r.status
         /\ \A i \in 1 .. End(r) - 1 : Top(r)[i] # "CRLF" \/ Top(r)[i + 1] # "CRLF"
         /\ Top(r)[End(r)] = "CRLF" /\ Top(r)[End(r) + 1] = "CRLF"
<1> DEFINE n == Len(r.fields)
           a == <<"HTTP", r.status, "CRLF">>
           b == a \o Lines(r)
           c == b \o <<"CRLF">>
<1>1. n \in Nat /\ r.status \in {"200", "404"} /\ End(r) = 2 * n + 3
  BY ResponseTypes DEF End
<1>2. /\ Lines(r) \in Text /\ Len(Lines(r)) = 2 * n
      /\ \A j \in 1 .. n : Lines(r)[2 * j - 1] # "CRLF" /\ Lines(r)[2 * j] = "CRLF"
  BY LinesShape
<1>3. /\ a \in Text /\ Len(a) = 3 /\ a[1] = "HTTP" /\ a[2] = r.status /\ a[3] = "CRLF"
      /\ <<"CRLF">> \in Text /\ Len(<<"CRLF">>) = 1 /\ <<"CRLF">>[1] = "CRLF"
  BY <1>1 DEF Text, Alphabet, Tokens, Statuses
<1>4. /\ b \in Text /\ Len(b) = 3 + 2 * n
      /\ \A i \in 1 .. 3 : b[i] = a[i]
      /\ \A i \in 1 .. 2 * n : b[3 + i] = Lines(r)[i]
  <2> HIDE DEF a
  <2>1. /\ b \in Text /\ Len(b) = Len(a) + Len(Lines(r))
        /\ \A i \in 1 .. Len(a) : b[i] = a[i]
        /\ \A i \in 1 .. Len(Lines(r)) : b[Len(a) + i] = Lines(r)[i]
    BY <1>2, <1>3, Joined
  <2>2. QED
    BY <1>1, <1>2, <1>3, <2>1
<1>5. /\ c \in Text /\ Len(c) = 4 + 2 * n
      /\ \A i \in 1 .. 3 + 2 * n : c[i] = b[i]
      /\ c[3 + 2 * n + 1] = "CRLF"
  <2> HIDE DEF b
  <2>1. /\ c \in Text /\ Len(c) = Len(b) + 1
        /\ \A i \in 1 .. Len(b) : c[i] = b[i]
        /\ \A i \in 1 .. 1 : c[Len(b) + i] = <<"CRLF">>[i]
    BY <1>3, <1>4, Joined
  <2>2. QED
    BY <1>1, <1>3, <1>4, <2>1
<1>c. c = Top(r)
  BY DEF Top
<1> HIDE DEF c, b, a
<1>6. c[1] = "HTTP" /\ c[2] = r.status /\ c[3] = "CRLF"
  BY <1>1, <1>3, <1>4, <1>5
<1>7. \A j \in 1 .. n : c[2 * j + 2] # "CRLF" /\ c[2 * j + 3] = "CRLF"
  <2>1. TAKE j \in 1 .. n
  <2>2. /\ 2 * j - 1 \in 1 .. 2 * n /\ 2 * j \in 1 .. 2 * n
        /\ 3 + (2 * j - 1) = 2 * j + 2 /\ 3 + 2 * j = 2 * j + 3
        /\ 2 * j + 2 \in 1 .. 3 + 2 * n /\ 2 * j + 3 \in 1 .. 3 + 2 * n
    BY <1>1
  <2>3. b[3 + (2 * j - 1)] # "CRLF" /\ b[3 + 2 * j] = "CRLF"
    BY <1>2, <1>4, <2>2
  <2>4. QED
    BY <1>5, <2>2, <2>3
<1>8. c[2 * n + 3] = "CRLF" /\ c[2 * n + 4] = "CRLF"
  <2>1. CASE n = 0
    BY <1>5, <1>6, <2>1
  <2>2. CASE n # 0
    <3>1. n \in 1 .. n /\ 3 + 2 * n + 1 = 2 * n + 4
      BY <1>1, <2>2
    <3>2. QED
      BY <1>5, <1>7, <3>1
  <2>3. QED
    BY <2>1, <2>2
<1>9. ASSUME NEW i \in 1 .. 2 * n + 2
      PROVE  c[i] # "CRLF" \/ c[i + 1] # "CRLF"
  <2>1. CASE i <= 2
    BY <1>1, <1>6, <2>1
  <2>2. CASE i > 2
    <3>1. PICK j \in 1 .. n : i = 2 * j + 2 \/ i = 2 * j + 1
      <4>1. /\ (i - 1) \div 2 \in 1 .. n
            /\ i = 2 * ((i - 1) \div 2) + 2 \/ i = 2 * ((i - 1) \div 2) + 1
        BY <1>1, <2>2
      <4>2. QED
        BY <4>1
    <3>2. c[2 * j + 2] # "CRLF" /\ (i = 2 * j + 1 => i + 1 = 2 * j + 2)
      BY <1>7
    <3>3. QED
      BY <3>1, <3>2
  <2>3. QED
    BY <1>1, <2>1, <2>2
<1>10. QED
  BY <1>c, <1>1, <1>5, <1>6, <1>8, <1>9

LEMMA RawShape ==
  ASSUME NEW r \in Response, ~ r.interim
  PROVE  Raw(r) = Top(r) \o r.body
<1> DEFINE a == <<"HTTP", r.status, "CRLF">>
<1>1. a \in Text
  BY ResponseTypes DEF Text, Alphabet, Tokens, Statuses
<1>2. <<>> \o a = a
  BY <1>1, ConcatEmptySeq DEF Text
<1>3. Raw(r) = (<<>> \o a) \o Lines(r) \o <<"CRLF">> \o r.body
  BY DEF Raw
<1>4. QED
  BY <1>2, <1>3 DEF Top

LEMMA InterimShape ==
  ASSUME NEW r \in Response, r.interim
  PROVE  /\ Raw(r) \in Text /\ Len(Raw(r)) >= 4
         /\ Raw(r)[1] = "HTTP" /\ Raw(r)[2] = "100" /\ Raw(r)[3] = "CRLF" /\ Raw(r)[4] = "CRLF"
<1> DEFINE i == <<"HTTP", "100", "CRLF", "CRLF">>
           a == <<"HTTP", r.status, "CRLF">>
           b == i \o a
           c == b \o Lines(r)
           d == c \o <<"CRLF">>
           e == d \o r.body
<1>1. /\ a \in Text /\ <<"CRLF">> \in Text /\ i \in Text /\ Len(i) = 4
      /\ i[1] = "HTTP" /\ i[2] = "100" /\ i[3] = "CRLF" /\ i[4] = "CRLF"
      /\ Lines(r) \in Text /\ r.body \in Text
  BY ResponseTypes, LinesShape DEF Text, Alphabet, Tokens, Statuses
<1>2. e = Raw(r)
  BY DEF Raw
<1> HIDE DEF i, a
<1>3. b \in Text /\ 4 <= Len(b) /\ \A j \in 1 .. 4 : b[j] = i[j]
  <2>1. 4 \in Nat /\ 4 <= Len(i)
    BY <1>1
  <2>2. QED
    BY <1>1, <2>1, StillBegins
<1> HIDE DEF b
<1>4. c \in Text /\ 4 <= Len(c) /\ \A j \in 1 .. 4 : c[j] = i[j]
  <2>1. 4 \in Nat /\ c \in Text /\ 4 <= Len(c) /\ \A j \in 1 .. 4 : c[j] = b[j]
    BY <1>1, <1>3, StillBegins
  <2>2. QED
    BY <1>1, <1>3, <2>1
<1> HIDE DEF c
<1>5. d \in Text /\ 4 <= Len(d) /\ \A j \in 1 .. 4 : d[j] = i[j]
  <2>1. 4 \in Nat /\ d \in Text /\ 4 <= Len(d) /\ \A j \in 1 .. 4 : d[j] = c[j]
    BY <1>1, <1>4, StillBegins
  <2>2. QED
    BY <1>1, <1>4, <2>1
<1> HIDE DEF d
<1>6. e \in Text /\ 4 <= Len(e) /\ \A j \in 1 .. 4 : e[j] = i[j]
  <2>1. 4 \in Nat /\ e \in Text /\ 4 <= Len(e) /\ \A j \in 1 .. 4 : e[j] = d[j]
    BY <1>1, <1>5, StillBegins
  <2>2. QED
    BY <1>1, <1>5, <2>1
<1> HIDE DEF e
<1>7. QED
  BY <1>1, <1>2, <1>6

LEMMA RawIsText ==
  ASSUME NEW r \in Response
  PROVE  Raw(r) \in Text
<1>1. CASE r.interim
  BY <1>1, InterimShape
<1>2. CASE ~ r.interim
  <2>1. Raw(r) = Top(r) \o r.body /\ Top(r) \in Text /\ r.body \in Text
    BY <1>2, RawShape, TopShape, ResponseTypes
  <2>2. QED
    BY <2>1, Joined
<1>3. QED
  BY <1>1, <1>2

\* The first separator of the final response is the one that ends its headers,
\* however much of the body is behind it and whatever that holds.
LEMMA FirstSeparator ==
  ASSUME NEW r \in Response, ~ r.interim,
         NEW buf \in Text, Begins(buf, Raw(r)), Separators(buf) # {}
  PROVE  Separator(buf) = End(r) /\ End(r) + 1 <= Len(buf)
<1> DEFINE e == End(r)
<1>1. /\ e \in Nat /\ Top(r) \in Text /\ Len(Top(r)) = e + 1 /\ r.body \in Text
      /\ \A i \in 1 .. e - 1 : Top(r)[i] # "CRLF" \/ Top(r)[i + 1] # "CRLF"
      /\ Top(r)[e] = "CRLF" /\ Top(r)[e + 1] = "CRLF"
  BY TopShape, ResponseTypes
<1>2. Len(buf) \in Nat /\ e >= 3
  BY LenProperties, ResponseTypes DEF Text, End
<1>3. \A i \in 1 .. e + 1 : Raw(r)[i] = Top(r)[i]
  <2>1. e + 1 \in Nat /\ e + 1 <= Len(Top(r)) /\ Raw(r) = Top(r) \o r.body
    BY <1>1, RawShape
  <2>2. QED
    BY <1>1, <2>1, StillBegins
<1> HIDE DEF e
<1>4. \A i \in 1 .. Len(buf) : buf[i] = Raw(r)[i]
  BY DEF Begins
<1>5. ASSUME NEW i \in Separators(buf)
      PROVE  e <= i
  <2>1. i \in 1 .. Len(buf) - 1 /\ buf[i] = "CRLF" /\ buf[i + 1] = "CRLF"
    BY DEF Separators
  <2>2. SUFFICES ASSUME i < e
                 PROVE  FALSE
    BY <1>1, <2>1
  <2>3. i \in 1 .. e - 1 /\ i \in 1 .. e + 1 /\ i + 1 \in 1 .. e + 1 /\ i + 1 \in 1 .. Len(buf) /\ i \in 1 .. Len(buf)
    BY <1>1, <1>2, <2>1, <2>2
  <2>4. QED
    BY <1>1, <1>3, <1>4, <2>1, <2>3
<1>6. e + 1 <= Len(buf)
  <2>1. PICK i \in Separators(buf) : TRUE
    OBVIOUS
  <2>2. e <= i /\ i \in 1 .. Len(buf) - 1
    BY <1>5 DEF Separators
  <2>3. QED
    BY <1>1, <1>2, <2>2
<1>7. e \in Separators(buf)
  <2>1. e \in 1 .. Len(buf) - 1 /\ e \in 1 .. e + 1 /\ e + 1 \in 1 .. e + 1 /\ e + 1 \in 1 .. Len(buf) /\ e \in 1 .. Len(buf)
    BY <1>1, <1>2, <1>6
  <2>2. QED
    BY <1>1, <1>3, <1>4, <2>1 DEF Separators
<1>8. \A i \in Separators(buf) : i \in Int
  BY DEF Separators
<1>9. Separator(buf) = e
  BY <1>1, <1>5, <1>7, <1>8 DEF Separator
<1>10. QED
  BY <1>6, <1>9 DEF e

\* An interim response is cut behind its own first line.
LEMMA InterimSeparator ==
  ASSUME NEW r \in Response, r.interim,
         NEW buf \in Text, Begins(buf, Raw(r)), Separators(buf) # {}
  PROVE  Separator(buf) = 3 /\ 4 <= Len(buf)
<1>1. Len(buf) \in Nat
  BY LenProperties DEF Text
<1>2. \A i \in 1 .. Len(buf) : buf[i] = Raw(r)[i]
  BY DEF Begins
<1>3. ASSUME NEW i \in Separators(buf)
      PROVE  3 <= i
  <2>1. i \in 1 .. Len(buf) - 1 /\ buf[i] = "CRLF"
    BY DEF Separators
  <2>2. i # 1 /\ i # 2
    BY <1>1, <1>2, <2>1, InterimShape
  <2>3. QED
    BY <2>1, <2>2
<1>4. 4 <= Len(buf)
  <2>1. PICK i \in Separators(buf) : TRUE
    OBVIOUS
  <2>2. 3 <= i /\ i \in 1 .. Len(buf) - 1
    BY <1>3 DEF Separators
  <2>3. QED
    BY <1>1, <2>2
<1>5. 3 \in Separators(buf)
  BY <1>1, <1>2, <1>4, InterimShape DEF Separators
<1>6. \A i \in Separators(buf) : i \in Int
  BY DEF Separators
<1>7. QED
  BY <1>3, <1>4, <1>5, <1>6 DEF Separator

LEMMA SecondWord ==
  ASSUME NEW h \in Text, 2 <= Len(h), h[1] = "HTTP", h[2] \in Statuses
  PROVE  StatusOf(h) = h[2]
<1>1. Len(h) \in Nat
  BY LenProperties DEF Text
<1>2. 2 \in StatusAt(h)
  BY <1>1 DEF StatusAt
<1>3. ASSUME NEW i \in StatusAt(h)
      PROVE  i = 2
  <2>1. i \in 2 .. Len(h) /\ \A j \in 1 .. i - 2 : h[j] = "bnd"
    BY DEF StatusAt
  <2>2. i > 2 => 1 \in 1 .. i - 2
    BY <2>1
  <2>3. QED
    BY <2>1, <2>2
<1>4. QED
  BY <1>2, <1>3 DEF StatusOf

LEMMA FinalStatus ==
  ASSUME NEW r \in Response, ~ r.interim, NEW buf \in Text, Begins(buf, Raw(r)),
         End(r) + 1 <= Len(buf)
  PROVE  StatusOf(SubSeq(buf, 1, End(r) - 1)) = r.status
<1> DEFINE h == SubSeq(buf, 1, End(r) - 1)
<1>1. End(r) \in Nat /\ End(r) >= 3 /\ Len(buf) \in Nat /\ r.status \in Statuses
  BY ResponseTypes, LenProperties DEF End, Text, Statuses
<1>2. /\ Top(r) \in Text /\ Len(Top(r)) = End(r) + 1 /\ Top(r)[1] = "HTTP" /\ Top(r)[2] = r.status
      /\ r.body \in Text /\ Raw(r) = Top(r) \o r.body
  BY TopShape, ResponseTypes, RawShape
<1>3. Raw(r)[1] = "HTTP" /\ Raw(r)[2] = r.status
  <2>1. 2 \in Nat /\ 2 <= Len(Top(r))
    BY <1>1, <1>2
  <2>2. \A j \in 1 .. 2 : Raw(r)[j] = Top(r)[j]
    BY <1>2, <2>1, StillBegins
  <2>3. Raw(r)[1] = Top(r)[1] /\ Raw(r)[2] = Top(r)[2]
    BY <2>2
  <2>4. Top(r)[1] = "HTTP" /\ Top(r)[2] = r.status
    BY <1>2
  <2>5. QED
    BY <2>3, <2>4
<1> HIDE DEF h
<1>4. buf[1] = "HTTP" /\ buf[2] = r.status
  <2>1. 1 \in 1 .. Len(buf) /\ 2 \in 1 .. Len(buf)
    BY <1>1
  <2>2. QED
    BY <1>3, <2>1 DEF Begins
<1>5. h \in Text /\ 2 <= Len(h) /\ h[1] = buf[1] /\ h[2] = buf[2]
  <2>1. End(r) - 1 \in 0 .. Len(buf)
    BY <1>1
  <2>2. h \in Text /\ Len(h) = End(r) - 1 /\ \A j \in 1 .. End(r) - 1 : h[j] = buf[j]
    BY <2>1, Front DEF h
  <2>3. 1 \in 1 .. End(r) - 1 /\ 2 \in 1 .. End(r) - 1 /\ 2 <= End(r) - 1
    BY <1>1
  <2>4. QED
    BY <2>2, <2>3
<1>6. QED
  BY <1>1, <1>4, <1>5, SecondWord DEF h

LEMMA InterimStatus ==
  ASSUME NEW r \in Response, r.interim, NEW buf \in Text, Begins(buf, Raw(r)), 4 <= Len(buf)
  PROVE  StatusOf(SubSeq(buf, 1, 2)) = "100"
<1> DEFINE h == SubSeq(buf, 1, 2)
<1>1. Len(buf) \in Nat
  BY LenProperties DEF Text
<1>2. buf[1] = "HTTP" /\ buf[2] = "100"
  BY <1>1, InterimShape DEF Begins
<1>3. h \in Text /\ 2 <= Len(h) /\ h[1] = "HTTP" /\ h[2] = "100"
  BY <1>1, <1>2, Front
<1>4. QED
  BY <1>3, SecondWord DEF Statuses

\* The arithmetic of it: b bytes were read, w are unread, the headers take
\* e + 1 of them and the body has n.
LEMMA Remaining ==
  ASSUME NEW b \in Nat, NEW w \in Nat, NEW n \in Nat, NEW e \in Nat, NEW p,
         p = b - e - 1, b + w <= e + 1 + n, e + 1 <= b
  PROVE  /\ p \in Nat /\ p + w <= n
         /\ \A i \in 1 .. p + w : e + 1 + i \in 1 .. b + w /\ i \in 1 .. n
OBVIOUS

\* What is behind the headers, read with them or not, begins the body.
LEMMA BehindHeaders ==
  ASSUME NEW r \in Response, ~ r.interim, NEW buf \in Text, NEW w \in Text,
         Begins(buf \o w, Raw(r)), End(r) + 1 <= Len(buf)
  PROVE  /\ SubSeq(buf, End(r) + 2, Len(buf)) \in Text
         /\ Begins(SubSeq(buf, End(r) + 2, Len(buf)) \o w, r.body)
<1> DEFINE e == End(r)
           p == SubSeq(buf, e + 2, Len(buf))
<1>1. /\ e \in Nat /\ Len(buf) \in Nat /\ Len(w) \in Nat /\ Len(r.body) \in Nat
      /\ e + 1 <= Len(buf)
  BY ResponseTypes, LenProperties DEF End, Text
<1>2. /\ Len(Raw(r)) = e + 1 + Len(r.body)
      /\ \A i \in 1 .. Len(r.body) : Raw(r)[e + 1 + i] = r.body[i]
  <2>1. Top(r) \in Text /\ Len(Top(r)) = e + 1 /\ r.body \in Text /\ Raw(r) = Top(r) \o r.body
    BY TopShape, ResponseTypes, RawShape
  <2>2. /\ Len(Top(r) \o r.body) = Len(Top(r)) + Len(r.body)
        /\ \A i \in 1 .. Len(r.body) : (Top(r) \o r.body)[Len(Top(r)) + i] = r.body[i]
    BY <2>1, Joined
  <2>3. QED
    BY <2>1, <2>2
<1> HIDE DEF e
<1>3. /\ Len(buf \o w) = Len(buf) + Len(w)
      /\ \A i \in 1 .. Len(buf) : (buf \o w)[i] = buf[i]
      /\ \A i \in 1 .. Len(w) : (buf \o w)[Len(buf) + i] = w[i]
  BY Joined
<1>4. /\ Len(buf) + Len(w) <= e + 1 + Len(r.body)
      /\ \A i \in 1 .. Len(buf) + Len(w) : (buf \o w)[i] = Raw(r)[i]
  BY <1>2, <1>3 DEF Begins
<1>5. /\ p \in Text /\ Len(p) = Len(buf) - e - 1
      /\ \A i \in 1 .. Len(buf) - e - 1 : p[i] = buf[e + 1 + i]
  <2>1. e + 2 \in 1 .. Len(buf) + 1 /\ Len(buf) \in (e + 2) - 1 .. Len(buf)
    BY <1>1
  <2>2. /\ p \in Text /\ Len(p) = Len(buf) - (e + 2) + 1
        /\ \A i \in 1 .. Len(buf) - (e + 2) + 1 : p[i] = buf[e + 2 + i - 1]
    BY <2>1, Slice
  <2>3. \A i \in 1 .. Len(buf) - e - 1 : e + 2 + i - 1 = e + 1 + i
    BY <1>1
  <2>4. Len(buf) - (e + 2) + 1 = Len(buf) - e - 1
    BY <1>1
  <2>5. QED
    BY <2>2, <2>3, <2>4
<1> HIDE DEF p
<1>6. /\ Len(p \o w) = Len(p) + Len(w)
      /\ \A i \in 1 .. Len(p) : (p \o w)[i] = p[i]
      /\ \A i \in 1 .. Len(w) : (p \o w)[Len(p) + i] = w[i]
  BY <1>5, Joined
<1>7. ASSUME NEW i \in 1 .. Len(p) + Len(w)
      PROVE  (p \o w)[i] = r.body[i]
  <2>1. /\ e + 1 + i \in 1 .. Len(buf) + Len(w) /\ i \in 1 .. Len(r.body)
    <3>1. Len(buf) + Len(w) <= e + 1 + Len(r.body) /\ Len(p) = Len(buf) - e - 1
      BY <1>4, <1>5
    <3>2. QED
      BY <1>1, <3>1, Remaining
  <2>2. (buf \o w)[e + 1 + i] = r.body[i]
    BY <1>2, <1>4, <2>1
  <2>3. CASE i <= Len(p)
    <3>1. i \in 1 .. Len(p) /\ i \in 1 .. Len(buf) - e - 1 /\ e + 1 + i \in 1 .. Len(buf)
      BY <1>1, <1>5, <2>3
    <3>2. QED
      BY <1>3, <1>5, <1>6, <2>2, <3>1
  <2>4. CASE i > Len(p)
    <3>1. i - Len(p) \in 1 .. Len(w) /\ Len(p) + (i - Len(p)) = i
          /\ Len(buf) + (i - Len(p)) = e + 1 + i
      BY <1>1, <1>5, <2>4
    <3>2. (p \o w)[Len(p) + (i - Len(p))] = w[i - Len(p)]
          /\ (buf \o w)[Len(buf) + (i - Len(p))] = w[i - Len(p)]
      BY <1>3, <1>6, <3>1
    <3>3. QED
      BY <2>2, <3>1, <3>2
  <2>5. QED
    BY <1>1, <1>5, <2>3, <2>4
<1>8. Begins(p \o w, r.body)
  <2>1. Len(p \o w) <= Len(r.body) /\ Len(p \o w) = Len(p) + Len(w)
    <3>1. Len(buf) + Len(w) <= e + 1 + Len(r.body) /\ Len(p) = Len(buf) - e - 1
      BY <1>4, <1>5
    <3>2. Len(p \o w) = Len(p) + Len(w)
      BY <1>6
    <3>3. Len(p) + Len(w) <= Len(r.body)
      BY <1>1, <3>1, Remaining
    <3>4. QED
      BY <3>2, <3>3
  <2>2. \A i \in 1 .. Len(p \o w) : (p \o w)[i] = r.body[i]
    BY <1>7, <2>1
  <2>3. QED
    BY <2>1, <2>2 DEF Begins
<1>9. QED
  BY <1>5, <1>8 DEF p, e

\* What a peer that answers leaves on the wire.
LEMMA SendsShape ==
  ASSUME NEW rest \in Text, NEW answer \in Text, NEW data \in Text, payload \in Text,
         ending \in Endings \cup {"open"}, Sends(rest, answer, data)
  PROVE  /\ wire' \in Text /\ payload' \in Text /\ ending' \in Endings \cup {"open"}
         /\ rest = <<>> /\ payload = <<>> =>
              \/ payload' = <<>> /\ Len(wire') <= Len(answer)
              \/ wire' = answer \o payload'
         /\ data = <<>> => payload' = payload
         /\ rest = <<>> /\ answer = <<>> => Begins(wire', data)
<1>0. Len(answer) \in Nat /\ Len(data) \in Nat /\ Len(<<>>) = 0
  BY LenProperties DEF Text
<1>1. CASE ending # "open"
  <2>1. wire' = rest /\ payload' = payload /\ ending' = ending
    BY <1>1 DEF Sends
  <2>2. rest = <<>> => Len(wire') <= Len(answer) /\ Begins(wire', data)
    BY <1>0, <2>1 DEF Begins
  <2>3. QED
    BY <2>1, <2>2
<1>2. CASE ending = "open"
  <2> DEFINE all == answer \o data
             n == Len(answer)
  <2>1. /\ all \in Text /\ Len(all) \in Nat /\ Len(all) = n + Len(data) /\ n \in Nat
        /\ \A i \in 1 .. n : all[i] = answer[i]
        /\ \A i \in 1 .. Len(data) : all[n + i] = data[i]
    BY <1>0, Joined
  <2>2. PICK k \in 0 .. Len(all) :
          /\ wire' = rest \o SubSeq(all, 1, k)
          /\ payload' = payload \o SubSeq(all, n + 1, k)
          /\ ending' \in IF k = Len(all) THEN {"open"} ELSE Endings
    BY <1>2 DEF Sends
  <2>3. answer = <<>> => all = data
    BY ConcatEmptySeq DEF Text
  <2>4. data = <<>> => all = answer
    BY ConcatEmptySeq DEF Text
  <2> HIDE DEF all
  <2>5. /\ SubSeq(all, 1, k) \in Text /\ Len(SubSeq(all, 1, k)) = k
        /\ \A i \in 1 .. k : SubSeq(all, 1, k)[i] = all[i]
    BY <2>1, Front
  <2>6. k <= n => SubSeq(all, n + 1, k) = <<>>
    BY <2>1, SubSeqEmpty
  <2>7. k > n => /\ SubSeq(all, n + 1, k) \in Text
                 /\ SubSeq(all, 1, k) = answer \o SubSeq(all, n + 1, k)
    <3>1. HAVE k > n
    <3>2. /\ n + 1 \in 1 .. Len(all) + 1 /\ k \in (n + 1) - 1 .. Len(all) /\ n \in 0 .. Len(all)
          /\ 1 \in 1 .. Len(all) + 1 /\ n \in 1 - 1 .. Len(all) /\ k \in n .. Len(all)
      BY <2>1, <3>1
    <3>3. SubSeq(all, n + 1, k) \in Text
      BY <2>1, <3>2, Slice
    <3>4. SubSeq(all, 1, n) = answer
      <4>1. /\ SubSeq(all, 1, n) \in Text /\ Len(SubSeq(all, 1, n)) = n
            /\ \A i \in 1 .. n : SubSeq(all, 1, n)[i] = all[i]
        BY <2>1, <3>2, Front
      <4>2. Begins(SubSeq(all, 1, n), answer) /\ Len(answer) <= Len(SubSeq(all, 1, n))
        BY <2>1, <4>1 DEF Begins
      <4>3. QED
        BY <4>1, <4>2, Same
    <3>5. SubSeq(all, 1, n) \o SubSeq(all, n + 1, k) = SubSeq(all, 1, k)
      BY <2>1, <3>2, Adjacent
    <3>6. QED
      BY <3>3, <3>4, <3>5
  <2>8. wire' \in Text /\ (rest = <<>> => wire' = SubSeq(all, 1, k))
    BY <2>2, <2>5, Joined, ConcatEmptySeq DEF Text
  <2>9. k <= n => payload' = payload
    <3>1. payload \o <<>> = payload
      BY ConcatEmptySeq DEF Text
    <3>2. QED
      BY <2>2, <2>6, <3>1
  <2>10. k > n => payload' \in Text /\ (payload = <<>> => payload' = SubSeq(all, n + 1, k))
    <3>1. HAVE k > n
    <3>2. SubSeq(all, n + 1, k) \in Text /\ payload' = payload \o SubSeq(all, n + 1, k)
      BY <2>2, <2>7, <3>1
    <3>3. <<>> \o SubSeq(all, n + 1, k) = SubSeq(all, n + 1, k)
      BY <3>2, ConcatEmptySeq DEF Text
    <3>4. payload' \in Text
      BY <3>2, Joined
    <3>5. QED
      BY <3>2, <3>3, <3>4
  <2>11. k <= n \/ k > n
    BY <2>1
  <2>c. ASSUME rest = <<>>, payload = <<>>
        PROVE  \/ payload' = <<>> /\ Len(wire') <= Len(answer)
               \/ wire' = answer \o payload'
    <3>1. CASE k <= n
      <4>1. payload' = <<>> /\ Len(wire') = k
        BY <2>5, <2>8, <2>9, <2>c, <3>1
      <4>2. QED
        BY <4>1, <3>1
    <3>2. CASE k > n
      BY <2>7, <2>8, <2>10, <2>c, <3>2
    <3>3. QED
      BY <3>1, <3>2, <2>11
  <2>t. payload' \in Text
    BY <2>9, <2>10, <2>11
  <2>e. ending' \in Endings \cup {"open"}
    BY <2>2
  <2>12. data = <<>> => payload' = payload
    BY <1>0, <2>1, <2>9
  <2>13. rest = <<>> /\ answer = <<>> => Begins(wire', data)
    BY <1>0, <2>1, <2>3, <2>5, <2>8 DEF Begins
  <2>14. QED
    BY <2>8, <2>c, <2>t, <2>e, <2>12, <2>13
<1>3. QED
  BY <1>1, <1>2

-----------------------------------------------------------------------------
(* The inductive invariant.                                                *)

RelayTypes ==
  /\ dsn \in Upstream /\ use \in {"connect", "http", "https"} /\ origin \in Response
  /\ wire \in Text /\ line \in Text /\ reply \in Text /\ payload \in Text
  /\ head \in Text /\ leading \in Text /\ client \in Text

\* The peer has stopped inside its answer, or what was read of it and what is
\* unread are the answer and what the target said behind it.
Answered(read) ==
  \/ payload = <<>> /\ Len(read) + Len(wire) <= Len(reply)
  \/ read \o wire = reply \o payload

Early == {"connect", "status", "method", "auth", "reply", "tunnel", "request"}

\* While the tunnel is set up.
SetUp ==
  /\ pc = "connect" => ending = "open" /\ wire = <<>> /\ line = <<>> /\ reply = <<>> /\ payload = <<>>
  /\ pc \in {"method", "auth"} => Len(wire) <= 2 /\ payload = <<>>
  /\ pc \in {"method", "auth", "reply"} => dsn.proto = "socks5"
  /\ pc = "reply"  => Answered(<<>>)
  /\ pc = "status" => dsn.proto = "http" /\ Answered(line) /\ Len(line) <= LineMax
  /\ pc \in Early => head = <<>> /\ leading = <<>> /\ status = "none" /\ framing = "none"
  /\ pc \in Early /\ pc # "tunnel" => client = <<>>
  /\ pc \in Early /\ use # "connect" => payload = <<>> /\ client = <<>>

\* Once it is open.
Open ==
  /\ pc \in {"tunnel", "done"} /\ (pc = "tunnel" \/ use = "connect") /\ Aligned => client \o wire = payload
  /\ pc = "request" => use = "https" /\ wire = <<>>
  /\ pc = "done" /\ use = "connect" => framing = "none"

Clear == Aligned \/ use = "https"

\* While the headers are read they have no end yet, and over a clear tunnel
\* they are the response's own.
InHeaders ==
  pc = "headers" =>
    /\ use # "connect" /\ leading = <<>> /\ client = <<>> /\ framing = "none"
    /\ Separators(head) = {} /\ Len(head) <= HeadMax
    /\ Clear => Begins(head \o wire, Raw(origin))

\* Behind them.
InBody ==
  /\ pc \in {"body", "aborted"} => use # "connect" /\ framing # "none"
  /\ pc \in {"body", "aborted", "done"} /\ use # "connect" /\ Clear =>
       /\ framing # "none" => ~ origin.interim
       /\ ~ origin.interim => status = origin.status /\ Begins(client \o leading \o wire, origin.body)
       /\ pc = "done" /\ framing = "len" => client = origin.body

RelayInv == RelayTypeOK /\ RelayTypes /\ SetUp /\ Open /\ InHeaders /\ InBody

-----------------------------------------------------------------------------
(* Initially.                                                              *)

LEMMA Constants ==
  /\ ReadMax \in Nat \ {0} /\ LineMax \in Nat /\ HeadRead \in Nat \ {0} /\ HeadMax \in Nat
  /\ <<>> \in Text /\ Len(<<>>) = 0
  /\ \A a \in HttpReplies \cup Banners : a \in Text
  /\ Responses \subseteq Response /\ NoResponse \in Response
<1>1. \A a \in HttpReplies \cup Banners : a \in Text
  <2>1. Words \subseteq Alphabet
    BY DEF Alphabet
  <2>2. TAKE a \in HttpReplies \cup Banners
  <2>3. a \in Seq(Words)
    BY TunnelAssumption
  <2>4. QED
    BY <2>1, <2>3, SeqMonotonic DEF Text
<1>2. NoResponse \in Response
  BY DEF NoResponse, Response
<1>3. <<>> \in Text /\ Len(<<>>) = 0
  BY EmptySeq DEF Text
<1>4. QED
  BY <1>1, <1>2, <1>3, TunnelAssumption, RelayAssumption

LEMMA InitRelayInv == Init => RelayInv
<1> SUFFICES ASSUME Init
             PROVE  RelayInv
  OBVIOUS
<1>1. RelayTypeOK
  BY Constants DEF Init, TunnelInit, RelayTypeOK
<1>2. RelayTypes
  BY Constants, TunnelAssumption DEF Init, TunnelInit, RelayTypes
<1>3. SetUp /\ Open /\ InHeaders /\ InBody
  BY DEF Init, TunnelInit, SetUp, Open, InHeaders, InBody, Early
<1>4. QED
  BY <1>1, <1>2, <1>3 DEF RelayInv

-----------------------------------------------------------------------------
(* Reading.                                                                *)

LEMMA ReadShape ==
  ASSUME wire \in Text, NEW x \in Text, NEW k \in 0 .. Len(wire)
  PROVE  /\ x \o SubSeq(wire, 1, k) \in Text /\ Len(x \o SubSeq(wire, 1, k)) = Len(x) + k
         /\ Rest(k) \in Text /\ Len(Rest(k)) = Len(wire) - k
         /\ (x \o SubSeq(wire, 1, k)) \o Rest(k) = x \o wire
<1>1. /\ SubSeq(wire, 1, k) \in Text /\ Rest(k) \in Text
      /\ Len(SubSeq(wire, 1, k)) = k /\ Len(Rest(k)) = Len(wire) - k
      /\ (x \o SubSeq(wire, 1, k)) \o Rest(k) = x \o wire
  BY Moved DEF Rest
<1>2. x \o SubSeq(wire, 1, k) \in Text /\ Len(x \o SubSeq(wire, 1, k)) = Len(x) + k
  BY <1>1, Joined
<1>3. QED
  BY <1>1, <1>2

\* A task that gave up has nothing left to keep.
LEMMA GivingUpKeepsInv ==
  ASSUME RelayTypeOK', RelayTypes', pc' \in {"failed", "panicked"}
  PROVE  RelayInv'
BY DEF RelayInv, SetUp, Open, InHeaders, InBody, Early

LEMMA StopKeepsInv ==
  ASSUME RelayInv, NEW label \in {"failed", "panicked"}, Stop(label), UNCHANGED <<dsn, use, relayVars>>
  PROVE  RelayInv'
<1>1. /\ pc' = label
      /\ UNCHANGED <<dsn, use, wire, ending, line, reply, payload,
                     origin, head, status, framing, leading, client>>
  BY DEF Stop, relayVars
<1>2. RelayTypeOK' /\ RelayTypes'
  BY <1>1 DEF RelayInv, RelayTypeOK, RelayTypes
<1>3. QED
  BY <1>1, <1>2, GivingUpKeepsInv

-----------------------------------------------------------------------------
(* The tunnel.                                                             *)

LEMMA ConnectFailedKeepsInv ==
  ASSUME RelayInv, ConnectFailed, UNCHANGED <<dsn, use, relayVars>>
  PROVE  RelayInv'
BY StopKeepsInv DEF ConnectFailed

LEMMA BannersAreText == ASSUME NEW data \in TargetSays PROVE data \in Text /\ (use # "connect" => data = <<>>)
BY Constants DEF TargetSays

LEMMA ConnectDirectKeepsInv ==
  ASSUME RelayInv, ConnectDirect, UNCHANGED <<dsn, use, relayVars>>
  PROVE  RelayInv'
<1>1. /\ RelayTypes /\ RelayTypeOK /\ pc = "connect" /\ dsn.proto = "direct"
      /\ wire = <<>> /\ line = <<>> /\ payload = <<>> /\ reply = <<>> /\ ending = "open"
      /\ head = <<>> /\ leading = <<>> /\ client = <<>> /\ status = "none" /\ framing = "none"
      /\ pc' = "tunnel"
      /\ UNCHANGED <<dsn, use, line, reply, origin, head, status, framing, leading, client>>
  BY DEF RelayInv, SetUp, Early, ConnectDirect, relayVars
<1>2. PICK data \in TargetSays : Sends(<<>>, <<>>, data)
  BY DEF ConnectDirect
<1>3. data \in Text /\ (use # "connect" => data = <<>>)
  BY BannersAreText
<1>4. /\ wire' \in Text /\ payload' \in Text /\ ending' \in Endings \cup {"open"}
      /\ (payload' = <<>> /\ Len(wire') <= Len(<<>>)) \/ wire' = <<>> \o payload'
      /\ data = <<>> => payload' = payload
  BY <1>1, <1>2, <1>3, Constants, SendsShape DEF RelayTypes, RelayTypeOK
<1>5. client' \o wire' = payload'
  <2>1. <<>> \o payload' = payload' /\ <<>> \o wire' = wire'
    BY <1>4, ConcatEmptySeq DEF Text
  <2>2. Len(wire') <= 0 => wire' = <<>>
    BY <1>4, EmptySeq DEF Text
  <2>3. QED
    BY <1>1, <1>4, <2>1, <2>2, Constants
<1>6. RelayTypeOK' /\ RelayTypes'
  BY <1>1, <1>4 DEF RelayTypeOK, RelayTypes
<1>7. SetUp' /\ Open' /\ InHeaders' /\ InBody'
  BY <1>1, <1>3, <1>4, <1>5 DEF SetUp, Open, InHeaders, InBody, Early
<1>8. QED
  BY <1>6, <1>7 DEF RelayInv

LEMMA ConnectHttpKeepsInv ==
  ASSUME RelayInv, ConnectHttp, UNCHANGED <<dsn, use, relayVars>>
  PROVE  RelayInv'
<1>1. /\ RelayTypes /\ RelayTypeOK /\ pc = "connect" /\ dsn.proto = "http"
      /\ wire = <<>> /\ line = <<>> /\ payload = <<>> /\ ending = "open"
      /\ head = <<>> /\ leading = <<>> /\ client = <<>> /\ status = "none" /\ framing = "none"
      /\ pc' = "status"
      /\ UNCHANGED <<dsn, use, line, origin, head, status, framing, leading, client>>
  BY DEF RelayInv, SetUp, Early, ConnectHttp, relayVars
<1>2. PICK answer \in HttpReplies, data \in TargetSays \cup {<<>>} :
        reply' = answer /\ Sends(<<>>, answer, data)
  BY DEF ConnectHttp
<1>3. answer \in Text /\ data \in Text /\ (use # "connect" => data = <<>>)
  BY BannersAreText, Constants
<1>4. /\ wire' \in Text /\ payload' \in Text /\ ending' \in Endings \cup {"open"}
      /\ (payload' = <<>> /\ Len(wire') <= Len(answer)) \/ wire' = answer \o payload'
      /\ data = <<>> => payload' = payload
  BY <1>1, <1>2, <1>3, Constants, SendsShape DEF RelayTypes, RelayTypeOK
<1>5. Answered(line)'
  <2>1. <<>> \o wire' = wire' /\ Len(wire') \in Nat
    BY <1>4, ConcatEmptySeq, LenProperties DEF Text
  <2>2. QED
    BY <1>1, <1>2, <1>4, <2>1, Constants DEF Answered
<1>6. RelayTypeOK' /\ RelayTypes'
  BY <1>1, <1>2, <1>3, <1>4 DEF RelayTypeOK, RelayTypes
<1>7. SetUp' /\ Open' /\ InHeaders' /\ InBody'
  BY <1>1, <1>3, <1>4, <1>5, Constants DEF SetUp, Open, InHeaders, InBody, Early
<1>8. QED
  BY <1>6, <1>7 DEF RelayInv

LEMMA SocksTokens ==
  /\ \A v \in {"5", "4", "1"}, m \in {"0", "1", "2", "ff"} : <<v, m>> \in Text /\ Len(<<v, m>>) = 2
  /\ \A c \in {"0", "5"}, n \in BoundLengths :
       <<"5", c, "0", "atyp">> \o [i \in 1 .. n |-> "bnd"] \in Text
<1>1. {"0", "1", "2", "4", "5", "ff", "atyp", "bnd"} \subseteq Alphabet
  BY DEF Alphabet
<1>2. \A v \in {"5", "4", "1"}, m \in {"0", "1", "2", "ff"} : <<v, m>> \in Text /\ Len(<<v, m>>) = 2
  BY <1>1 DEF Text
<1>3. ASSUME NEW c \in {"0", "5"}, NEW n \in BoundLengths
      PROVE  <<"5", c, "0", "atyp">> \o [i \in 1 .. n |-> "bnd"] \in Text
  <2>1. <<"5", c, "0", "atyp">> \in Text
    BY <1>1 DEF Text
  <2>2. n \in Nat /\ [i \in 1 .. n |-> "bnd"] \in [1 .. n -> Alphabet]
    BY <1>1, TunnelAssumption
  <2>3. [i \in 1 .. n |-> "bnd"] \in Text
    BY <2>2, FunctionIsText
  <2>4. QED
    BY <2>1, <2>3, Joined
<1>4. QED
  BY <1>2, <1>3

\* A two-byte answer with nothing behind it.
LEMMA SendsPair ==
  ASSUME RelayTypes, RelayTypeOK, payload = <<>>, NEW rest, rest = <<>>,
         NEW v \in {"5", "4", "1"}, NEW m \in {"0", "1", "2", "ff"}, Sends(rest, <<v, m>>, <<>>)
  PROVE  /\ wire' \in Text /\ payload' = <<>> /\ ending' \in Endings \cup {"open"} /\ Len(wire') <= 2
<1>1. <<v, m>> \in Text /\ Len(<<v, m>>) = 2 /\ <<v, m>> \o <<>> = <<v, m>> /\ rest \in Text
  BY SocksTokens, Constants, ConcatEmptySeq DEF Text
<1>2. /\ wire' \in Text /\ ending' \in Endings \cup {"open"} /\ payload' = payload
      /\ (payload' = <<>> /\ Len(wire') <= Len(<<v, m>>)) \/ wire' = <<v, m>> \o payload'
  BY <1>1, Constants, SendsShape DEF RelayTypes, RelayTypeOK
<1>3. Len(wire') <= 2
  <2>1. CASE Len(wire') <= Len(<<v, m>>)
    BY <1>1, <2>1
  <2>2. CASE wire' = <<v, m>> \o payload'
    <3>1. wire' = <<v, m>>
      BY <1>1, <1>2, <2>2
    <3>2. QED
      BY <1>1, <3>1
  <2>3. QED
    BY <1>2, <2>1, <2>2
<1>4. QED
  BY <1>2, <1>3

LEMMA ConnectSocksKeepsInv ==
  ASSUME RelayInv, ConnectSocks, UNCHANGED <<dsn, use, relayVars>>
  PROVE  RelayInv'
<1>1. /\ RelayTypes /\ RelayTypeOK /\ pc = "connect" /\ dsn.proto = "socks5"
      /\ wire = <<>> /\ line = <<>> /\ payload = <<>> /\ ending = "open"
      /\ head = <<>> /\ leading = <<>> /\ client = <<>> /\ status = "none" /\ framing = "none"
      /\ pc' = "method"
      /\ UNCHANGED <<dsn, use, line, reply, origin, head, status, framing, leading, client>>
  BY DEF RelayInv, SetUp, Early, ConnectSocks, relayVars
<1>2. PICK version \in {"5", "4"}, method \in {"0", "2", "ff"} : Sends(<<>>, <<version, method>>, <<>>)
  BY DEF ConnectSocks
<1>3. wire' \in Text /\ payload' = <<>> /\ ending' \in Endings \cup {"open"} /\ Len(wire') <= 2
  BY <1>1, <1>2, SendsPair
<1>4. RelayTypeOK' /\ RelayTypes'
  BY <1>1, <1>3, Constants DEF RelayTypeOK, RelayTypes
<1>5. SetUp' /\ Open' /\ InHeaders' /\ InBody'
  BY <1>1, <1>3 DEF SetUp, Open, InHeaders, InBody, Early
<1>6. QED
  BY <1>4, <1>5 DEF RelayInv

\* The answer was read to its end and no further: what is left is the target's.
LEMMA ReadToTheEnd ==
  ASSUME NEW r \in Text, NEW w \in Text, NEW p \in Text,
         (p = <<>> /\ Len(r) + Len(w) <= Len(r)) \/ r \o w = r \o p
  PROVE  w = p
<1>1. r \o w = r \o p => w = p
  BY ConcatSimplifications DEF Text
<1>2. Len(r) + Len(w) <= Len(r) => w = <<>>
  <2>1. Len(r) \in Nat /\ Len(w) \in Nat /\ (w # <<>> => Len(w) # 0)
    BY LenProperties, EmptySeq DEF Text
  <2>2. QED
    BY <2>1
<1>3. QED
  BY <1>1, <1>2

LEMMA ReadStatusKeepsInv ==
  ASSUME RelayInv, ReadStatus, UNCHANGED <<dsn, use, relayVars>>
  PROVE  RelayInv'
<1>1. /\ RelayTypes /\ RelayTypeOK /\ pc = "status" /\ dsn.proto = "http"
      /\ Answered(line) /\ Len(line) <= LineMax
      /\ head = <<>> /\ leading = <<>> /\ client = <<>> /\ status = "none" /\ framing = "none"
      /\ use # "connect" => payload = <<>>
      /\ UNCHANGED <<dsn, use, ending, reply, payload, origin, head, status, framing, leading, client>>
  BY DEF RelayInv, SetUp, Early, ReadStatus, relayVars
<1>2. PICK k \in 1 .. Len(wire) :
        k <= ReadMax /\ line' = line \o SubSeq(wire, 1, k) /\ wire' = Rest(k)
  BY DEF ReadStatus
<1>3. /\ Len(line) \in Nat /\ Len(wire) \in Nat /\ wire \in Text /\ line \in Text
      /\ reply \in Text /\ payload \in Text
  BY <1>1, LenProperties DEF RelayTypes, Text
<1>4. /\ line' \in Text /\ Len(line') = Len(line) + k
      /\ wire' \in Text /\ Len(wire') = Len(wire) - k
      /\ line' \o wire' = line \o wire
  <2>1. k \in 0 .. Len(wire)
    BY <1>3
  <2>2. QED
    BY <1>2, <1>3, <2>1, ReadShape
<1>5. Answered(line)'
  <2>1. Len(line') + Len(wire') = Len(line) + Len(wire)
    BY <1>3, <1>4
  <2>2. QED
    BY <1>1, <1>4, <2>1 DEF Answered
<1>6. Len(line') <= LineMax + ReadMax
  BY <1>1, <1>2, <1>3, <1>4, Constants
<1>7. \/ pc' = "status" /\ ~ (Len(line') > LineMax)
      \/ pc' \in {"tunnel", "failed"}
  BY <1>1 DEF ReadStatus, Judge
<1>8. RelayTypeOK' /\ RelayTypes'
  BY <1>1, <1>4, <1>6, <1>7 DEF RelayTypeOK, RelayTypes
<1>9. CASE pc' = "status"
  <2>1. Len(line') <= LineMax
    BY <1>3, <1>4, <1>7, <1>9, Constants
  <2>2. SetUp' /\ Open' /\ InHeaders' /\ InBody'
    BY <1>1, <1>5, <1>9, <2>1 DEF SetUp, Open, InHeaders, InBody, Early
  <2>3. QED
    BY <1>8, <2>2 DEF RelayInv
<1>10. CASE pc' = "tunnel"
  <2>1. Aligned' => client' \o wire' = payload'
    <3>1. HAVE Aligned'
    <3>2. line' = reply'
      BY <1>1, <3>1 DEF Aligned
    <3>3. (payload' = <<>> /\ Len(reply') + Len(wire') <= Len(reply')) \/ reply' \o wire' = reply' \o payload'
      BY <1>5, <3>2 DEF Answered
    <3>4. wire' = payload'
      BY <1>1, <1>3, <1>4, <3>3, ReadToTheEnd
    <3>5. <<>> \o wire' = wire'
      BY <1>4, ConcatEmptySeq DEF Text
    <3>6. QED
      BY <1>1, <3>4, <3>5
  <2>2. SetUp' /\ Open' /\ InHeaders' /\ InBody'
    BY <1>1, <1>10, <2>1 DEF SetUp, Open, InHeaders, InBody, Early
  <2>3. QED
    BY <1>8, <2>2 DEF RelayInv
<1>11. CASE pc' = "failed"
  BY <1>8, <1>11, GivingUpKeepsInv
<1>12. QED
  BY <1>7, <1>9, <1>10, <1>11

LEMMA StatusEndsKeepsInv ==
  ASSUME RelayInv, StatusEnds, UNCHANGED <<dsn, use, relayVars>>
  PROVE  RelayInv'
<1>1. /\ RelayTypes /\ RelayTypeOK /\ pc = "status" /\ dsn.proto = "http" /\ Answered(line)
      /\ head = <<>> /\ leading = <<>> /\ client = <<>> /\ status = "none" /\ framing = "none"
      /\ use # "connect" => payload = <<>>
      /\ UNCHANGED <<dsn, use, wire, ending, line, reply, payload, origin, head, status, framing, leading, client>>
      /\ pc' \in {"tunnel", "failed"}
  BY DEF RelayInv, SetUp, Early, StatusEnds, Judge, relayVars
<1>2. RelayTypeOK' /\ RelayTypes'
  BY <1>1 DEF RelayTypeOK, RelayTypes
<1>3. CASE pc' = "tunnel"
  <2>1. wire \in Text /\ payload \in Text /\ reply \in Text /\ <<>> \o wire = wire
    BY <1>1, ConcatEmptySeq DEF RelayTypes, Text
  <2>2. Aligned' => line = reply
    BY <1>1 DEF Aligned
  <2>3. line = reply => wire = payload
    BY <1>1, <2>1, ReadToTheEnd DEF Answered
  <2>4. Aligned' => client' \o wire' = payload'
    BY <1>1, <2>1, <2>2, <2>3
  <2>5. SetUp' /\ Open' /\ InHeaders' /\ InBody'
    BY <1>1, <1>3, <2>4 DEF SetUp, Open, InHeaders, InBody, Early
  <2>6. QED
    BY <1>2, <2>5 DEF RelayInv
<1>4. CASE pc' = "failed"
  BY <1>2, <1>4, GivingUpKeepsInv
<1>5. QED
  BY <1>1, <1>3, <1>4

LEMMA Two == \A n \in Nat : 2 <= n /\ n <= 2 => n = 2
OBVIOUS

LEMMA CommandKeepsInv ==
  ASSUME RelayInv, pc \in {"method", "auth"}, 2 <= Len(wire), Command(Rest(2)),
         UNCHANGED <<dsn, use, relayVars>>
  PROVE  RelayInv'
<1>1. /\ RelayTypes /\ RelayTypeOK /\ payload = <<>> /\ wire \in Text /\ Len(wire) = 2
      /\ dsn.proto = "socks5" /\ pc' = "reply"
      /\ head = <<>> /\ leading = <<>> /\ client = <<>> /\ status = "none" /\ framing = "none"
      /\ UNCHANGED <<dsn, use, line, origin, head, status, framing, leading, client>>
  <2>1. wire \in Text /\ Len(wire) <= 2
    BY DEF RelayInv, RelayTypes, SetUp
  <2>2. Len(wire) \in Nat
    BY <2>1, LenProperties DEF Text
  <2>3. Len(wire) = 2
    BY <2>1, <2>2, Two
  <2>4. QED
    BY <2>1, <2>3 DEF RelayInv, SetUp, Early, Command, relayVars
<1>2. Rest(2) = <<>>
  <2>1. Rest(2) \in Text /\ Len(Rest(2)) = 0
    BY <1>1, Constants, ReadShape
  <2>2. QED
    BY <2>1, EmptySeq DEF Text
<1>3. PICK code \in {"0", "5"}, n \in BoundLengths :
        /\ reply' = <<"5", code, "0", "atyp">> \o [i \in 1 .. n |-> "bnd"]
        /\ \E data \in IF code = "0" THEN TargetSays ELSE {<<>>} : Sends(Rest(2), reply', data)
  BY DEF Command
<1>4. PICK data \in TargetSays \cup {<<>>} : Sends(<<>>, reply', data)
  BY <1>2, <1>3
<1>5. reply' \in Text /\ data \in Text /\ (use # "connect" => data = <<>>)
  BY <1>3, BannersAreText, SocksTokens, Constants
<1>6. /\ wire' \in Text /\ payload' \in Text /\ ending' \in Endings \cup {"open"}
      /\ (payload' = <<>> /\ Len(wire') <= Len(reply')) \/ wire' = reply' \o payload'
      /\ data = <<>> => payload' = payload
  BY <1>1, <1>4, <1>5, Constants, SendsShape DEF RelayTypes, RelayTypeOK
<1>7. Answered(<<>>)'
  <2>1. <<>> \o wire' = wire' /\ Len(wire') \in Nat
    BY <1>6, ConcatEmptySeq, LenProperties DEF Text
  <2>2. QED
    BY <1>6, <2>1, Constants DEF Answered
<1>8. RelayTypeOK' /\ RelayTypes'
  BY <1>1, <1>5, <1>6 DEF RelayTypeOK, RelayTypes
<1>9. SetUp' /\ Open' /\ InHeaders' /\ InBody'
  BY <1>1, <1>5, <1>6, <1>7 DEF SetUp, Open, InHeaders, InBody, Early
<1>10. QED
  BY <1>8, <1>9 DEF RelayInv

LEMMA ReadMethodKeepsInv ==
  ASSUME RelayInv, ReadMethod, UNCHANGED <<dsn, use, relayVars>>
  PROVE  RelayInv'
<1>1. /\ RelayTypes /\ RelayTypeOK /\ pc = "method" /\ 2 <= Len(wire)
      /\ payload = <<>> /\ wire \in Text /\ Len(wire) <= 2 /\ dsn.proto = "socks5"
      /\ head = <<>> /\ leading = <<>> /\ client = <<>> /\ status = "none" /\ framing = "none"
      /\ UNCHANGED <<dsn, use, origin, head, status, framing, leading, client>>
  BY DEF RelayInv, RelayTypes, SetUp, Early, ReadMethod, relayVars
<1>2. CASE Stop("failed") \/ Stop("panicked")
  BY <1>2, StopKeepsInv
<1>3. CASE Command(Rest(2))
  BY <1>1, <1>3, CommandKeepsInv
<1>4. ASSUME pc' = "auth", NEW code \in {"0", "1"}, Sends(Rest(2), <<"1", code>>, <<>>),
             UNCHANGED <<line, reply>>
      PROVE  RelayInv'
  <2>1. Rest(2) = <<>>
    <3>1. Len(wire) = 2
      <4>1. Len(wire) \in Nat
        BY <1>1, LenProperties DEF Text
      <4>2. QED
        BY <1>1, <4>1, Two
    <3>2. Rest(2) \in Text /\ Len(Rest(2)) = 0
      BY <1>1, <3>1, Constants, ReadShape
    <3>3. QED
      BY <3>2, EmptySeq DEF Text
  <2>2. wire' \in Text /\ payload' = <<>> /\ ending' \in Endings \cup {"open"} /\ Len(wire') <= 2
    BY <1>1, <1>4, <2>1, SendsPair
  <2>3. RelayTypeOK' /\ RelayTypes'
    BY <1>1, <1>4, <2>2, Constants DEF RelayTypeOK, RelayTypes
  <2>4. SetUp' /\ Open' /\ InHeaders' /\ InBody'
    BY <1>1, <1>4, <2>2 DEF SetUp, Open, InHeaders, InBody, Early
  <2>5. QED
    BY <2>3, <2>4 DEF RelayInv
<1>5. \/ Stop("failed") \/ Stop("panicked") \/ Command(Rest(2))
      \/ /\ pc' = "auth" /\ UNCHANGED <<line, reply>>
         /\ \E code \in {"0", "1"} : Sends(Rest(2), <<"1", code>>, <<>>)
  BY DEF ReadMethod
<1>6. QED
  BY <1>2, <1>3, <1>4, <1>5

LEMMA ReadAuthKeepsInv ==
  ASSUME RelayInv, ReadAuth, UNCHANGED <<dsn, use, relayVars>>
  PROVE  RelayInv'
<1>1. pc = "auth" /\ 2 <= Len(wire) /\ (Stop("failed") \/ Command(Rest(2)))
  <2>1. wire \in Text /\ Len(wire) \in Nat
    BY LenProperties DEF RelayInv, RelayTypes, Text
  <2>2. QED
    BY <2>1 DEF ReadAuth
<1>2. QED
  BY <1>1, StopKeepsInv, CommandKeepsInv

LEMMA ReadReplyKeepsInv ==
  ASSUME RelayInv, ReadReply, UNCHANGED <<dsn, use, relayVars>>
  PROVE  RelayInv'
<1>1. /\ RelayTypes /\ RelayTypeOK /\ pc = "reply" /\ dsn.proto = "socks5" /\ Answered(<<>>)
      /\ head = <<>> /\ leading = <<>> /\ client = <<>> /\ status = "none" /\ framing = "none"
      /\ use # "connect" => payload = <<>>
      /\ UNCHANGED <<dsn, use, ending, line, reply, payload, origin, head, status, framing, leading, client>>
      /\ pc' \in {"tunnel", "failed"} /\ wire' = Rest(10) /\ Len(wire) >= 10
  BY DEF RelayInv, SetUp, Early, ReadReply, relayVars
<1>2. /\ wire \in Text /\ reply \in Text /\ payload \in Text /\ Len(wire) \in Nat /\ 10 \in 0 .. Len(wire)
      /\ <<>> \o wire = wire
  BY <1>1, LenProperties, ConcatEmptySeq DEF RelayTypes, Text
<1>3. /\ SubSeq(wire, 1, 10) \in Text /\ Len(SubSeq(wire, 1, 10)) = 10
      /\ wire' \in Text /\ Len(wire') = Len(wire) - 10
      /\ SubSeq(wire, 1, 10) \o wire' = wire
      /\ \A i \in 1 .. 10 : SubSeq(wire, 1, 10)[i] = wire[i]
  <2>1. <<>> \o SubSeq(wire, 1, 10) = SubSeq(wire, 1, 10) /\ SubSeq(wire, 1, 10) \in Text
    BY <1>2, Front, ConcatEmptySeq DEF Text
  <2>2. /\ Len(<<>> \o SubSeq(wire, 1, 10)) = Len(<<>>) + 10
        /\ Rest(10) \in Text /\ Len(Rest(10)) = Len(wire) - 10
        /\ (<<>> \o SubSeq(wire, 1, 10)) \o Rest(10) = <<>> \o wire
    BY <1>2, Constants, ReadShape
  <2>3. QED
    BY <1>1, <1>2, <2>1, <2>2, Constants, Front
<1>4. RelayTypeOK' /\ RelayTypes'
  BY <1>1, <1>3 DEF RelayTypeOK, RelayTypes
<1>5. CASE pc' = "failed"
  BY <1>4, <1>5, GivingUpKeepsInv
<1>6. CASE pc' = "tunnel"
  <2>1. ASSUME Len(reply) = 10
        PROVE  wire' = payload
    <3>1. CASE payload = <<>> /\ Len(<<>>) + Len(wire) <= Len(reply)
      <4>1. Len(wire') = 0
        BY <1>2, <1>3, <2>1, <3>1, Constants
      <4>2. QED
        BY <1>3, <3>1, <4>1, EmptySeq DEF Text
    <3>2. CASE wire = reply \o payload
      <4>1. \A i \in 1 .. 10 : wire[i] = reply[i]
        <5>1. \A i \in 1 .. Len(reply) : (reply \o payload)[i] = reply[i]
          BY <1>2, Joined
        <5>2. QED
          BY <2>1, <3>2, <5>1
      <4>2. SubSeq(wire, 1, 10) = reply
        <5>1. Begins(SubSeq(wire, 1, 10), reply)
          BY <1>3, <2>1, <4>1 DEF Begins
        <5>2. Len(reply) <= Len(SubSeq(wire, 1, 10))
          BY <1>3, <2>1
        <5>3. QED
          BY <1>2, <1>3, <5>1, <5>2, Same
      <4>3. reply \o wire' = reply \o payload
        BY <1>3, <3>2, <4>2
      <4>4. QED
        BY <1>2, <1>3, <4>3, ReadToTheEnd
    <3>3. QED
      BY <1>1, <1>2, <3>1, <3>2 DEF Answered
  <2>2. Aligned' => client' \o wire' = payload'
    <3>1. HAVE Aligned'
    <3>2. Len(reply) = 10
      BY <1>1, <3>1 DEF Aligned
    <3>3. <<>> \o wire' = wire'
      BY <1>3, ConcatEmptySeq DEF Text
    <3>4. QED
      BY <1>1, <2>1, <3>2, <3>3
  <2>3. SetUp' /\ Open' /\ InHeaders' /\ InBody'
    BY <1>1, <1>6, <2>2 DEF SetUp, Open, InHeaders, InBody, Early
  <2>4. QED
    BY <1>4, <2>3 DEF RelayInv
<1>7. QED
  BY <1>1, <1>5, <1>6

LEMMA ReadFailsKeepsInv ==
  ASSUME RelayInv, ReadFails, UNCHANGED <<dsn, use, relayVars>>
  PROVE  RelayInv'
BY StopKeepsInv DEF ReadFails

-----------------------------------------------------------------------------
(* CONNECT, and the request.                                               *)

LEMMA CopyToClientKeepsInv ==
  ASSUME RelayInv, CopyToClient, UNCHANGED <<dsn, use>>
  PROVE  RelayInv'
<1>1. /\ RelayTypes /\ RelayTypeOK /\ SetUp /\ Open /\ pc = "tunnel" /\ use = "connect"
      /\ UNCHANGED <<dsn, use, pc, ending, line, reply, payload, origin, head, status, framing, leading>>
  BY DEF RelayInv, CopyToClient
<1>2. PICK k \in 1 .. Len(wire) : client' = client \o SubSeq(wire, 1, k) /\ wire' = Rest(k)
  BY DEF CopyToClient
<1>3. client' \in Text /\ wire' \in Text /\ client' \o wire' = client \o wire
  <2>1. wire \in Text /\ client \in Text /\ k \in 0 .. Len(wire)
    BY <1>1, LenProperties DEF RelayTypes, Text
  <2>2. QED
    BY <1>2, <2>1, ReadShape
<1>4. RelayTypeOK' /\ RelayTypes'
  BY <1>1, <1>3 DEF RelayTypeOK, RelayTypes
<1>5. SetUp' /\ Open' /\ InHeaders' /\ InBody'
  BY <1>1, <1>3 DEF SetUp, Open, InHeaders, InBody, Early, Aligned
<1>6. QED
  BY <1>4, <1>5 DEF RelayInv

LEMMA CopyEndsKeepsInv ==
  ASSUME RelayInv, CopyEnds, UNCHANGED <<dsn, use>>
  PROVE  RelayInv'
<1>1. /\ RelayTypes /\ RelayTypeOK /\ SetUp /\ Open /\ pc = "tunnel" /\ use = "connect" /\ pc' = "done"
      /\ UNCHANGED <<dsn, use, wire, ending, line, reply, payload,
                     origin, head, status, framing, leading, client>>
  BY DEF RelayInv, CopyEnds, Stop, relayVars
<1>2. RelayTypeOK' /\ RelayTypes'
  BY <1>1 DEF RelayTypeOK, RelayTypes
<1>3. SetUp' /\ Open' /\ InHeaders' /\ InBody'
  BY <1>1 DEF SetUp, Open, InHeaders, InBody, Early, Aligned
<1>4. QED
  BY <1>2, <1>3 DEF RelayInv

LEMMA TlsHandshakeKeepsInv ==
  ASSUME RelayInv, TlsHandshake, UNCHANGED <<dsn, use>>
  PROVE  RelayInv'
<1>1. CASE Stop("failed")
  BY <1>1, StopKeepsInv DEF TlsHandshake
<1>2. CASE wire = <<>> /\ Stop("request")
  <2>1. /\ RelayTypes /\ RelayTypeOK /\ SetUp /\ pc = "tunnel" /\ use = "https" /\ pc' = "request"
        /\ UNCHANGED <<dsn, use, wire, ending, line, reply, payload,
                       origin, head, status, framing, leading, client>>
    BY <1>2 DEF RelayInv, TlsHandshake, Stop, relayVars
  <2>2. RelayTypeOK' /\ RelayTypes'
    BY <2>1 DEF RelayTypeOK, RelayTypes
  <2>3. SetUp' /\ Open' /\ InHeaders' /\ InBody'
    BY <1>2, <2>1 DEF SetUp, Open, InHeaders, InBody, Early
  <2>4. QED
    BY <2>2, <2>3 DEF RelayInv
<1>3. QED
  BY <1>1, <1>2 DEF TlsHandshake

\* A request is written where nothing is unread, over a clear tunnel.
LEMMA NothingUnread ==
  ASSUME RelayInv, pc = (IF use = "https" THEN "request" ELSE "tunnel"), use # "connect", Clear
  PROVE  wire = <<>>
<1>1. CASE use = "https"
  BY <1>1 DEF RelayInv, Open
<1>2. CASE use # "https"
  <2>1. client = <<>> /\ payload = <<>> /\ client \o wire = payload /\ wire \in Text
    BY <1>2 DEF RelayInv, RelayTypes, SetUp, Open, Early, Clear
  <2>2. <<>> \o wire = wire
    BY <2>1, ConcatEmptySeq DEF Text
  <2>3. QED
    BY <2>1, <2>2
<1>3. QED
  BY <1>1, <1>2

LEMMA WriteRequestKeepsInv ==
  ASSUME RelayInv, WriteRequest, UNCHANGED <<dsn, use>>
  PROVE  RelayInv'
<1>1. /\ RelayTypes /\ RelayTypeOK /\ use # "connect" /\ pc' = "headers"
      /\ pc = (IF use = "https" THEN "request" ELSE "tunnel")
      /\ head = <<>> /\ leading = <<>> /\ client = <<>> /\ status = "none" /\ framing = "none"
      /\ wire \in Text /\ payload \in Text
      /\ UNCHANGED <<dsn, use, line, reply, head, status, framing, leading, client>>
  BY DEF RelayInv, RelayTypes, SetUp, Early, WriteRequest
<1>2. PICK r \in Responses : origin' = r /\ Sends(wire, <<>>, Raw(r))
  BY DEF WriteRequest
<1>3. r \in Response /\ Raw(r) \in Text
  BY Constants, RawIsText
<1>4. /\ wire' \in Text /\ payload' \in Text /\ ending' \in Endings \cup {"open"}
      /\ wire = <<>> => Begins(wire', Raw(r))
  BY <1>1, <1>2, <1>3, Constants, SendsShape DEF RelayTypeOK
<1>5. Clear' => Begins(head' \o wire', Raw(origin'))
  <2>1. Clear' => Clear
    BY <1>1 DEF Clear, Aligned
  <2>2. Clear' => wire = <<>>
    BY <1>1, <2>1, NothingUnread
  <2>3. <<>> \o wire' = wire'
    BY <1>4, ConcatEmptySeq DEF Text
  <2>4. QED
    BY <1>1, <1>2, <1>4, <2>2, <2>3
<1>6. Separators(head') = {} /\ Len(head') <= HeadMax
  BY <1>1, Constants DEF Separators
<1>7. RelayTypeOK' /\ RelayTypes'
  BY <1>1, <1>2, <1>3, <1>4 DEF RelayTypeOK, RelayTypes
<1>8. SetUp' /\ Open' /\ InHeaders' /\ InBody'
  BY <1>1, <1>5, <1>6 DEF SetUp, Open, InHeaders, InBody, Early
<1>9. QED
  BY <1>7, <1>8 DEF RelayInv

LEMMA WriteFailsKeepsInv ==
  ASSUME RelayInv, WriteFails, UNCHANGED <<dsn, use>>
  PROVE  RelayInv'
BY StopKeepsInv DEF WriteFails

-----------------------------------------------------------------------------
(* The headers.                                                            *)

LEMMA LeastIndex ==
  ASSUME NEW T, T \subseteq Nat, T # {}
  PROVE  \E x \in T : \A y \in T : x <= y
<1> DEFINE R == OpToRel(<, Nat)
<1>1. IsWellFoundedOn(R, Nat)
  BY NatLessThanWellFounded
<1> HIDE DEF R
<1>2. PICK x \in T : \A y \in T : ~ (<<y, x>> \in R)
  BY <1>1, WFMin
<1>3. ASSUME NEW y \in T
      PROVE  x <= y
  <2>1. x \in Nat /\ y \in Nat /\ <<y, x>> \in Nat \X Nat
    OBVIOUS
  <2>2. y < x => <<y, x>> \in R
    BY <2>1 DEF R, OpToRel
  <2>3. QED
    BY <1>2, <2>1, <2>2
<1>4. QED
  BY <1>3

LEMMA SeparatorIsOne ==
  ASSUME NEW buf \in Text, Separators(buf) # {}
  PROVE  Separator(buf) \in 1 .. Len(buf) - 1
<1>1. Separators(buf) \subseteq 1 .. Len(buf) - 1 /\ Separators(buf) \subseteq Nat
  BY DEF Separators
<1>2. \E i \in Separators(buf) : \A j \in Separators(buf) : i <= j
  BY <1>1, LeastIndex
<1>3. Separator(buf) \in Separators(buf)
  BY <1>2 DEF Separator
<1>4. QED
  BY <1>1, <1>3

\* What the client is given once the headers are there.
LEMMA GiveResponseKeepsInv ==
  ASSUME RelayInv, pc = "headers", NEW i, i = Separator(head'), Separators(head') # {},
         GiveResponse(SubSeq(head', 1, i - 1), SubSeq(head', i + 2, Len(head'))),
         head' \in Text, wire' \in Text, head' \o wire' = head \o wire,
         Len(head') <= HeadMax + HeadRead,
         UNCHANGED <<dsn, use, ending, line, reply, payload, origin, client>>
  PROVE  RelayInv'
<1> DEFINE h == SubSeq(head', 1, i - 1)
           rest == SubSeq(head', i + 2, Len(head'))
<1>1. /\ RelayTypes /\ RelayTypeOK /\ use # "connect" /\ origin \in Response
      /\ leading = <<>> /\ client = <<>> /\ framing = "none"
      /\ Clear => Begins(head' \o wire', Raw(origin))
  BY DEF RelayInv, RelayTypes, InHeaders
<1>2. rest \in Text
  <2>1. i \in 1 .. Len(head') - 1 /\ Len(head') \in Nat
    BY SeparatorIsOne, LenProperties DEF Text
  <2>2. i + 2 \in 1 .. Len(head') + 1 /\ Len(head') \in (i + 2) - 1 .. Len(head')
    BY <2>1
  <2>3. QED
    BY <2>2, Slice
<1>3. Clear => Begins(head', Raw(origin)) /\ Raw(origin) \in Text
  BY <1>1, RawIsText, FirstPart
<1>4. Clear /\ ~ origin.interim =>
        StatusOf(h) = origin.status /\ Begins(rest \o wire', origin.body)
  <2>1. HAVE Clear /\ ~ origin.interim
  <2>2. i = End(origin) /\ End(origin) + 1 <= Len(head')
    BY <1>1, <1>3, <2>1, FirstSeparator
  <2>3. StatusOf(h) = origin.status
    BY <1>1, <1>3, <2>1, <2>2, FinalStatus
  <2>4. Begins(rest \o wire', origin.body)
    BY <1>1, <2>1, <2>2, BehindHeaders
  <2>5. QED
    BY <2>3, <2>4
<1>5. Clear /\ origin.interim => StatusOf(h) = "100"
  <2>1. HAVE Clear /\ origin.interim
  <2>2. i = 3 /\ 4 <= Len(head')
    BY <1>1, <1>3, <2>1, InterimSeparator
  <2>3. StatusOf(SubSeq(head', 1, 2)) = "100"
    BY <1>1, <1>3, <2>1, <2>2, InterimStatus
  <2>4. i - 1 = 2
    BY <2>2
  <2>5. QED
    BY <2>3, <2>4
<1>6. origin.status \in {"200", "404"}
  BY <1>1, ResponseTypes
<1>7. StatusOf(h) \in Statuses
  BY DEF StatusOf, StatusAt, Statuses
<1>8. Clear' = Clear
  BY DEF Clear, Aligned
<1> HIDE DEF h, rest
<1>9. GiveResponse(h, rest)
  BY DEF h, rest
<1>10. CASE pc' = "panicked" /\ UNCHANGED <<status, framing, leading>>
  <2>1. RelayTypeOK' /\ RelayTypes'
    BY <1>1, <1>10 DEF RelayTypeOK, RelayTypes
  <2>2. QED
    BY <1>10, <2>1, GivingUpKeepsInv
<1>11. CASE /\ StatusOf(h) = "100" /\ pc' = "done" /\ status' = "500"
            /\ UNCHANGED <<framing, leading>>
  <2>1. RelayTypeOK' /\ RelayTypes'
    BY <1>1, <1>11 DEF RelayTypeOK, RelayTypes
  <2>2. Clear => origin.interim
    BY <1>4, <1>6, <1>11
  <2>3. SetUp' /\ Open' /\ InHeaders'
    BY <1>1, <1>11 DEF SetUp, Open, InHeaders, Early
  <2>4. InBody'
    BY <1>1, <1>8, <1>11, <2>2 DEF InBody
  <2>5. QED
    BY <2>1, <2>3, <2>4 DEF RelayInv
<1>12. CASE /\ StatusOf(h) # "100" /\ pc' = "body" /\ status' = StatusOf(h)
            /\ framing' \in {"te", "len", "close"} /\ leading' = rest
  <2>1. RelayTypeOK' /\ RelayTypes'
    BY <1>1, <1>2, <1>7, <1>12 DEF RelayTypeOK, RelayTypes
  <2>2. Clear => ~ origin.interim
    BY <1>5, <1>12
  <2>3. SetUp' /\ Open' /\ InHeaders'
    BY <1>1, <1>12 DEF SetUp, Open, InHeaders, Early
  <2>4. Clear => Begins(client' \o leading' \o wire', origin'.body)
    <3>1. <<>> \o rest = rest
      BY <1>2, ConcatEmptySeq DEF Text
    <3>2. QED
      BY <1>1, <1>4, <1>12, <2>2, <3>1
  <2>5. InBody'
    BY <1>1, <1>4, <1>8, <1>12, <2>2, <2>4 DEF InBody
  <2>6. QED
    BY <2>1, <2>3, <2>5 DEF RelayInv
<1>13. QED
  BY <1>9, <1>10, <1>11, <1>12 DEF GiveResponse

LEMMA ReadHeadKeepsInv ==
  ASSUME RelayInv, ReadHead, UNCHANGED <<dsn, use>>
  PROVE  RelayInv'
<1>1. /\ RelayTypes /\ RelayTypeOK /\ SetUp /\ pc = "headers" /\ use # "connect"
      /\ leading = <<>> /\ client = <<>> /\ framing = "none" /\ Len(head) <= HeadMax
      /\ Clear => Begins(head \o wire, Raw(origin))
      /\ wire \in Text /\ head \in Text
      /\ UNCHANGED <<dsn, use, ending, line, reply, payload, origin, client>>
  BY DEF RelayInv, RelayTypes, InHeaders, ReadHead
<1>2. PICK k \in 1 .. Len(wire) :
        k <= HeadRead /\ head' = head \o SubSeq(wire, 1, k) /\ wire' = Rest(k)
  BY DEF ReadHead
<1>3. Len(wire) \in Nat /\ Len(head) \in Nat /\ k \in 0 .. Len(wire)
  BY <1>1, LenProperties DEF Text
<1>4. /\ head' \in Text /\ Len(head') = Len(head) + k /\ wire' \in Text
      /\ head' \o wire' = head \o wire
  BY <1>1, <1>2, <1>3, ReadShape
<1>5. Len(head') <= HeadMax + HeadRead
  BY <1>1, <1>2, <1>3, <1>4, Constants
<1>6. CASE Separators(head') # {}
  <2>1. GiveResponse(SubSeq(head', 1, Separator(head') - 1),
                     SubSeq(head', Separator(head') + 2, Len(head')))
    BY <1>6 DEF ReadHead
  <2>2. QED
    BY <1>1, <1>4, <1>5, <1>6, <2>1, GiveResponseKeepsInv
<1>7. CASE Separators(head') = {}
  <2>1. /\ UNCHANGED <<status, framing, leading>>
        /\ pc' = "failed" \/ (pc' = "headers" /\ ~ (Len(head') > HeadMax))
    BY <1>7 DEF ReadHead
  <2>2. RelayTypeOK' /\ RelayTypes'
    BY <1>1, <1>4, <1>5, <2>1 DEF RelayTypeOK, RelayTypes
  <2>3. CASE pc' = "failed"
    BY <2>2, <2>3, GivingUpKeepsInv
  <2>4. CASE pc' = "headers"
    <3>1. Len(head') <= HeadMax
      BY <1>3, <1>4, <2>1, <2>4, Constants
    <3>2. Clear' => Begins(head' \o wire', Raw(origin'))
      BY <1>1, <1>4 DEF Clear, Aligned
    <3>3. SetUp' /\ Open' /\ InHeaders' /\ InBody'
      BY <1>1, <1>7, <2>1, <2>4, <3>1, <3>2 DEF SetUp, Open, InHeaders, InBody, Early
    <3>4. QED
      BY <2>2, <3>3 DEF RelayInv
  <2>5. QED
    BY <2>1, <2>3, <2>4
<1>8. QED
  BY <1>6, <1>7

LEMMA HeadStopsKeepsInv ==
  ASSUME RelayInv, HeadEnds \/ HeadFails, UNCHANGED <<dsn, use>>
  PROVE  RelayInv'
BY StopKeepsInv DEF HeadEnds, HeadFails

-----------------------------------------------------------------------------
(* The body.                                                               *)

\* Nothing is cut off what is sent while it begins the body.
LEMMA EncodedShape ==
  ASSUME client \in Text, origin \in Response, NEW data \in Text, NEW w \in Text, Encoded(data)
  PROVE  /\ client' \in Text
         /\ Begins((client \o data) \o w, origin.body) => client' = client \o data
<1> DEFINE all == client \o data
           n == Len(origin.body)
<1>1. all \in Text /\ Len(all) \in Nat /\ n \in Nat
  BY Joined, ResponseTypes, LenProperties DEF Text
<1>2. client' = IF framing = "len" /\ Len(all) > n THEN SubSeq(all, 1, n) ELSE all
  BY DEF Encoded
<1> HIDE DEF all, n
<1>3. client' \in Text
  <2>1. Len(all) > n => n \in 0 .. Len(all)
    BY <1>1
  <2>2. Len(all) > n => SubSeq(all, 1, n) \in Text
    BY <1>1, <2>1, Front
  <2>3. QED
    BY <1>1, <1>2, <2>2
<1>4. Begins(all \o w, origin.body) => Len(all) <= n
  <2>1. origin.body \in Text
    BY ResponseTypes
  <2>2. Begins(all \o w, origin.body) => Begins(all, origin.body)
    BY <1>1, <2>1, FirstPart
  <2>3. QED
    BY <2>2 DEF Begins, n
<1>5. Len(all) <= n => client' = all
  BY <1>1, <1>2
<1>6. QED
  BY <1>3, <1>4, <1>5 DEF all

LEMMA BodyGoesOn ==
  ASSUME RelayInv, pc = "body", client' \in Text, leading' \in Text, wire' \in Text,
         Clear /\ ~ origin.interim => Begins(client' \o leading' \o wire', origin.body),
         UNCHANGED <<dsn, use, pc, ending, line, reply, payload, origin, head, status, framing>>
  PROVE  RelayInv'
<1>1. /\ RelayTypes /\ RelayTypeOK /\ use # "connect" /\ framing # "none"
      /\ Clear => ~ origin.interim
      /\ Clear /\ ~ origin.interim => status = origin.status
  BY DEF RelayInv, InBody
<1>2. RelayTypeOK' /\ RelayTypes'
  BY <1>1 DEF RelayTypeOK, RelayTypes
<1>3. Clear' = Clear
  BY DEF Clear, Aligned
<1>4. SetUp' /\ Open' /\ InHeaders' /\ InBody'
  BY <1>1, <1>3 DEF SetUp, Open, InHeaders, InBody, Early
<1>5. QED
  BY <1>2, <1>4 DEF RelayInv

LEMMA EmitLeadingKeepsInv ==
  ASSUME RelayInv, EmitLeading, UNCHANGED <<dsn, use>>
  PROVE  RelayInv'
<1>1. /\ client \in Text /\ leading \in Text /\ wire \in Text /\ origin \in Response
      /\ pc = "body" /\ leading' = <<>> /\ Encoded(leading)
      /\ UNCHANGED <<dsn, use, pc, wire, ending, line, reply, payload, origin, head, status, framing>>
      /\ Clear /\ ~ origin.interim => Begins(client \o leading \o wire, origin.body)
  BY DEF RelayInv, RelayTypes, InBody, EmitLeading
<1>2. /\ client' \in Text
      /\ Begins((client \o leading) \o wire, origin.body) => client' = client \o leading
  BY <1>1, EncodedShape
<1>3. client' \o <<>> = client'
  BY <1>2, ConcatEmptySeq DEF Text
<1>4. Clear /\ ~ origin.interim => Begins(client' \o leading' \o wire', origin.body)
  BY <1>1, <1>2, <1>3
<1>5. QED
  BY <1>1, <1>2, <1>4, Constants, BodyGoesOn

LEMMA ReadBodyKeepsInv ==
  ASSUME RelayInv, ReadBody, UNCHANGED <<dsn, use>>
  PROVE  RelayInv'
<1>1. /\ client \in Text /\ leading = <<>> /\ wire \in Text /\ origin \in Response
      /\ pc = "body"
      /\ UNCHANGED <<dsn, use, pc, ending, line, reply, payload, origin, head, status, framing, leading>>
      /\ Clear /\ ~ origin.interim => Begins(client \o leading \o wire, origin.body)
  BY DEF RelayInv, RelayTypes, InBody, ReadBody
<1>2. PICK k \in 1 .. Len(wire) : Encoded(SubSeq(wire, 1, k)) /\ wire' = Rest(k)
  BY DEF ReadBody
<1>3. k \in 0 .. Len(wire)
  BY <1>1, LenProperties DEF Text
<1>4. /\ SubSeq(wire, 1, k) \in Text /\ wire' \in Text
      /\ (client \o SubSeq(wire, 1, k)) \o wire' = client \o wire
  BY <1>1, <1>2, <1>3, Front, ReadShape
<1>5. /\ client' \in Text
      /\ Begins((client \o SubSeq(wire, 1, k)) \o wire', origin.body) => client' = client \o SubSeq(wire, 1, k)
  BY <1>1, <1>2, <1>4, EncodedShape
<1>6. client' \o <<>> = client' /\ client \o <<>> = client
  BY <1>1, <1>5, ConcatEmptySeq DEF Text
<1>7. Clear /\ ~ origin.interim => Begins(client' \o leading' \o wire', origin.body)
  BY <1>1, <1>4, <1>5, <1>6
<1>8. QED
  BY <1>1, <1>4, <1>5, <1>7, Constants, BodyGoesOn

LEMMA BodyEndsKeepsInv ==
  ASSUME RelayInv, BodyEnds, UNCHANGED <<dsn, use>>
  PROVE  RelayInv'
<1>1. /\ RelayTypes /\ RelayTypeOK /\ pc = "body" /\ use # "connect" /\ framing # "none"
      /\ leading = <<>> /\ client \in Text /\ wire \in Text /\ origin \in Response
      /\ UNCHANGED <<dsn, use, wire, ending, line, reply, payload,
                     origin, head, status, framing, leading, client>>
      /\ Clear => /\ ~ origin.interim /\ status = origin.status
                  /\ Begins(client \o leading \o wire, origin.body)
  BY DEF RelayInv, RelayTypes, InBody, BodyEnds, Stop, relayVars
<1>2. \/ AllSent /\ pc' = "done"
      \/ pc' = "aborted"
      \/ framing # "len" /\ pc' = "done"
  BY DEF BodyEnds, Stop
<1>3. AllSent /\ Clear => client = origin.body
  <2>1. HAVE AllSent /\ Clear
  <2>2. client \o <<>> = client /\ origin.body \in Text
    BY <1>1, ConcatEmptySeq, ResponseTypes DEF Text
  <2>3. Begins(client \o wire, origin.body)
    BY <1>1, <2>1, <2>2
  <2>4. Begins(client, origin.body)
    BY <1>1, <2>2, <2>3, FirstPart
  <2>5. Len(origin.body) <= Len(client)
    <3>1. Len(origin.body) \in Nat /\ Len(client) = Len(origin.body)
      BY <1>1, <2>1, ResponseTypes DEF AllSent
    <3>2. QED
      BY <3>1
  <2>6. QED
    BY <1>1, <2>2, <2>4, <2>5, Same
<1>4. RelayTypeOK' /\ RelayTypes'
  BY <1>1, <1>2 DEF RelayTypeOK, RelayTypes
<1>5. Clear' = Clear
  BY <1>1 DEF Clear, Aligned
<1>6. SetUp' /\ Open' /\ InHeaders'
  BY <1>1, <1>2 DEF SetUp, Open, InHeaders, Early
<1>7. InBody'
  BY <1>1, <1>2, <1>3, <1>5 DEF InBody
<1>8. QED
  BY <1>4, <1>6, <1>7 DEF RelayInv

LEMMA PeerStopsKeepsInv ==
  ASSUME RelayInv, PeerStops, UNCHANGED <<dsn, use>>
  PROVE  RelayInv'
<1>1. /\ RelayTypes /\ RelayTypeOK /\ SetUp /\ Open /\ InHeaders /\ InBody /\ pc # "connect"
      /\ ending' \in Endings
      /\ UNCHANGED <<dsn, use, pc, wire, line, reply, payload,
                     origin, head, status, framing, leading, client>>
  BY DEF RelayInv, PeerStops, relayVars
<1>2. RelayTypeOK' /\ RelayTypes'
  BY <1>1 DEF RelayTypeOK, RelayTypes
<1>3. SetUp'
  BY <1>1 DEF SetUp, Early, Answered
<1>4. Open' /\ InHeaders' /\ InBody'
  BY <1>1 DEF Open, InHeaders, InBody, Clear, Aligned
<1>5. QED
  BY <1>2, <1>3, <1>4 DEF RelayInv

-----------------------------------------------------------------------------
(* Every step, and the theorems.                                           *)

LEMMA RelayStep ==
  ASSUME RelayInv, [Next]_vars
  PROVE  RelayInv'
<1>1. CASE TunnelStep /\ UNCHANGED relayVars
  <2>1. UNCHANGED <<dsn, use, relayVars>>
    BY <1>1 DEF TunnelStep
  <2>2. CASE ConnectFailed \/ ConnectDirect \/ ConnectHttp \/ ConnectSocks
    BY <2>1, <2>2, ConnectFailedKeepsInv, ConnectDirectKeepsInv, ConnectHttpKeepsInv, ConnectSocksKeepsInv
  <2>3. CASE ReadStatus \/ StatusEnds
    BY <2>1, <2>3, ReadStatusKeepsInv, StatusEndsKeepsInv
  <2>4. CASE ReadMethod \/ ReadAuth \/ ReadReply \/ ReadFails
    BY <2>1, <2>4, ReadMethodKeepsInv, ReadAuthKeepsInv, ReadReplyKeepsInv, ReadFailsKeepsInv
  <2>5. QED
    BY <1>1, <2>2, <2>3, <2>4 DEF TunnelStep
<1>2. ASSUME UNCHANGED <<dsn, use>>,
             CopyToClient \/ CopyEnds \/ TlsHandshake \/ WriteRequest \/ WriteFails
      PROVE  RelayInv'
  BY <1>2, CopyToClientKeepsInv, CopyEndsKeepsInv, TlsHandshakeKeepsInv, WriteRequestKeepsInv,
     WriteFailsKeepsInv
<1>3. ASSUME UNCHANGED <<dsn, use>>,
             ReadHead \/ HeadEnds \/ HeadFails \/ EmitLeading \/ ReadBody \/ BodyEnds \/ PeerStops
      PROVE  RelayInv'
  BY <1>3, ReadHeadKeepsInv, HeadStopsKeepsInv, EmitLeadingKeepsInv, ReadBodyKeepsInv,
     BodyEndsKeepsInv, PeerStopsKeepsInv
<1>4. CASE UNCHANGED vars
  <2>1. UNCHANGED <<dsn, use, pc, wire, ending, line, reply, payload,
                    origin, head, status, framing, leading, client>>
    BY <1>4 DEF vars, tunnelVars, relayVars
  <2>2. RelayTypeOK' /\ RelayTypes'
    BY <2>1 DEF RelayInv, RelayTypeOK, RelayTypes
  <2>3. SetUp'
    BY <2>1 DEF RelayInv, SetUp, Early, Answered
  <2>4. Open' /\ InHeaders' /\ InBody'
    BY <2>1 DEF RelayInv, Open, InHeaders, InBody, Clear, Aligned
  <2>5. QED
    BY <2>2, <2>3, <2>4 DEF RelayInv
<1>5. QED
  BY <1>1, <1>2, <1>3, <1>4 DEF Next

LEMMA RelayInvariance == Spec => []RelayInv
BY InitRelayInv, RelayStep, PTL DEF Spec

\* The types, and the bounds on what is buffered of a status line and of
\* headers, for any limits, read sizes, answers and cuts (proxy.rs:169-181,
\* 600-614).
THEOREM RelayTypesAlways == Spec => []RelayTypeOK
<1>1. RelayInv => RelayTypeOK
  BY DEF RelayInv
<1>2. QED
  BY <1>1, RelayInvariance, PTL

\* Whatever a proxy answers and however TCP cuts it, a client of CONNECT gets
\* the target's bytes exactly, if the set-up took the whole answer and no more
\* (establish_*, proxy.rs:404-406).
THEOREM TunnelIsExactAlways == Spec => []TunnelIsExact
<1>1. RelayInv => TunnelIsExact
  BY DEF RelayInv, Open, TunnelIsExact
<1>2. QED
  BY <1>1, RelayInvariance, PTL

\* For any response with any headers and any body, separators in it included,
\* the client gets its status and a prefix of its body (proxy.rs:601-657,
\* 72-92).
THEOREM ResponseIsFaithfulAlways == Spec => []ResponseIsFaithful
<1>1. ASSUME RelayInv
      PROVE  ResponseIsFaithful
  <2>1. SUFFICES ASSUME pc \in {"body", "done", "aborted"}, use # "connect",
                        Aligned \/ use = "https", ~ origin.interim
                 PROVE  status = origin.status /\ client \o leading \o wire \in Prefixes(origin.body)
    BY DEF ResponseIsFaithful
  <2>2. status = origin.status /\ Begins(client \o leading \o wire, origin.body)
    BY <1>1, <2>1 DEF RelayInv, InBody, Clear
  <2>3. client \o leading \in Text /\ wire \in Text /\ origin.body \in Text
    BY <1>1, Joined, ResponseTypes DEF RelayInv, RelayTypes
  <2>4. (client \o leading) \o wire \in Text
    BY <2>3, Joined
  <2>5. QED
    BY <2>2, <2>3, <2>4, PrefixesBegin
<1>2. QED
  BY <1>1, RelayInvariance, PTL

\* No cut makes a response of announced length end well with a part missing
\* (proxy.rs:78-87).
THEOREM CutIsNotCompleteAlways == Spec => []CutIsNotComplete
<1>1. RelayInv => CutIsNotComplete
  BY DEF RelayInv, Open, InBody, Clear, CutIsNotComplete
<1>2. QED
  BY <1>1, RelayInvariance, PTL
=============================================================================

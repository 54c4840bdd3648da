------------------------- MODULE HttpRequest_proofs -------------------------
(***************************************************************************)
(* Theorems about HttpRequest, for any texts, any bounds, any limits and   *)
(* any way the reads cut what the client sends.                            *)
(***************************************************************************)
EXTENDS HttpRequest, SequenceTheorems, FiniteSetTheorems,
        WellFoundedInduction, TLAPS

----------------------------------------------------------------------------
(* The inductive invariant.  A parser that has not refused waits for the   *)
(* end of the first line, or has taken the first k > 0 lines of the head   *)
States == {"kExpectRequestLine", "kExpectHeaders", "kExpectBody", "kGotAll"}

Names == {"connection", "content-length", "host"}

HeaderMaps == UNION {[K -> ValidHeaders] : K \in SUBSET Names}

Parsers ==
  [state : States, buf : Seq(Tokens), version : Texts \cup {""},
   headers : HeaderMaps, body : Seq(Tokens), contentLength : Nat, ok : BOOLEAN]

LastWith(p, k, key) ==
  \E i \in 2 .. k :
    /\ Key(lines[i]) = key
    /\ p.headers[key] = lines[i]
    /\ \A j \in i + 1 .. k : Key(lines[j]) # key

Taken(p, k) ==
  /\ k > 0 => lines[1] \in RequestLines /\ p.version = lines[1]
  /\ \A i \in 2 .. k : lines[i] \in ValidHeaders /\ Key(lines[i]) \in DOMAIN p.headers
  /\ \A key \in DOMAIN p.headers : LastWith(p, k, key)
  /\ Cardinality(DOMAIN p.headers) <= kMaxHeaderCount
  /\ p.contentLength = IF "content-length" \in DOMAIN p.headers
                       THEN LengthOf[p.headers["content-length"]] ELSE 0

(* and, of the m tokens of the request it was given, what it has not used  *)
(* is in the buffer.                                                       *)
Left(p, k, m) ==
  /\ 3 * k <= m
  /\ k > 0
  /\ p.state # "kExpectRequestLine"
  /\ p.state # "kGotAll" => p.body = <<>>
  /\ p.state = "kExpectHeaders" => p.buf = SubSeq(Sent, 3 * k + 1, m)
  /\ p.state \in {"kExpectBody", "kGotAll"} =>
       headEnded /\ k = Len(lines) /\ 3 * k + 2 <= m
  /\ p.state = "kExpectBody" =>
       p.contentLength > 0 /\ p.buf = SubSeq(Sent, 3 * k + 3, m)
  /\ p.state = "kGotAll" =>
       /\ 3 * k + 2 + p.contentLength <= m
       /\ p.body = SubSeq(Sent, 3 * k + 3, 3 * k + 2 + p.contentLength)
       /\ p.buf = SubSeq(Sent, 3 * k + 3 + p.contentLength, m)

Parsed(p, m) == p.ok => \E k \in 0 .. Len(lines) : Taken(p, k) /\ Left(p, k, m)

(* Of the first t tokens of the stream, how many are of the request.       *)
Share(t) == IF t < Len(stray) THEN 0 ELSE t - Len(stray)

Waiting(p, t) ==
  /\ p.state = "kExpectRequestLine"
  /\ Taken(p, 0)
  /\ p.body = <<>>
  /\ p.buf = SubSeq(Stream, 1, t)

Progress(p, t) ==
  p.ok => \/ Waiting(p, t)
          \/ Len(stray) <= t /\ LineEnds(stray) = {} /\ Parsed(p, Share(t))

(* What makes parse() return: another turn would change nothing.           *)
Stopped(p) ==
  \/ ~p.ok
  \/ p.state = "kGotAll"
  \/ p.state = "kExpectBody" /\ Len(p.buf) < p.contentLength
  \/ p.state \in {"kExpectRequestLine", "kExpectHeaders"} /\ LineEnds(p.buf) = {}

(* Malformed, of the first m tokens of the request, and of the first t of  *)
(* the stream.                                                             *)
KeysOf(m) == {Key(lines[i]) : i \in {j \in 2 .. Len(lines) : 3 * j <= m}}

MalformedIn(m) ==
  \/ lines # <<>> /\ 3 <= m /\ lines[1] \notin RequestLines
  \/ \E i \in 2 .. Len(lines) : 3 * i <= m /\ lines[i] \notin ValidHeaders
  \/ Cardinality(KeysOf(m)) > kMaxHeaderCount
  \/ headEnded /\ lines = <<>> /\ 2 <= m

StrayLine(t) == \E i \in LineEnds(stray) : i + 1 <= t

Refusable(t) == StrayLine(t) \/ MalformedIn(Share(t))

ClientInv ==
  /\ stray \in Seq({"cr", "lf"})
  /\ lines \in Seq(Texts)
  /\ headEnded \in BOOLEAN
  /\ payload \in Seq({"cr", "lf"})
  /\ nread \in 0 .. Len(Stream)
  /\ ~headEnded => payload = <<>>

RequestInv ==
  /\ ClientInv
  /\ request \in Parsers
  /\ Len(request.buf) <= kMaxRequestSize
  /\ Progress(request, nread)
  /\ Stopped(request)
  /\ request.ok \/ Refusable(nread) \/ nread > kMaxRequestSize

----------------------------------------------------------------------------
(* A set of numbers has a least one; induction over the turns of the loop, *)
(* as a fact about sets.                                                   *)
LEMMA LeastExists ==
  ASSUME NEW S, S \subseteq Nat, S # {}
  PROVE  \E x \in S : \A y \in S : x <= y
<1> DEFINE less == OpToRel(<, Nat)
<1>1. \A x, y \in Nat : x < y => <<x, y>> \in less
  BY DEF OpToRel
<1>2. IsWellFoundedOn(less, Nat)
  BY NatLessThanWellFounded
<1>3. \E x \in S : \A y \in S : ~(<<y, x>> \in less)
  <2> HIDE DEF less
  <2> QED
    BY <1>2, WFMin
<1> HIDE DEF less
<1>4. PICK x \in S : \A y \in S : ~(y < x)
  BY <1>1, <1>3
<1>5. \A y \in S : x \in Nat /\ y \in Nat
  OBVIOUS
<1>6. \A y \in S : x <= y
  BY <1>4, <1>5
<1>7. QED
  BY <1>6

LEMMA SetInduction ==
  ASSUME NEW T, 0 \in T, \A n \in Nat : n \in T => n + 1 \in T
  PROVE  Nat \subseteq T
<1> DEFINE out == Nat \ T
<1> SUFFICES ASSUME out # {}
             PROVE  FALSE
  OBVIOUS
<1>1. out \subseteq Nat
  OBVIOUS
<1>2. \E x \in out : \A y \in out : x <= y
  <2> HIDE DEF out
  <2> QED
    BY <1>1, LeastExists
<1>3. PICK x \in out : \A y \in out : x <= y
  BY <1>2
<1>4. x # 0 /\ x - 1 \in Nat /\ ~(x <= x - 1) /\ (x - 1) + 1 = x
  OBVIOUS
<1>5. QED
  BY <1>3, <1>4

(* The recursive function of ParseLoop exists: its restriction to 0 .. n   *)
(* does, for every n, and no two of these restrictions differ.             *)
UpTo(p, n, g) ==
  /\ DOMAIN g = 0 .. n
  /\ g[0] = p
  /\ \A i \in 0 .. n - 1 : g[i + 1] = Turn(g[i])

LEMMA UpToAgree ==
  ASSUME NEW p, NEW n \in Nat, NEW m \in Nat, NEW g, NEW h,
         UpTo(p, n, g), UpTo(p, m, h), n <= m
  PROVE  \A i \in 0 .. n : g[i] = h[i]
<1> DEFINE T == {i \in Nat : i <= n => g[i] = h[i]}
<1>1. 0 \in T
  BY DEF UpTo
<1>2. \A i \in Nat : i \in T => i + 1 \in T
  <2> SUFFICES ASSUME NEW i \in Nat, i \in T, i + 1 <= n
               PROVE  g[i + 1] = h[i + 1]
    OBVIOUS
  <2>1. i \in 0 .. n - 1 /\ i \in 0 .. m - 1 /\ g[i] = h[i]
    OBVIOUS
  <2>2. g[i + 1] = Turn(g[i]) /\ h[i + 1] = Turn(h[i])
    BY <2>1 DEF UpTo
  <2>3. QED
    BY <2>1, <2>2
<1>3. Nat \subseteq T
  <2> HIDE DEF T
  <2> QED
    BY <1>1, <1>2, SetInduction
<1>4. QED
  BY <1>3

LEMMA UpToExists ==
  ASSUME NEW p
  PROVE  \A n \in Nat : \E g : UpTo(p, n, g)
<1> DEFINE T == {n \in Nat : \E g : UpTo(p, n, g)}
<1>1. 0 \in T
  <2>1. UpTo(p, 0, [i \in 0 .. 0 |-> p])
    BY DEF UpTo
  <2>2. QED
    BY <2>1
<1>2. \A n \in Nat : n \in T => n + 1 \in T
  <2> SUFFICES ASSUME NEW n \in Nat, n \in T
               PROVE  \E g : UpTo(p, n + 1, g)
    OBVIOUS
  <2>1. PICK g : UpTo(p, n, g)
    OBVIOUS
  <2> DEFINE h == [i \in 0 .. n + 1 |-> IF i <= n THEN g[i] ELSE Turn(g[n])]
  <2>2. DOMAIN h = 0 .. n + 1 /\ h[0] = p
    BY <2>1 DEF UpTo
  <2>3. ASSUME NEW i \in 0 .. n
        PROVE  h[i + 1] = Turn(h[i])
    <3>1. h[i] = g[i]
      OBVIOUS
    <3>2. CASE i = n
      BY <3>1, <3>2
    <3>3. CASE i < n
      <4>1. g[i + 1] = Turn(g[i])
        BY <2>1, <3>3 DEF UpTo
      <4>2. h[i + 1] = g[i + 1]
        BY <3>3
      <4>3. QED
        BY <3>1, <4>1, <4>2
    <3>4. QED
      BY <3>2, <3>3
  <2>4. UpTo(p, n + 1, h)
    <3>1. (n + 1) - 1 = n
      OBVIOUS
    <3> HIDE DEF h
    <3>2. QED
      BY <2>2, <2>3, <3>1 DEF UpTo
  <2>5. QED
    BY <2>4
<1>3. Nat \subseteq T
  <2> HIDE DEF T
  <2> QED
    BY <1>1, <1>2, SetInduction
<1>4. QED
  BY <1>3

LEMMA LoopTurns ==
  ASSUME NEW p, Len(p.buf) \in Nat
  PROVE  \E after : /\ ParseLoop(p) = after[Len(p.buf)]
                    /\ after[0] = p
                    /\ \A n \in Nat : after[n + 1] = Turn(after[n])
<1> DEFINE IsLoop(f) == f = [n \in Nat |-> IF n = 0 THEN p ELSE Turn(f[n - 1])]
           part(n) == CHOOSE g : UpTo(p, n, g)
           all == [n \in Nat |-> part(n)[n]]
<1>1. \A n \in Nat : UpTo(p, n, part(n))
  BY UpToExists
<1>2. ASSUME NEW n \in Nat, n # 0
      PROVE  all[n] = Turn(all[n - 1])
  <2>1. n - 1 \in Nat /\ n - 1 <= n /\ n - 1 \in 0 .. n - 1 /\ (n - 1) + 1 = n
    BY <1>2
  <2>2. all[n] = part(n)[n] /\ all[n - 1] = part(n - 1)[n - 1]
    BY <2>1
  <2>3. UpTo(p, n, part(n)) /\ UpTo(p, n - 1, part(n - 1))
    BY <1>1, <2>1
  <2> HIDE DEF part, all
  <2>4. part(n - 1)[n - 1] = part(n)[n - 1]
    BY <2>1, <2>3, UpToAgree
  <2>5. part(n)[n] = Turn(part(n)[n - 1])
    BY <2>1, <2>3 DEF UpTo
  <2>6. QED
    BY <2>2, <2>4, <2>5
<1>3. all[0] = p
  BY <1>1 DEF UpTo
<1>4. IsLoop(all)
  <2>1. \A n \in Nat : all[n] = IF n = 0 THEN p ELSE Turn(all[n - 1])
    <3> HIDE DEF all
    <3> QED
      BY <1>2, <1>3
  <2>2. all = [n \in Nat |-> all[n]]
    OBVIOUS
  <2> HIDE DEF all
  <2>3. QED
    BY <2>1, <2>2
<1> DEFINE after == CHOOSE f : IsLoop(f)
<1>5. IsLoop(after)
  <2> HIDE DEF all
  <2> QED
    BY <1>4
<1>6. ParseLoop(p) = after[Len(p.buf)]
  BY DEF ParseLoop
<1> HIDE DEF after
<1>7. after[0] = p
  BY <1>5
<1>8. \A n \in Nat : after[n + 1] = Turn(after[n])
  BY <1>5
<1>9. QED
  BY <1>6, <1>7, <1>8

----------------------------------------------------------------------------
(* Texts, keys and tokens.                                                 *)
LEMMA TextFacts ==
  /\ "cr" \notin Texts /\ "lf" \notin Texts
  /\ Texts \subseteq Tokens /\ {"cr", "lf"} \subseteq Tokens
  /\ "" \notin RequestLines
BY TextAssumption DEF RequestLines, ValidHeaders, LengthOf, Tokens

LEMMA KeyFacts ==
  /\ \A t \in ValidHeaders : Key(t) \in Names
  /\ \A t \in ValidHeaders : Key(t) = "content-length" <=> t \in DOMAIN LengthOf
  /\ \A t \in DOMAIN LengthOf : t \in ValidHeaders /\ LengthOf[t] \in Nat
  /\ "length0" \in DOMAIN LengthOf /\ LengthOf["length0"] = 0
BY DEF Key, Names, ValidHeaders, LengthOf

(* There are finitely many keys, so the count of a part of them is at most *)
(* the count of all.                                                       *)
LEMMA KeysAreFinite ==
  ASSUME NEW K, K \subseteq {Key(t) : t \in Texts}
  PROVE  IsFiniteSet(K) /\ Cardinality(K) \in Nat
<1> DEFINE A0 == {"connection"}
           A1 == A0 \cup {"content-length"}
           A2 == A1 \cup {"host"}
           A3 == A2 \cup {"garbage"}
           A4 == A3 \cup {"HTTP/1.1"}
           A5 == A4 \cup {"HTTP/1.0"}
<1>1. K \subseteq A5
  BY TextAssumption DEF Key, RequestLines, ValidHeaders, LengthOf
<1>2. IsFiniteSet(A0)
  <2>1. IsFiniteSet({} \cup {"connection"})
    BY FS_EmptySet, FS_AddElement
  <2>2. {} \cup {"connection"} = A0
    OBVIOUS
  <2>3. QED
    BY <2>1, <2>2
<1> HIDE DEF A0
<1>3. IsFiniteSet(A1)
  BY <1>2, FS_AddElement
<1> HIDE DEF A1
<1>4. IsFiniteSet(A2)
  BY <1>3, FS_AddElement
<1> HIDE DEF A2
<1>5. IsFiniteSet(A3)
  BY <1>4, FS_AddElement
<1> HIDE DEF A3
<1>6. IsFiniteSet(A4)
  BY <1>5, FS_AddElement
<1> HIDE DEF A4
<1>7. IsFiniteSet(A5)
  BY <1>6, FS_AddElement
<1> HIDE DEF A5
<1>8. QED
  BY <1>1, <1>7, FS_Subset, FS_CardinalityType

(* What is sent, token by token.                                           *)
Shape(l, e, q, S) ==
  /\ S \in Seq(Tokens)
  /\ Len(S) = 3 * Len(l) + (IF e THEN 2 ELSE 0) + Len(q)
  /\ \A i \in 1 .. Len(l) : /\ S[3 * i - 2] = l[i]
                            /\ S[3 * i - 1] = "cr"
                            /\ S[3 * i] = "lf"
  /\ e => S[3 * Len(l) + 1] = "cr" /\ S[3 * Len(l) + 2] = "lf"
  /\ e => \A i \in 1 .. Len(q) : S[3 * Len(l) + 2 + i] = q[i]

LEMMA StreamOfShape ==
  ASSUME NEW l \in Seq(Texts), NEW e \in BOOLEAN, NEW q \in Seq({"cr", "lf"}),
         NEW S, S = StreamOf(l, e, q)
  PROVE  Shape(l, e, q, S)
<1> DEFINE N == Len(l)
           tok(i) == CASE i % 3 = 1 -> l[(i + 2) \div 3]
                       [] i % 3 = 2 -> "cr"
                       [] OTHER -> "lf"
           head == [i \in 1 .. 3 * N |-> tok(i)]
           end == IF e THEN <<"cr", "lf">> ELSE <<>>
<1>1. N \in Nat /\ 3 * N \in Nat /\ \A i \in 1 .. N : l[i] \in Texts
  OBVIOUS
<1>2. \A i \in 1 .. 3 * N : tok(i) \in Tokens
  <2> SUFFICES ASSUME NEW i \in 1 .. 3 * N
               PROVE  tok(i) \in Tokens
    OBVIOUS
  <2>1. CASE i % 3 = 1
    <3>1. (i + 2) \div 3 \in 1 .. N
      BY <1>1, <2>1
    <3>2. QED
      BY <1>1, <2>1, <3>1, TextFacts
  <2>2. CASE i % 3 # 1
    BY <2>2, TextFacts
  <2>3. QED
    BY <2>1, <2>2
<1>3. head \in Seq(Tokens) /\ Len(head) = 3 * N
  <2> HIDE DEF tok
  <2>1. QED
    BY <1>1, <1>2
<1>4. end \in Seq(Tokens) /\ Len(end) = IF e THEN 2 ELSE 0
  <2>1. <<"cr", "lf">> \in Seq(Tokens) /\ Len(<<"cr", "lf">>) = 2
    <3>1. "cr" \in Tokens /\ "lf" \in Tokens
      BY TextFacts
    <3>2. QED
      BY <3>1
  <2>2. <<>> \in Seq(Tokens) /\ Len(<<>>) = 0
    OBVIOUS
  <2>3. CASE e
    BY <2>1, <2>3
  <2>4. CASE ~e
    BY <2>2, <2>4
  <2>5. QED
    BY <2>3, <2>4
<1>5. q \in Seq(Tokens)
  BY TextFacts, SeqMonotonic
<1>6. S = (head \o end) \o q
  BY DEF StreamOf
<1>7. ASSUME NEW i \in 1 .. N
      PROVE  head[3 * i - 2] = l[i] /\ head[3 * i - 1] = "cr" /\ head[3 * i] = "lf"
  <2>1. /\ 3 * i - 2 \in 1 .. 3 * N /\ 3 * i - 1 \in 1 .. 3 * N /\ 3 * i \in 1 .. 3 * N
        /\ (3 * i - 2) % 3 = 1 /\ ((3 * i - 2) + 2) \div 3 = i
        /\ (3 * i - 1) % 3 = 2 /\ (3 * i) % 3 = 0
    BY <1>1
  <2>2. \A j \in 1 .. 3 * N : head[j] = tok(j)
    <3> HIDE DEF tok
    <3> QED
      OBVIOUS
  <2>3. /\ \A j \in 1 .. 3 * N : j % 3 = 1 => tok(j) = l[(j + 2) \div 3]
        /\ \A j \in 1 .. 3 * N : j % 3 = 2 => tok(j) = "cr"
        /\ \A j \in 1 .. 3 * N : j % 3 = 0 => tok(j) = "lf"
    <3> HIDE DEF N
    <3> QED
      OBVIOUS
  <2> HIDE DEF tok, head
  <2>4. QED
    BY <2>1, <2>2, <2>3
<1>8. e => end[1] = "cr" /\ end[2] = "lf"
  OBVIOUS
<1> HIDE DEF head, end
<1>9. /\ S \in Seq(Tokens)
      /\ Len(S) = 3 * N + Len(end) + Len(q)
      /\ \A i \in 1 .. 3 * N : S[i] = head[i]
      /\ \A i \in 1 .. Len(end) : S[3 * N + i] = end[i]
      /\ \A i \in 1 .. Len(q) : S[3 * N + Len(end) + i] = q[i]
  <2> HIDE DEF N
  <2>1. PICK s, t, u : s = head /\ t = end /\ u = q
    OBVIOUS
  <2>2. s \in Seq(Tokens) /\ t \in Seq(Tokens) /\ u \in Seq(Tokens)
    BY <1>3, <1>4, <1>5, <2>1
  <2>3. /\ (s \o t) \o u \in Seq(Tokens)
        /\ Len((s \o t) \o u) = Len(s) + Len(t) + Len(u)
        /\ \A i \in 1 .. Len(s) : ((s \o t) \o u)[i] = s[i]
        /\ \A i \in 1 .. Len(t) : ((s \o t) \o u)[Len(s) + i] = t[i]
        /\ \A i \in 1 .. Len(u) : ((s \o t) \o u)[Len(s) + Len(t) + i] = u[i]
    BY <2>2
  <2>4. S = (s \o t) \o u
    BY <1>6, <2>1
  <2>5. QED
    BY <1>3, <2>1, <2>3, <2>4
<1>10. ASSUME NEW i \in 1 .. N
       PROVE  S[3 * i - 2] = l[i] /\ S[3 * i - 1] = "cr" /\ S[3 * i] = "lf"
  <2>1. 3 * i - 2 \in 1 .. 3 * N /\ 3 * i - 1 \in 1 .. 3 * N /\ 3 * i \in 1 .. 3 * N
    BY <1>1
  <2>2. QED
    BY <1>7, <1>9, <2>1
<1>11. ASSUME e
       PROVE  /\ S[3 * N + 1] = "cr" /\ S[3 * N + 2] = "lf"
              /\ \A i \in 1 .. Len(q) : S[3 * N + 2 + i] = q[i]
  <2> HIDE DEF N
  <2>1. Len(end) = 2 /\ 1 \in 1 .. 2 /\ 2 \in 1 .. 2
    BY <1>4, <1>11
  <2>2. QED
    BY <1>8, <1>9, <1>11, <2>1
<1>12. QED
  BY <1>4, <1>9, <1>10, <1>11 DEF Shape

(* A client that sends more changes nothing of what it has sent.           *)
Extends(T, S) ==
  /\ S \in Seq(Tokens) /\ T \in Seq(Tokens)
  /\ Len(S) <= Len(T)
  /\ \A i \in 1 .. Len(S) : T[i] = S[i]

LEMMA StreamOfGrows ==
  ASSUME NEW l \in Seq(Texts), NEW e \in BOOLEAN, NEW q \in Seq({"cr", "lf"}),
         NEW l2 \in Seq(Texts), NEW e2 \in BOOLEAN, NEW q2 \in Seq({"cr", "lf"}),
         ~e => q = <<>>, e => e2 /\ l2 = l,
         Len(l) <= Len(l2), \A i \in 1 .. Len(l) : l2[i] = l[i],
         Len(q) <= Len(q2), \A i \in 1 .. Len(q) : q2[i] = q[i]
  PROVE  Extends(StreamOf(l2, e2, q2), StreamOf(l, e, q))
<1>0. PICK S, S2 : S = StreamOf(l, e, q) /\ S2 = StreamOf(l2, e2, q2)
  OBVIOUS
<1>1. PICK N \in Nat : N = Len(l)
  OBVIOUS
<1>2. /\ S \in Seq(Tokens) /\ Len(S) = 3 * N + (IF e THEN 2 ELSE 0) + Len(q)
      /\ \A i \in 1 .. N : S[3 * i - 2] = l[i] /\ S[3 * i - 1] = "cr" /\ S[3 * i] = "lf"
      /\ e => S[3 * N + 1] = "cr" /\ S[3 * N + 2] = "lf"
      /\ e => \A i \in 1 .. Len(q) : S[3 * N + 2 + i] = q[i]
  <2>1. Shape(l, e, q, S)
    BY <1>0, StreamOfShape
  <2>2. QED
    BY <1>1, <2>1 DEF Shape
<1>3. PICK N2 \in Nat : N2 = Len(l2) /\ N <= N2
  BY <1>1
<1>4. /\ S2 \in Seq(Tokens) /\ Len(S2) = 3 * N2 + (IF e2 THEN 2 ELSE 0) + Len(q2)
      /\ \A i \in 1 .. N2 : S2[3 * i - 2] = l2[i] /\ S2[3 * i - 1] = "cr" /\ S2[3 * i] = "lf"
      /\ e2 => S2[3 * N2 + 1] = "cr" /\ S2[3 * N2 + 2] = "lf"
      /\ e2 => \A i \in 1 .. Len(q2) : S2[3 * N2 + 2 + i] = q2[i]
  <2>1. Shape(l2, e2, q2, S2)
    BY <1>0, StreamOfShape
  <2>2. QED
    BY <1>3, <2>1 DEF Shape
<1>5. Len(q) \in Nat /\ Len(q2) \in Nat /\ (e => N2 = N) /\ (~e => Len(q) = 0)
  BY <1>1, <1>3
<1>6. Len(S) <= Len(S2)
  BY <1>2, <1>3, <1>4, <1>5
<1>7. ASSUME NEW j \in 1 .. N
      PROVE  /\ S2[3 * j - 2] = S[3 * j - 2]
             /\ S2[3 * j - 1] = S[3 * j - 1]
             /\ S2[3 * j] = S[3 * j]
  <2>1. j \in 1 .. N2 /\ l2[j] = l[j]
    BY <1>1, <1>3
  <2>2. S[3 * j - 2] = l[j] /\ S[3 * j - 1] = "cr" /\ S[3 * j] = "lf"
    BY <1>2
  <2>3. S2[3 * j - 2] = l2[j] /\ S2[3 * j - 1] = "cr" /\ S2[3 * j] = "lf"
    BY <1>4, <2>1
  <2>4. QED
    BY <2>1, <2>2, <2>3
<1>8. ASSUME NEW i \in 1 .. 3 * N
      PROVE  S2[i] = S[i]
  <2>1. PICK j \in 1 .. N : i = 3 * j - 2 \/ i = 3 * j - 1 \/ i = 3 * j
    <3>1. (i + 2) \div 3 \in 1 .. N
      OBVIOUS
    <3>2. \/ i = 3 * ((i + 2) \div 3) - 2
          \/ i = 3 * ((i + 2) \div 3) - 1
          \/ i = 3 * ((i + 2) \div 3)
      OBVIOUS
    <3>3. QED
      BY <3>1, <3>2
  <2>2. QED
    BY <1>7, <2>1
<1>9. ASSUME NEW i \in 1 .. Len(S), ~(i <= 3 * N)
      PROVE  S2[i] = S[i]
  <2>1. e
    BY <1>2, <1>5, <1>9
  <2>2. e2 /\ N2 = N
    BY <1>5, <2>1
  <2>3. CASE i = 3 * N + 1 \/ i = 3 * N + 2
    <3>1. S[3 * N + 1] = "cr" /\ S[3 * N + 2] = "lf"
      BY <1>2, <2>1
    <3>2. S2[3 * N + 1] = "cr" /\ S2[3 * N + 2] = "lf"
      BY <1>4, <2>2
    <3>3. QED
      BY <2>3, <3>1, <3>2
  <2>4. CASE ~(i = 3 * N + 1 \/ i = 3 * N + 2)
    <3>1. PICK j \in 1 .. Len(q) : i = 3 * N + 2 + j
      <4>1. i - (3 * N + 2) \in 1 .. Len(q) /\ i = 3 * N + 2 + (i - (3 * N + 2))
        BY <1>2, <1>5, <1>9, <2>1, <2>4
      <4>2. QED
        BY <4>1
    <3>2. j \in 1 .. Len(q2) /\ q2[j] = q[j]
      BY <1>5
    <3>3. QED
      BY <1>2, <1>4, <2>1, <2>2, <3>1, <3>2
  <2>5. QED
    BY <2>3, <2>4
<1>10. \A i \in 1 .. Len(S) : S2[i] = S[i]
  <2> SUFFICES ASSUME NEW i \in 1 .. Len(S)
               PROVE  S2[i] = S[i]
    OBVIOUS
  <2>1. CASE i <= 3 * N
    <3>1. i \in 1 .. 3 * N
      BY <1>2, <2>1
    <3>2. QED
      BY <1>8, <3>1
  <2>2. QED
    BY <1>9, <2>1
<1>11. QED
  BY <1>0, <1>2, <1>4, <1>6, <1>10 DEF Extends

LEMMA SentShape ==
  ASSUME lines \in Seq(Texts), headEnded \in BOOLEAN,
         payload \in Seq({"cr", "lf"})
  PROVE  /\ Sent \in Seq(Tokens)
         /\ Len(Sent) = 3 * Len(lines) + (IF headEnded THEN 2 ELSE 0) + Len(payload)
         /\ \A i \in 1 .. Len(lines) : /\ Sent[3 * i - 2] = lines[i]
                                       /\ Sent[3 * i - 1] = "cr"
                                       /\ Sent[3 * i] = "lf"
         /\ headEnded => /\ Sent[3 * Len(lines) + 1] = "cr"
                         /\ Sent[3 * Len(lines) + 2] = "lf"
         /\ headEnded => \A i \in 1 .. Len(payload) :
                           Sent[3 * Len(lines) + 2 + i] = payload[i]
BY StreamOfShape DEF Sent, Shape

----------------------------------------------------------------------------
(* Cutting a sequence.                                                     *)
LEMMA CutIsSeq ==
  ASSUME NEW T, NEW s \in Seq(T), NEW a \in Nat \ {0}, NEW m \in Nat,
         m <= Len(s), a <= m + 1
  PROVE  /\ SubSeq(s, a, m) \in Seq(T)
         /\ Len(SubSeq(s, a, m)) = m - a + 1
         /\ \A i \in 1 .. m - a + 1 : SubSeq(s, a, m)[i] = s[a + i - 1]
<1>1. \A i \in a .. m : s[i] \in T
  OBVIOUS
<1>2. a \in Int /\ m \in Int
  OBVIOUS
<1>3. /\ SubSeq(s, a, m) \in Seq(T)
      /\ Len(SubSeq(s, a, m)) = IF a <= m THEN m - a + 1 ELSE 0
      /\ \A i \in 1 .. m - a + 1 : SubSeq(s, a, m)[i] = s[a + i - 1]
  BY <1>1, <1>2, SubSeqProperties
<1>4. QED
  BY <1>3

LEMMA CutOfCut ==
  ASSUME NEW T, NEW s \in Seq(T), NEW a \in Nat \ {0}, NEW m \in Nat,
         m <= Len(s), a <= m + 1,
         NEW b \in Nat \ {0}, NEW c \in Nat, c <= m - a + 1, b <= c + 1
  PROVE  SubSeq(SubSeq(s, a, m), b, c) = SubSeq(s, a + b - 1, a + c - 1)
<1> DEFINE u == SubSeq(s, a, m)
           v == SubSeq(u, b, c)
           w == SubSeq(s, a + b - 1, a + c - 1)
<1>1. u \in Seq(T) /\ Len(u) = m - a + 1 /\ \A i \in 1 .. m - a + 1 : u[i] = s[a + i - 1]
  BY CutIsSeq
<1> HIDE DEF u
<1>2. v \in Seq(T) /\ Len(v) = c - b + 1 /\ \A i \in 1 .. c - b + 1 : v[i] = u[b + i - 1]
  BY <1>1, CutIsSeq
<1>3. /\ w \in Seq(T) /\ Len(w) = (a + c - 1) - (a + b - 1) + 1
      /\ \A i \in 1 .. (a + c - 1) - (a + b - 1) + 1 : w[i] = s[(a + b - 1) + i - 1]
  <2>1. /\ a + b - 1 \in Nat \ {0} /\ a + c - 1 \in Nat
        /\ a + c - 1 <= Len(s) /\ a + b - 1 <= (a + c - 1) + 1
    OBVIOUS
  <2>2. QED
    BY <2>1, CutIsSeq
<1> HIDE DEF v, w
<1>4. Len(v) = Len(w)
  BY <1>2, <1>3
<1>5. \A i \in 1 .. Len(v) : v[i] = w[i]
  <2> SUFFICES ASSUME NEW i \in 1 .. Len(v)
               PROVE  v[i] = w[i]
    OBVIOUS
  <2>1. v[i] = u[b + i - 1] /\ b + i - 1 \in 1 .. m - a + 1
    BY <1>2
  <2>2. u[b + i - 1] = s[a + (b + i - 1) - 1] /\ w[i] = s[(a + b - 1) + i - 1]
    BY <1>1, <1>2, <1>3, <2>1
  <2>3. a + (b + i - 1) - 1 = (a + b - 1) + i - 1
    OBVIOUS
  <2>4. QED
    BY <2>1, <2>2, <2>3
<1>6. v = w
  BY <1>2, <1>3, <1>4, <1>5, SeqEqual
<1>7. QED
  BY <1>6 DEF u, v, w

LEMMA CutOfPrefix ==
  ASSUME NEW T, NEW s \in Seq(T), NEW m \in Nat, m <= Len(s),
         NEW b \in Nat \ {0}, b <= m + 1
  PROVE  SubSeq(SubSeq(s, 1, m), b, m) = SubSeq(s, b, m)
<1>1. PICK a \in Nat \ {0} : a = 1
  OBVIOUS
<1>2. a <= m + 1 /\ m <= m - a + 1 /\ a + b - 1 = b /\ a + m - 1 = m
  BY <1>1
<1>3. SubSeq(SubSeq(s, a, m), b, m) = SubSeq(s, a + b - 1, a + m - 1)
  BY <1>2, CutOfCut
<1>4. QED
  BY <1>1, <1>2, <1>3

LEMMA CutsJoin ==
  ASSUME NEW T, NEW s \in Seq(T), NEW a \in Nat \ {0}, NEW m \in Nat, NEW n \in Nat,
         a <= m + 1, m <= n, n <= Len(s)
  PROVE  SubSeq(s, a, m) \o SubSeq(s, m + 1, n) = SubSeq(s, a, n)
<1>1. a \in 1 .. Len(s) + 1 /\ m \in a - 1 .. Len(s) /\ n \in m .. Len(s)
  OBVIOUS
<1>2. QED
  BY <1>1, ConcatAdjacentSubSeq, Zenon

LEMMA CutOfLonger ==
  ASSUME NEW T, NEW s \in Seq(T), NEW t \in Seq(T), NEW a \in Nat \ {0}, NEW m \in Nat,
         m <= Len(s), a <= m + 1, Len(s) <= Len(t),
         \A i \in 1 .. Len(s) : t[i] = s[i]
  PROVE  SubSeq(t, a, m) = SubSeq(s, a, m)
<1> DEFINE v == SubSeq(s, a, m)
           w == SubSeq(t, a, m)
<1>1. v \in Seq(T) /\ Len(v) = m - a + 1 /\ \A i \in 1 .. m - a + 1 : v[i] = s[a + i - 1]
  BY CutIsSeq
<1>2. w \in Seq(T) /\ Len(w) = m - a + 1 /\ \A i \in 1 .. m - a + 1 : w[i] = t[a + i - 1]
  BY CutIsSeq
<1> HIDE DEF v, w
<1>3. \A i \in 1 .. m - a + 1 : a + i - 1 \in 1 .. Len(s)
  OBVIOUS
<1>4. \A i \in 1 .. Len(v) : v[i] = w[i]
  BY <1>1, <1>2, <1>3
<1>5. v = w
  BY <1>1, <1>2, <1>4, SeqEqual
<1>6. QED
  BY <1>5 DEF v, w

(* The ends of lines in a buffer that begins with line k + 1.              *)
LEMMA LinesInBuffer ==
  ASSUME lines \in Seq(Texts), headEnded \in BOOLEAN,
         payload \in Seq({"cr", "lf"}), ~headEnded => payload = <<>>,
         NEW k \in 0 .. Len(lines), NEW m \in Nat, m <= Len(Sent), 3 * k <= m,
         NEW buf, buf = SubSeq(Sent, 3 * k + 1, m)
  PROVE  /\ buf \in Seq(Tokens) /\ Len(buf) = m - 3 * k
         /\ k < Len(lines) /\ 3 * k + 3 <= m =>
              /\ 2 \in LineEnds(buf) /\ \A i \in LineEnds(buf) : 2 <= i
              /\ buf[1] = lines[k + 1]
         /\ k < Len(lines) /\ m < 3 * k + 3 => LineEnds(buf) = {}
         /\ k = Len(lines) /\ headEnded /\ 3 * k + 2 <= m => 1 \in LineEnds(buf)
         /\ k = Len(lines) /\ m < 3 * k + 2 => LineEnds(buf) = {}
         /\ k = Len(lines) /\ ~headEnded => LineEnds(buf) = {}
<1> DEFINE N == Len(lines)
<1>1. N \in Nat /\ 3 * k + 1 \in Nat \ {0} /\ 3 * k + 1 <= m + 1 /\ Len(payload) \in Nat
  OBVIOUS
<1>2. /\ Sent \in Seq(Tokens)
      /\ Len(Sent) = 3 * N + (IF headEnded THEN 2 ELSE 0) + Len(payload)
      /\ \A i \in 1 .. N : /\ Sent[3 * i - 2] = lines[i]
                           /\ Sent[3 * i - 1] = "cr"
                           /\ Sent[3 * i] = "lf"
      /\ headEnded => /\ Sent[3 * N + 1] = "cr"
                      /\ Sent[3 * N + 2] = "lf"
  BY SentShape
<1>3. buf \in Seq(Tokens) /\ Len(buf) = m - (3 * k + 1) + 1
      /\ \A i \in 1 .. m - (3 * k + 1) + 1 : buf[i] = Sent[(3 * k + 1) + i - 1]
  <2>1. PICK S \in Seq(Tokens) : S = Sent
    BY <1>2
  <2>2. PICK a \in Nat \ {0} : a = 3 * k + 1 /\ a <= m + 1
    BY <1>1
  <2>3. m <= Len(S) /\ buf = SubSeq(S, a, m)
    BY <2>1, <2>2
  <2>4. /\ buf \in Seq(Tokens) /\ Len(buf) = m - a + 1
        /\ \A i \in 1 .. m - a + 1 : buf[i] = S[a + i - 1]
    BY <2>2, <2>3, CutIsSeq
  <2>5. QED
    BY <2>1, <2>2, <2>4
<1>4. Len(buf) = m - 3 * k /\ \A i \in 1 .. m - 3 * k : buf[i] = Sent[3 * k + i]
  <2>1. m - (3 * k + 1) + 1 = m - 3 * k /\ \A i \in Nat : (3 * k + 1) + i - 1 = 3 * k + i
    OBVIOUS
  <2>2. QED
    BY <1>3, <2>1
<1>5. ASSUME k < N
      PROVE  Sent[3 * k + 1] = lines[k + 1] /\ Sent[3 * k + 2] = "cr" /\ Sent[3 * k + 3] = "lf"
  <2>1. /\ k + 1 \in 1 .. N
        /\ 3 * (k + 1) - 2 = 3 * k + 1 /\ 3 * (k + 1) - 1 = 3 * k + 2 /\ 3 * (k + 1) = 3 * k + 3
    BY <1>5
  <2>2. QED
    BY <1>2, <2>1
<1>6. k < N => lines[k + 1] # "cr"
  <2>1. k < N => lines[k + 1] \in Texts
    OBVIOUS
  <2>2. QED
    BY <2>1, TextFacts
<1>7. ASSUME k < N, 3 * k + 3 <= m
      PROVE  2 \in LineEnds(buf) /\ (\A i \in LineEnds(buf) : 2 <= i) /\ buf[1] = lines[k + 1]
  <2>1. buf[1] = lines[k + 1] /\ buf[2] = "cr" /\ buf[3] = "lf"
    BY <1>4, <1>5, <1>7
  <2>2. Len(buf) >= 3 /\ Len(buf) \in Nat
    BY <1>4, <1>7
  <2>3. QED
    BY <1>6, <1>7, <2>1, <2>2 DEF LineEnds
<1>8. ASSUME k < N, m < 3 * k + 3
      PROVE  LineEnds(buf) = {}
  <2>1. Len(buf) \in Nat /\ Len(buf) <= 2
    BY <1>4, <1>8
  <2>2. Len(buf) = 2 => buf[1] = lines[k + 1]
    BY <1>4, <1>5, <1>8
  <2>3. QED
    BY <1>6, <1>8, <2>1, <2>2 DEF LineEnds
<1>9. ASSUME k = N, headEnded, 3 * k + 2 <= m
      PROVE  1 \in LineEnds(buf)
  <2>1. buf[1] = "cr" /\ buf[2] = "lf"
    BY <1>2, <1>4, <1>9
  <2>2. Len(buf) >= 2 /\ Len(buf) \in Nat
    BY <1>4, <1>9
  <2>3. QED
    BY <2>1, <2>2 DEF LineEnds
<1>10. ASSUME k = N, m < 3 * k + 2
       PROVE  LineEnds(buf) = {}
  <2>1. Len(buf) \in Nat /\ Len(buf) <= 1
    BY <1>4, <1>10
  <2>2. QED
    BY <2>1 DEF LineEnds
<1>11. ASSUME k = N, ~headEnded
       PROVE  LineEnds(buf) = {}
  <2>1. payload = <<>> /\ Len(payload) = 0
    BY <1>11
  <2>2. Len(Sent) = 3 * N
    BY <1>1, <1>2, <1>11, <2>1
  <2>3. QED
    BY <1>10, <1>11, <2>2
<1>12. QED
  BY <1>3, <1>4, <1>7, <1>8, <1>9, <1>10, <1>11

----------------------------------------------------------------------------
(* What a turn takes off the buffer.                                       *)
LEMMA FirstEnd ==
  ASSUME NEW buf, buf \in Seq(Tokens), NEW e \in LineEnds(buf),
         \A i \in LineEnds(buf) : e <= i
  PROVE  /\ e = CHOOSE i \in LineEnds(buf) : \A j \in LineEnds(buf) : i <= j
         /\ e \in 1 .. Len(buf) - 1
<1>1. Len(buf) \in Nat
  OBVIOUS
<1>2. LineEnds(buf) \subseteq 1 .. Len(buf) - 1
  BY DEF LineEnds
<1>3. LineEnds(buf) \subseteq Int
  BY <1>1, <1>2
<1>4. \A i \in LineEnds(buf) : (\A j \in LineEnds(buf) : i <= j) => i = e
  BY <1>3
<1>5. QED
  BY <1>2, <1>4

FirstOf(buf) == CHOOSE i \in LineEnds(buf) : \A j \in LineEnds(buf) : i <= j

LEMMA LineCut ==
  ASSUME lines \in Seq(Texts), headEnded \in BOOLEAN,
         payload \in Seq({"cr", "lf"}), ~headEnded => payload = <<>>,
         NEW m \in Nat, m <= Len(Sent),
         NEW k \in 0 .. Len(lines), k < Len(lines), 3 * k <= m,
         NEW buf, buf = SubSeq(Sent, 3 * k + 1, m), LineEnds(buf) # {}
  PROVE  /\ 3 * (k + 1) <= m
         /\ FirstOf(buf) = 2
         /\ SubSeq(buf, 1, 1) = <<lines[k + 1]>>
         /\ SubSeq(buf, 4, Len(buf)) = SubSeq(Sent, 3 * (k + 1) + 1, m)
         /\ SubSeq(buf, 4, Len(buf)) \in Seq(Tokens)
         /\ Len(SubSeq(buf, 4, Len(buf))) < Len(buf)
<1>1. /\ buf \in Seq(Tokens) /\ Len(buf) = m - 3 * k /\ 3 * k + 3 <= m
      /\ 2 \in LineEnds(buf) /\ (\A i \in LineEnds(buf) : 2 <= i)
      /\ buf[1] = lines[k + 1]
  <2>1. ~(m < 3 * k + 3)
    BY LinesInBuffer
  <2>2. 3 * k + 3 <= m
    BY <2>1
  <2>3. QED
    BY <2>2, LinesInBuffer
<1>2. Sent \in Seq(Tokens) /\ Len(Sent) \in Nat
  BY SentShape
<1>3. SubSeq(buf, 4, Len(buf)) = SubSeq(Sent, 3 * (k + 1) + 1, m)
  <2>1. /\ 3 * k + 1 \in Nat \ {0} /\ 3 * k + 1 <= m + 1
        /\ 4 \in Nat \ {0} /\ m - 3 * k \in Nat
        /\ m - 3 * k <= m - (3 * k + 1) + 1 /\ 4 <= (m - 3 * k) + 1
    BY <1>1
  <2>2. SubSeq(SubSeq(Sent, 3 * k + 1, m), 4, m - 3 * k)
          = SubSeq(Sent, (3 * k + 1) + 4 - 1, (3 * k + 1) + (m - 3 * k) - 1)
    BY <1>2, <2>1, CutOfCut
  <2>3. (3 * k + 1) + 4 - 1 = 3 * (k + 1) + 1 /\ (3 * k + 1) + (m - 3 * k) - 1 = m
    OBVIOUS
  <2>4. QED
    BY <1>1, <2>2, <2>3
<1>4. /\ SubSeq(buf, 4, Len(buf)) \in Seq(Tokens)
      /\ Len(SubSeq(buf, 4, Len(buf))) = Len(buf) - 4 + 1
  <2>1. 4 \in Nat \ {0} /\ Len(buf) \in Nat /\ Len(buf) <= Len(buf) /\ 4 <= Len(buf) + 1
    BY <1>1
  <2>2. QED
    BY <1>1, <2>1, CutIsSeq
<1>5. SubSeq(buf, 1, 1) = <<lines[k + 1]>>
  <2>1. 1 \in Nat \ {0} /\ 1 <= Len(buf) /\ 1 <= 1 + 1
    BY <1>1
  <2>2. /\ SubSeq(buf, 1, 1) \in Seq(Tokens) /\ Len(SubSeq(buf, 1, 1)) = 1 - 1 + 1
        /\ \A i \in 1 .. 1 - 1 + 1 : SubSeq(buf, 1, 1)[i] = buf[1 + i - 1]
    BY <1>1, <2>1, CutIsSeq
  <2>3. Len(SubSeq(buf, 1, 1)) = 1 /\ SubSeq(buf, 1, 1)[1] = lines[k + 1]
    BY <1>1, <2>2
  <2>4. <<lines[k + 1]>> \in Seq(Tokens) /\ Len(<<lines[k + 1]>>) = 1
    BY <1>1
  <2> DEFINE v == SubSeq(buf, 1, 1)
             w == <<lines[k + 1]>>
  <2>5. w[1] = lines[k + 1] /\ v[1] = lines[k + 1] /\ Len(v) = 1
    BY <2>3
  <2> HIDE DEF v, w
  <2>6. \A i \in 1 .. Len(v) : v[i] = w[i]
    BY <2>5
  <2>7. v \in Seq(Tokens) /\ w \in Seq(Tokens) /\ Len(v) = Len(w)
    BY <2>2, <2>4, <2>5 DEF v, w
  <2>8. v = w
    BY <2>6, <2>7, SeqEqual
  <2>9. QED
    BY <2>8 DEF v, w
<1>6. FirstOf(buf) = 2
  BY <1>1, FirstEnd DEF FirstOf
<1>7. QED
  BY <1>1, <1>3, <1>4, <1>5, <1>6

LEMMA EmptyLineCut ==
  ASSUME lines \in Seq(Texts), headEnded \in BOOLEAN,
         payload \in Seq({"cr", "lf"}), ~headEnded => payload = <<>>,
         NEW m \in Nat, m <= Len(Sent),
         NEW k \in 0 .. Len(lines), k = Len(lines), 3 * k <= m,
         NEW buf, buf = SubSeq(Sent, 3 * k + 1, m), LineEnds(buf) # {}
  PROVE  /\ headEnded /\ 3 * k + 2 <= m
         /\ FirstOf(buf) = 1
         /\ SubSeq(buf, 1, 0) = <<>>
         /\ SubSeq(buf, 3, Len(buf)) = SubSeq(Sent, 3 * k + 3, m)
         /\ SubSeq(buf, 3, Len(buf)) \in Seq(Tokens)
         /\ Len(SubSeq(buf, 3, Len(buf))) < Len(buf)
<1>1. headEnded /\ 3 * k + 2 <= m
  <2>1. headEnded /\ ~(m < 3 * k + 2)
    BY LinesInBuffer
  <2>2. QED
    BY <2>1
<1>2. buf \in Seq(Tokens) /\ Len(buf) = m - 3 * k /\ 1 \in LineEnds(buf)
  <2>1. buf \in Seq(Tokens) /\ Len(buf) = m - 3 * k
    BY LinesInBuffer
  <2>2. k = Len(lines) /\ headEnded /\ 3 * k + 2 <= m => 1 \in LineEnds(buf)
    BY LinesInBuffer
  <2>3. QED
    BY <1>1, <2>1, <2>2
<1>3. Sent \in Seq(Tokens) /\ Len(Sent) \in Nat
  BY SentShape
<1>4. SubSeq(buf, 3, Len(buf)) = SubSeq(Sent, 3 * k + 3, m)
  <2>1. /\ 3 * k + 1 \in Nat \ {0} /\ 3 * k + 1 <= m + 1
        /\ 3 \in Nat \ {0} /\ m - 3 * k \in Nat
        /\ m - 3 * k <= m - (3 * k + 1) + 1 /\ 3 <= (m - 3 * k) + 1
    BY <1>1
  <2>2. SubSeq(SubSeq(Sent, 3 * k + 1, m), 3, m - 3 * k)
          = SubSeq(Sent, (3 * k + 1) + 3 - 1, (3 * k + 1) + (m - 3 * k) - 1)
    BY <1>3, <2>1, CutOfCut
  <2>3. (3 * k + 1) + 3 - 1 = 3 * k + 3 /\ (3 * k + 1) + (m - 3 * k) - 1 = m
    OBVIOUS
  <2>4. QED
    BY <1>2, <2>2, <2>3
<1>5. /\ SubSeq(buf, 3, Len(buf)) \in Seq(Tokens)
      /\ Len(SubSeq(buf, 3, Len(buf))) = Len(buf) - 3 + 1
  <2>1. 3 \in Nat \ {0} /\ Len(buf) \in Nat /\ Len(buf) <= Len(buf) /\ 3 <= Len(buf) + 1
    BY <1>1, <1>2
  <2>2. QED
    BY <1>2, <2>1, CutIsSeq
<1>6. SubSeq(buf, 1, 0) = <<>>
  BY SubSeqEmpty
<1>7. FirstOf(buf) = 1
  <2>1. \A i \in LineEnds(buf) : 1 <= i
    BY <1>2 DEF LineEnds
  <2>2. QED
    BY <1>2, <2>1, FirstEnd DEF FirstOf
<1>8. Len(SubSeq(buf, 3, Len(buf))) < Len(buf)
  BY <1>1, <1>2, <1>5
<1>9. QED
  BY <1>1, <1>4, <1>5, <1>6, <1>7, <1>8

(* The parser after a line, and after the empty line, was taken off.       *)
AfterLine(p, k, m) == [p EXCEPT !.buf = SubSeq(Sent, 3 * (k + 1) + 1, m)]
AfterHead(p, k, m) == [p EXCEPT !.buf = SubSeq(Sent, 3 * k + 3, m)]

LEMMA TakesLine ==
  ASSUME lines \in Seq(Texts), headEnded \in BOOLEAN,
         payload \in Seq({"cr", "lf"}), ~headEnded => payload = <<>>,
         NEW m \in Nat, m <= Len(Sent),
         NEW k \in 0 .. Len(lines), k < Len(lines), 3 * k <= m,
         NEW p \in Parsers, p.buf = SubSeq(Sent, 3 * k + 1, m), LineEnds(p.buf) # {}
  PROVE  /\ 3 * (k + 1) <= m
         /\ AfterLine(p, k, m) \in Parsers
         /\ Len(AfterLine(p, k, m).buf) < Len(p.buf)
         /\ p.state = "kExpectHeaders" =>
              ParseLine(p) = ParseHeader(AfterLine(p, k, m), lines[k + 1])
<1> DEFINE buf == p.buf
           tail == SubSeq(Sent, 3 * (k + 1) + 1, m)
<1>1. /\ 3 * (k + 1) <= m
      /\ FirstOf(buf) = 2
      /\ SubSeq(buf, 1, 1) = <<lines[k + 1]>>
      /\ SubSeq(buf, 4, Len(buf)) = tail
      /\ tail \in Seq(Tokens)
      /\ Len(tail) < Len(buf)
  BY LineCut
<1> HIDE DEF tail
<1>2. /\ [p EXCEPT !.buf = tail] \in Parsers
      /\ [p EXCEPT !.buf = tail].buf = tail
  BY <1>1 DEF Parsers
<1>3. /\ FirstOf(buf) - 1 = 1 /\ FirstOf(buf) + 2 = 4
      /\ <<lines[k + 1]>> # <<>> /\ Head(<<lines[k + 1]>>) = lines[k + 1]
  BY <1>1
<1>4. [p EXCEPT !.buf = SubSeq(@, 4, Len(@))] = [p EXCEPT !.buf = tail]
  BY <1>1
<1>5. p.state = "kExpectHeaders" =>
        ParseLine(p) = ParseHeader([p EXCEPT !.buf = tail], lines[k + 1])
  BY <1>1, <1>3, <1>4 DEF ParseLine, FirstOf
<1>6. QED
  BY <1>1, <1>2, <1>5 DEF AfterLine, tail

LEMMA TakesEmptyLine ==
  ASSUME lines \in Seq(Texts), headEnded \in BOOLEAN,
         payload \in Seq({"cr", "lf"}), ~headEnded => payload = <<>>,
         NEW m \in Nat, m <= Len(Sent),
         NEW k \in 0 .. Len(lines), k = Len(lines), 3 * k <= m,
         NEW p \in Parsers, p.buf = SubSeq(Sent, 3 * k + 1, m), LineEnds(p.buf) # {}
  PROVE  /\ headEnded /\ 3 * k + 2 <= m
         /\ AfterHead(p, k, m) \in Parsers
         /\ Len(AfterHead(p, k, m).buf) < Len(p.buf)
         /\ p.state = "kExpectHeaders" =>
              ParseLine(p) = [AfterHead(p, k, m) EXCEPT !.state =
                                IF p.contentLength > 0 THEN "kExpectBody" ELSE "kGotAll"]
<1> DEFINE buf == p.buf
           tail == SubSeq(Sent, 3 * k + 3, m)
<1>1. /\ headEnded /\ 3 * k + 2 <= m
      /\ FirstOf(buf) = 1
      /\ SubSeq(buf, 1, 0) = <<>>
      /\ SubSeq(buf, 3, Len(buf)) = tail
      /\ tail \in Seq(Tokens)
      /\ Len(tail) < Len(buf)
  BY EmptyLineCut
<1> HIDE DEF tail
<1>2. /\ [p EXCEPT !.buf = tail] \in Parsers
      /\ [p EXCEPT !.buf = tail].buf = tail
  BY <1>1 DEF Parsers
<1>3. FirstOf(buf) - 1 = 0 /\ FirstOf(buf) + 2 = 3
  BY <1>1
<1>4. [p EXCEPT !.buf = SubSeq(@, 3, Len(@))] = [p EXCEPT !.buf = tail]
  BY <1>1
<1>5. p.state = "kExpectHeaders" =>
        ParseLine(p) = [[p EXCEPT !.buf = tail] EXCEPT !.state =
                          IF p.contentLength > 0 THEN "kExpectBody" ELSE "kGotAll"]
  BY <1>1, <1>3, <1>4 DEF ParseLine, FirstOf
<1>6. QED
  BY <1>1, <1>2, <1>5 DEF AfterHead, tail

----------------------------------------------------------------------------
(* What each kind of turn makes of the parser.                             *)
Turned(p, m, q) ==
  /\ q \in Parsers
  /\ Len(q.buf) < Len(p.buf)
  /\ Parsed(q, m)
  /\ q.ok \/ MalformedIn(m)

(* A valid header: the maps of headers before and after it.                *)
Extended(p, text) ==
  [x \in DOMAIN p.headers \cup {Key(text)} |->
     IF x = Key(text) THEN text ELSE p.headers[x]]

LEMMA HeaderAdded ==
  ASSUME lines \in Seq(Texts), NEW p \in Parsers,
         NEW k \in 1 .. Len(lines), k < Len(lines), Taken(p, k),
         lines[k + 1] \in ValidHeaders,
         NEW q \in Parsers, q.version = p.version,
         q.headers = Extended(p, lines[k + 1]),
         q.contentLength = IF lines[k + 1] \in DOMAIN LengthOf
                           THEN LengthOf[lines[k + 1]] ELSE p.contentLength,
         Cardinality(DOMAIN q.headers) <= kMaxHeaderCount
  PROVE  Taken(q, k + 1)
<1> DEFINE t == lines[k + 1]
           h == q.headers
<1>1. /\ DOMAIN h = DOMAIN p.headers \cup {Key(t)}
      /\ h[Key(t)] = t
      /\ \A x \in DOMAIN p.headers : x # Key(t) => h[x] = p.headers[x]
  BY DEF Extended
<1>2. k \in Nat /\ k > 0 /\ Len(lines) \in Nat
  OBVIOUS
<1>3. lines[1] \in RequestLines /\ q.version = lines[1]
  BY <1>2 DEF Taken
<1> HIDE DEF h
<1>4. \A i \in 2 .. k + 1 : lines[i] \in ValidHeaders /\ Key(lines[i]) \in DOMAIN h
  <2>1. \A i \in 2 .. k : lines[i] \in ValidHeaders /\ Key(lines[i]) \in DOMAIN p.headers
    BY DEF Taken
  <2>2. \A i \in 2 .. k + 1 : i \in 2 .. k \/ i = k + 1
    BY <1>2
  <2>3. QED
    BY <1>1, <2>1, <2>2
<1>5. ASSUME NEW key \in DOMAIN h
      PROVE  LastWith(q, k + 1, key)
  <2>1. CASE key = Key(t)
    <3>1. /\ k + 1 \in 2 .. k + 1 /\ Key(lines[k + 1]) = key /\ h[key] = lines[k + 1]
          /\ \A j \in (k + 1) + 1 .. k + 1 : Key(lines[j]) # key
      BY <1>1, <1>2, <2>1
    <3>2. QED
      BY <3>1 DEF LastWith, h
  <2>2. CASE key # Key(t)
    <3>1. key \in DOMAIN p.headers /\ h[key] = p.headers[key]
      BY <1>1, <2>2
    <3>2. LastWith(p, k, key)
      BY <3>1 DEF Taken
    <3>3. PICK i \in 2 .. k : /\ Key(lines[i]) = key
                              /\ p.headers[key] = lines[i]
                              /\ \A j \in i + 1 .. k : Key(lines[j]) # key
      BY <3>2 DEF LastWith
    <3>4. \A j \in i + 1 .. k + 1 : j \in i + 1 .. k \/ j = k + 1
      BY <1>2
    <3>5. \A j \in i + 1 .. k + 1 : Key(lines[j]) # key
      BY <2>2, <3>3, <3>4
    <3>6. i \in 2 .. k + 1
      BY <1>2
    <3>7. QED
      BY <3>1, <3>3, <3>5, <3>6 DEF LastWith, h
  <2>3. QED
    BY <2>1, <2>2
<1>6. q.contentLength = IF "content-length" \in DOMAIN h
                        THEN LengthOf[h["content-length"]] ELSE 0
  <2>1. p.contentLength = IF "content-length" \in DOMAIN p.headers
                          THEN LengthOf[p.headers["content-length"]] ELSE 0
    BY DEF Taken
  <2>2. CASE t \in DOMAIN LengthOf
    <3>1. Key(t) = "content-length"
      BY <2>2, KeyFacts
    <3>2. "content-length" \in DOMAIN h /\ h["content-length"] = t
      BY <1>1, <3>1
    <3>3. QED
      BY <2>2, <3>2
  <2>3. CASE t \notin DOMAIN LengthOf
    <3>1. Key(t) # "content-length"
      BY <2>3, KeyFacts
    <3>2. /\ "content-length" \in DOMAIN h <=> "content-length" \in DOMAIN p.headers
          /\ "content-length" \in DOMAIN h => h["content-length"] = p.headers["content-length"]
      BY <1>1, <3>1
    <3>3. q.contentLength = p.contentLength
      BY <2>3
    <3>4. QED
      BY <2>1, <3>2, <3>3
  <2>4. QED
    BY <2>2, <2>3
<1>7. QED
  BY <1>3, <1>4, <1>5, <1>6 DEF Taken, h

(* The keys of the headers taken are keys of lines that have been read.    *)
LEMMA TooManyKeys ==
  ASSUME lines \in Seq(Texts), NEW p \in Parsers, NEW m \in Nat,
         NEW k \in 1 .. Len(lines), k < Len(lines), 3 * (k + 1) <= m,
         Taken(p, k), kMaxHeaderCount \in Nat,
         ~(Cardinality(DOMAIN Extended(p, lines[k + 1])) <= kMaxHeaderCount)
  PROVE  MalformedIn(m)
<1> DEFINE keys == DOMAIN p.headers \cup {Key(lines[k + 1])}
<1>1. k \in Nat /\ k > 0 /\ Len(lines) \in Nat
  OBVIOUS
<1>2. keys \subseteq KeysOf(m)
  <2>1. ASSUME NEW i \in 2 .. k + 1
        PROVE  Key(lines[i]) \in KeysOf(m)
    <3>1. i \in 2 .. Len(lines) /\ 3 * i <= m
      BY <1>1
    <3>2. QED
      BY <3>1 DEF KeysOf
  <2>2. ASSUME NEW key \in DOMAIN p.headers
        PROVE  key \in KeysOf(m)
    <3>1. PICK i \in 2 .. k : Key(lines[i]) = key
      BY DEF Taken, LastWith
    <3>2. i \in 2 .. k + 1
      BY <1>1
    <3>3. QED
      BY <2>1, <3>1, <3>2
  <2>3. k + 1 \in 2 .. k + 1
    BY <1>1
  <2>4. QED
    BY <2>1, <2>2, <2>3
<1>3. KeysOf(m) \subseteq {Key(t) : t \in Texts}
  <2>1. \A i \in 2 .. Len(lines) : lines[i] \in Texts
    OBVIOUS
  <2>2. QED
    BY <2>1 DEF KeysOf
<1>4. IsFiniteSet(KeysOf(m)) /\ Cardinality(KeysOf(m)) \in Nat
  BY <1>3, KeysAreFinite
<1>5. Cardinality(keys) <= Cardinality(KeysOf(m))
  BY <1>2, <1>4, FS_Subset
<1>6. Cardinality(keys) \in Nat
  <2>1. keys \subseteq {Key(t) : t \in Texts}
    BY <1>2, <1>3
  <2>2. QED
    BY <2>1, KeysAreFinite
<1>7. ~(Cardinality(keys) <= kMaxHeaderCount)
  BY DEF Extended
<1> HIDE DEF keys
<1>8. Cardinality(KeysOf(m)) > kMaxHeaderCount
  BY <1>4, <1>5, <1>6, <1>7
<1>9. QED
  BY <1>8 DEF MalformedIn

LEMMA HeaderTurn ==
  ASSUME lines \in Seq(Texts), headEnded \in BOOLEAN,
         payload \in Seq({"cr", "lf"}), ~headEnded => payload = <<>>,
         NEW m \in Nat, m <= Len(Sent),
         NEW p \in Parsers, p.ok, p.state = "kExpectHeaders",
         LineEnds(p.buf) # {},
         NEW k \in 0 .. Len(lines), k < Len(lines), Taken(p, k), Left(p, k, m)
  PROVE  Turned(p, m, ParseLine(p))
<1> DEFINE q == ParseLine(p)
           r == AfterLine(p, k, m)
           t == lines[k + 1]
           h == Extended(p, t)
<1>1. /\ k \in 1 .. Len(lines) /\ k + 1 \in 0 .. Len(lines) /\ k + 1 \in 2 .. Len(lines)
      /\ p.buf = SubSeq(Sent, 3 * k + 1, m) /\ 3 * k <= m /\ p.body = <<>>
  BY DEF Left
<1>2. /\ 3 * (k + 1) <= m /\ r \in Parsers /\ Len(r.buf) < Len(p.buf)
      /\ q = ParseHeader(r, t)
  BY <1>1, TakesLine
<1>3. /\ r.ok /\ r.buf = SubSeq(Sent, 3 * (k + 1) + 1, m) /\ r.body = <<>>
      /\ r.headers = p.headers /\ r.contentLength = p.contentLength
      /\ r.state = "kExpectHeaders" /\ r.version = p.version
  <2> HIDE DEF q
  <2> QED
    BY <1>1 DEF AfterLine, Parsers
<1>4. t \in Texts
  BY <1>1
<1> HIDE DEF q, r
<1>5. CASE t \notin ValidHeaders
  <2>1. q = [r EXCEPT !.ok = FALSE]
    BY <1>2, <1>5 DEF ParseHeader
  <2>2. q \in Parsers /\ ~q.ok /\ q.buf = r.buf
    BY <1>2, <2>1 DEF Parsers
  <2>3. MalformedIn(m)
    BY <1>1, <1>2, <1>5 DEF MalformedIn
  <2>4. QED
    BY <1>2, <2>2, <2>3 DEF Turned, Parsed, q
<1>6. CASE t \in ValidHeaders
  <2> DEFINE few == Cardinality(DOMAIN h) <= kMaxHeaderCount
             len == IF t \in DOMAIN LengthOf THEN LengthOf[t] ELSE p.contentLength
  <2>1. q = [r EXCEPT !.headers = h, !.contentLength = len, !.ok = few]
    BY <1>2, <1>3, <1>6 DEF ParseHeader, Extended
  <2>2. h \in HeaderMaps
    <3>1. PICK K \in SUBSET Names : p.headers \in [K -> ValidHeaders]
      BY DEF Parsers, HeaderMaps
    <3>2. K \cup {Key(t)} \in SUBSET Names
      BY <1>6, KeyFacts
    <3>3. h \in [K \cup {Key(t)} -> ValidHeaders]
      BY <1>6, <3>1 DEF Extended
    <3>4. QED
      BY <3>2, <3>3 DEF HeaderMaps
  <2>3. len \in Nat /\ few \in BOOLEAN
    <3>1. p.contentLength \in Nat
      BY DEF Parsers
    <3>2. t \in DOMAIN LengthOf => LengthOf[t] \in Nat
      BY KeyFacts
    <3> HIDE DEF h, t
    <3>3. QED
      BY <3>1, <3>2
  <2> HIDE DEF h, few, len
  <2>4. /\ q \in Parsers /\ q.headers = h /\ q.contentLength = len /\ q.ok = few
        /\ q.state = r.state /\ q.version = r.version /\ q.buf = r.buf /\ q.body = r.body
    BY <1>2, <2>1, <2>2, <2>3 DEF Parsers
  <2>5. CASE few
    <3>1. Taken(q, k + 1)
      <4>1. Cardinality(DOMAIN q.headers) <= kMaxHeaderCount
        BY <2>4, <2>5 DEF few
      <4>2. q.headers = Extended(p, lines[k + 1]) /\ q.version = p.version
        BY <1>3, <2>4 DEF h
      <4>3. q.contentLength = IF lines[k + 1] \in DOMAIN LengthOf
                              THEN LengthOf[lines[k + 1]] ELSE p.contentLength
        BY <2>4 DEF len
      <4>4. QED
        BY <1>1, <1>6, <2>4, <4>1, <4>2, <4>3, HeaderAdded
    <3>2. Left(q, k + 1, m)
      BY <1>1, <1>2, <1>3, <2>4 DEF Left
    <3>3. QED
      BY <1>1, <1>2, <2>4, <2>5, <3>1, <3>2 DEF Turned, Parsed, q
  <2>6. CASE ~few
    <3>1. MalformedIn(m)
      BY <1>1, <1>2, <2>6, LimitAssumption, TooManyKeys DEF few, h
    <3>2. QED
      BY <1>2, <2>4, <2>6, <3>1 DEF Turned, Parsed, q
  <2>7. QED
    BY <2>5, <2>6
<1>7. QED
  BY <1>5, <1>6

LEMMA EmptyLineTurn ==
  ASSUME lines \in Seq(Texts), headEnded \in BOOLEAN,
         payload \in Seq({"cr", "lf"}), ~headEnded => payload = <<>>,
         NEW m \in Nat, m <= Len(Sent),
         NEW p \in Parsers, p.ok, p.state = "kExpectHeaders",
         LineEnds(p.buf) # {},
         NEW k \in 0 .. Len(lines), k = Len(lines), Taken(p, k), Left(p, k, m)
  PROVE  Turned(p, m, ParseLine(p))
<1> DEFINE q == ParseLine(p)
           r == AfterHead(p, k, m)
           s == IF p.contentLength > 0 THEN "kExpectBody" ELSE "kGotAll"
<1>1. k > 0 /\ p.buf = SubSeq(Sent, 3 * k + 1, m) /\ 3 * k <= m /\ p.body = <<>>
  BY DEF Left
<1>2. /\ headEnded /\ 3 * k + 2 <= m /\ r \in Parsers /\ Len(r.buf) < Len(p.buf)
      /\ q = [r EXCEPT !.state = s]
  BY <1>1, TakesEmptyLine
<1>3. /\ r.ok /\ r.buf = SubSeq(Sent, 3 * k + 3, m) /\ r.body = <<>>
      /\ r.headers = p.headers /\ r.contentLength = p.contentLength
      /\ r.version = p.version /\ p.contentLength \in Nat
  <2> HIDE DEF q
  <2> QED
    BY <1>1 DEF AfterHead, Parsers
<1> HIDE DEF q, r, s
<1>4. /\ q \in Parsers /\ q.state = s /\ q.ok /\ q.buf = r.buf /\ q.body = r.body
      /\ q.headers = r.headers /\ q.contentLength = r.contentLength
      /\ q.version = r.version
  <2>1. s \in States
    BY DEF s, States
  <2>2. QED
    BY <1>2, <1>3, <2>1 DEF Parsers
<1>5. Taken(q, k)
  BY <1>3, <1>4 DEF Taken, LastWith
<1>6. Left(q, k, m)
  <2>1. CASE p.contentLength > 0
    BY <1>1, <1>2, <1>3, <1>4, <2>1 DEF Left, s
  <2>2. CASE p.contentLength = 0
    <3>1. SubSeq(Sent, 3 * k + 3, 3 * k + 2) = <<>>
      BY SubSeqEmpty
    <3>2. q.state = "kGotAll" /\ q.contentLength = 0
      BY <1>3, <1>4, <2>2 DEF s
    <3>3. 3 * k + 2 + 0 = 3 * k + 2 /\ 3 * k + 3 + 0 = 3 * k + 3
      OBVIOUS
    <3>4. QED
      BY <1>1, <1>2, <1>3, <1>4, <3>1, <3>2, <3>3 DEF Left
  <2>3. QED
    BY <1>3, <2>1, <2>2
<1>7. QED
  BY <1>2, <1>4, <1>5, <1>6 DEF Turned, Parsed, q

LEMMA BodyCut ==
  ASSUME NEW T, NEW s \in Seq(T), NEW a \in Nat \ {0}, NEW m \in Nat,
         m <= Len(s), a <= m + 1,
         NEW cl \in Nat, NEW buf, buf = SubSeq(s, a, m), cl <= Len(buf), cl > 0
  PROVE  /\ SubSeq(buf, 1, cl) \in Seq(T)
         /\ SubSeq(buf, 1, cl) = SubSeq(s, a, a + cl - 1)
         /\ SubSeq(buf, cl + 1, Len(buf)) \in Seq(T)
         /\ Len(SubSeq(buf, cl + 1, Len(buf))) < Len(buf)
         /\ SubSeq(buf, cl + 1, Len(buf)) = SubSeq(s, a + cl, m)
         /\ a + cl <= m + 1
<1>1. buf \in Seq(T) /\ Len(buf) = m - a + 1
  BY CutIsSeq
<1>2. /\ 1 \in Nat \ {0} /\ 1 <= cl + 1 /\ cl <= m - a + 1
      /\ cl + 1 \in Nat \ {0} /\ Len(buf) \in Nat /\ Len(buf) <= Len(buf)
      /\ Len(buf) <= m - a + 1 /\ cl + 1 <= Len(buf) + 1
  BY <1>1
<1>3. /\ SubSeq(buf, 1, cl) \in Seq(T)
      /\ SubSeq(buf, cl + 1, Len(buf)) \in Seq(T)
      /\ Len(SubSeq(buf, cl + 1, Len(buf))) = Len(buf) - (cl + 1) + 1
  BY <1>1, <1>2, CutIsSeq
<1>4. SubSeq(buf, 1, cl) = SubSeq(s, a + 1 - 1, a + cl - 1)
  BY <1>2, CutOfCut
<1>5. SubSeq(buf, cl + 1, Len(buf)) = SubSeq(s, a + (cl + 1) - 1, a + Len(buf) - 1)
  BY <1>2, CutOfCut
<1>6. /\ a + 1 - 1 = a /\ a + (cl + 1) - 1 = a + cl /\ a + Len(buf) - 1 = m
      /\ a + cl <= m + 1 /\ Len(buf) - (cl + 1) + 1 < Len(buf)
  BY <1>1, <1>2
<1>7. QED
  BY <1>3, <1>4, <1>5, <1>6

LEMMA BodyTurn ==
  ASSUME lines \in Seq(Texts), headEnded \in BOOLEAN,
         payload \in Seq({"cr", "lf"}),
         NEW m \in Nat, m <= Len(Sent),
         NEW p \in Parsers, p.ok, p.state = "kExpectBody",
         ~(Len(p.buf) < p.contentLength),
         NEW k \in 0 .. Len(lines), Taken(p, k), Left(p, k, m)
  PROVE  Turned(p, m, TakeBody(p))
<1> DEFINE q == TakeBody(p)
<1>1. /\ k > 0 /\ headEnded /\ k = Len(lines) /\ 3 * k + 2 <= m
      /\ p.contentLength > 0 /\ p.buf = SubSeq(Sent, 3 * k + 3, m)
  BY DEF Left
<1>2. PICK cl \in Nat : cl = p.contentLength
  BY DEF Parsers
<1>3. PICK buf \in Seq(Tokens) : buf = p.buf
  BY DEF Parsers
<1>4. Sent \in Seq(Tokens) /\ Len(Sent) \in Nat
  BY SentShape
<1>5. PICK a \in Nat \ {0} : a = 3 * k + 3
  OBVIOUS
<1>6. cl <= Len(buf) /\ cl > 0 /\ buf = SubSeq(Sent, a, m) /\ a <= m + 1
  <2>1. Len(buf) \in Nat /\ ~(Len(buf) < cl)
    BY <1>2, <1>3
  <2>2. QED
    BY <1>1, <1>2, <1>3, <1>5, <2>1
<1>7. PICK body, tail :
        /\ body = SubSeq(buf, 1, cl) /\ tail = SubSeq(buf, cl + 1, Len(buf))
        /\ body \in Seq(Tokens) /\ tail \in Seq(Tokens) /\ Len(tail) < Len(buf)
        /\ body = SubSeq(Sent, a, a + cl - 1) /\ tail = SubSeq(Sent, a + cl, m)
        /\ a + cl <= m + 1
  <2>1. /\ SubSeq(buf, 1, cl) \in Seq(Tokens)
        /\ SubSeq(buf, 1, cl) = SubSeq(Sent, a, a + cl - 1)
        /\ SubSeq(buf, cl + 1, Len(buf)) \in Seq(Tokens)
        /\ Len(SubSeq(buf, cl + 1, Len(buf))) < Len(buf)
        /\ SubSeq(buf, cl + 1, Len(buf)) = SubSeq(Sent, a + cl, m)
        /\ a + cl <= m + 1
    BY <1>4, <1>6, BodyCut
  <2>2. QED
    BY <2>1, Zenon
<1>8. q = [p EXCEPT !.body = body, !.buf = tail, !.state = "kGotAll"]
  BY <1>2, <1>3, <1>7 DEF TakeBody
<1> HIDE DEF q
<1>9. /\ q \in Parsers /\ q.state = "kGotAll" /\ q.ok /\ q.buf = tail /\ q.body = body
      /\ q.headers = p.headers /\ q.contentLength = cl /\ q.version = p.version
  BY <1>2, <1>7, <1>8 DEF Parsers, States
<1>10. Taken(q, k)
  BY <1>2, <1>9 DEF Taken, LastWith
<1>11. Left(q, k, m)
  <2>1. /\ a + cl = 3 * k + 3 + cl /\ a + cl - 1 = 3 * k + 2 + cl /\ 3 * k + 2 + cl <= m
        /\ 3 * k <= m
    BY <1>5, <1>7
  <2>2. QED
    BY <1>1, <1>5, <1>7, <1>9, <2>1 DEF Left
<1>12. QED
  BY <1>3, <1>7, <1>9, <1>10, <1>11 DEF Turned, Parsed, q

----------------------------------------------------------------------------
(* A turn that does not stop keeps what the parser has parsed and shortens *)
(* the buffer; one that stops changes nothing.                             *)
LEMMA StoppedTurn ==
  ASSUME NEW p \in Parsers, Stopped(p)
  PROVE  Turn(p) = p
<1>1. CASE ~p.ok \/ p.state = "kGotAll"
  BY <1>1 DEF Turn
<1>2. CASE p.ok /\ p.state = "kExpectBody" /\ Len(p.buf) < p.contentLength
  <2>1. TakeBody(p) = p
    BY <1>2 DEF TakeBody
  <2>2. QED
    BY <1>2, <2>1 DEF Turn
<1>3. CASE /\ p.ok /\ LineEnds(p.buf) = {}
           /\ p.state \in {"kExpectRequestLine", "kExpectHeaders"}
  BY <1>3 DEF Turn
<1>4. QED
  BY <1>1, <1>2, <1>3 DEF Stopped

LEMMA BufferLength ==
  ASSUME NEW p \in Parsers
  PROVE  p.buf \in Seq(Tokens) /\ Len(p.buf) \in Nat
<1>1. p.buf \in Seq(Tokens)
  BY DEF Parsers
<1>2. QED
  BY <1>1

LEMMA RunningTurn ==
  ASSUME lines \in Seq(Texts), headEnded \in BOOLEAN,
         payload \in Seq({"cr", "lf"}), ~headEnded => payload = <<>>,
         NEW m \in Nat, m <= Len(Sent),
         NEW p \in Parsers, p.state # "kExpectRequestLine", Parsed(p, m), ~Stopped(p)
  PROVE  Turned(p, m, Turn(p))
<1>1. p.ok /\ p.state # "kGotAll" /\ p.state \in States
  BY DEF Stopped, Parsers
<1>2. PICK k \in 0 .. Len(lines) : Taken(p, k) /\ Left(p, k, m)
  BY <1>1 DEF Parsed
<1>3. CASE p.state = "kExpectBody"
  <2>1. Turn(p) = TakeBody(p)
    BY <1>1, <1>3 DEF Turn
  <2>2. ~(Len(p.buf) < p.contentLength)
    BY <1>3 DEF Stopped
  <2>3. QED
    BY <1>1, <1>2, <1>3, <2>1, <2>2, BodyTurn
<1>4. CASE p.state # "kExpectBody"
  <2>1. p.state = "kExpectHeaders"
    BY <1>1, <1>4 DEF States
  <2>2. LineEnds(p.buf) # {}
    BY <2>1 DEF Stopped
  <2>3. Turn(p) = ParseLine(p)
    BY <1>1, <1>4, <2>2 DEF Turn
  <2>4. k < Len(lines) \/ k = Len(lines)
    OBVIOUS
  <2>5. Turned(p, m, ParseLine(p))
    BY <1>1, <1>2, <2>1, <2>2, <2>4, HeaderTurn, EmptyLineTurn
  <2>6. QED
    BY <2>3, <2>5
<1>5. QED
  BY <1>3, <1>4

(* The stream: what was left over of the request before, and this request. *)
LEMMA StreamShape ==
  ASSUME ClientInv
  PROVE  /\ stray \in Seq(Tokens) /\ Len(stray) \in Nat
         /\ Sent \in Seq(Tokens) /\ Len(Sent) \in Nat
         /\ Stream \in Seq(Tokens) /\ Len(Stream) = Len(stray) + Len(Sent)
         /\ \A i \in 1 .. Len(stray) : Stream[i] = stray[i]
         /\ \A i \in 1 .. Len(Sent) : Stream[Len(stray) + i] = Sent[i]
<1>1. PICK a \in Seq(Tokens) : a = stray
  <2>1. {"cr", "lf"} \subseteq Tokens
    BY TextFacts
  <2>2. stray \in Seq({"cr", "lf"})
    BY DEF ClientInv
  <2>3. Seq({"cr", "lf"}) \subseteq Seq(Tokens)
    BY <2>1, SeqMonotonic
  <2>4. QED
    BY <2>2, <2>3
<1>2. PICK b \in Seq(Tokens) : b = Sent
  BY SentShape DEF ClientInv
<1>3. Stream = a \o b
  BY <1>1, <1>2 DEF Stream
<1>4. /\ Len(a) \in Nat /\ Len(b) \in Nat
      /\ a \o b \in Seq(Tokens) /\ Len(a \o b) = Len(a) + Len(b)
      /\ \A i \in 1 .. Len(a) : (a \o b)[i] = a[i]
      /\ \A i \in 1 .. Len(b) : (a \o b)[Len(a) + i] = b[i]
  OBVIOUS
<1>5. QED
  BY <1>1, <1>2, <1>3, <1>4

LEMMA ShareFacts ==
  ASSUME ClientInv, NEW t \in Nat, t <= Len(Stream)
  PROVE  /\ Share(t) \in Nat /\ Share(t) <= Len(Sent) /\ Share(t) <= t
         /\ Len(stray) <= t => Share(t) = t - Len(stray)
         /\ Share(t) > 0 => t = Len(stray) + Share(t)
<1>1. PICK s \in Nat, l \in Nat : s = Len(stray) /\ l = Len(Sent) /\ t <= s + l
  BY StreamShape
<1>2. CASE t < s
  BY <1>1, <1>2 DEF Share
<1>3. CASE ~(t < s)
  BY <1>1, <1>3 DEF Share
<1>4. QED
  BY <1>2, <1>3

LEMMA StrayCut ==
  ASSUME ClientInv, NEW o \in Nat, o = Len(stray),
         NEW a \in Nat \ {0}, NEW b \in Nat, a <= b + 1, b <= Len(Sent)
  PROVE  SubSeq(Stream, o + a, o + b) = SubSeq(Sent, a, b)
<1>1. PICK S \in Seq(Tokens), R \in Seq(Tokens) :
        /\ S = Stream /\ R = Sent
        /\ Len(S) \in Nat /\ Len(R) \in Nat /\ Len(S) = o + Len(R)
        /\ \A i \in 1 .. Len(R) : S[o + i] = R[i]
  BY StreamShape
<1> DEFINE v == SubSeq(S, o + a, o + b)
           w == SubSeq(R, a, b)
<1>2. /\ v \in Seq(Tokens) /\ Len(v) = (o + b) - (o + a) + 1
      /\ \A i \in 1 .. (o + b) - (o + a) + 1 : v[i] = S[(o + a) + i - 1]
  <2>1. /\ o + a \in Nat \ {0} /\ o + b \in Nat /\ o + a <= (o + b) + 1
        /\ o + b <= Len(S)
    BY <1>1
  <2>2. QED
    BY <2>1, CutIsSeq
<1>3. b <= Len(R)
  BY <1>1
<1>4. /\ w \in Seq(Tokens) /\ Len(w) = b - a + 1
      /\ \A i \in 1 .. b - a + 1 : w[i] = R[a + i - 1]
  BY <1>3, CutIsSeq
<1> HIDE DEF v, w
<1>5. Len(v) = Len(w)
  BY <1>2, <1>4
<1>6. ASSUME NEW i \in 1 .. Len(v)
      PROVE  v[i] = w[i]
  <2>1. /\ i \in 1 .. (o + b) - (o + a) + 1 /\ i \in 1 .. b - a + 1
        /\ a + i - 1 \in 1 .. Len(R) /\ (o + a) + i - 1 = o + (a + i - 1)
    BY <1>1, <1>2, <1>3
  <2>2. PICK j \in 1 .. Len(R) : j = a + i - 1 /\ (o + a) + i - 1 = o + j
    BY <2>1
  <2>3. v[i] = S[o + j]
    BY <1>2, <2>1, <2>2
  <2>4. w[i] = R[j]
    BY <1>4, <2>1, <2>2
  <2>5. QED
    BY <1>1, <2>3, <2>4
<1>7. v = w
  BY <1>2, <1>4, <1>5, <1>6, SeqEqual
<1>8. QED
  BY <1>1, <1>7 DEF v, w

(* Where the first line of the stream ends: among the s stray tokens, at   *)
(* the empty line of a head that has no other, or behind the first text.   *)
FirstLineOf(buf, s, t) ==
  /\ buf \in Seq(Tokens) /\ Len(buf) = t
  /\ \A i \in 1 .. s : i <= t => buf[i] \in {"cr", "lf"}
  /\ \A i \in LineEnds(stray) : i + 1 <= t => i \in LineEnds(buf)
  /\ lines # <<>> /\ s + 3 <= t => s + 2 \in LineEnds(buf) /\ buf[s + 1] = lines[1]
  /\ lines = <<>> /\ headEnded /\ s + 2 <= t => s + 1 \in LineEnds(buf)
  /\ \A e \in LineEnds(buf) :
       \/ e \in LineEnds(stray) /\ e + 1 <= t
       \/ lines = <<>> /\ headEnded /\ s + 2 <= t /\ e >= s + 1
       \/ lines # <<>> /\ s + 3 <= t /\ e >= s + 2

LEMMA FirstLines ==
  ASSUME ClientInv, NEW t \in Nat, t <= Len(Stream),
         NEW buf, buf = SubSeq(Stream, 1, t), NEW s \in Nat, s = Len(stray)
  PROVE  FirstLineOf(buf, s, t)
<1>1. /\ Stream \in Seq(Tokens) /\ Len(Stream) = s + Len(Sent) /\ Len(Sent) \in Nat
      /\ \A i \in 1 .. s : Stream[i] = stray[i]
      /\ \A i \in 1 .. Len(Sent) : Stream[s + i] = Sent[i]
  BY StreamShape
<1>2. buf \in Seq(Tokens) /\ Len(buf) = t /\ \A i \in 1 .. t : buf[i] = Stream[i]
  <2>1. PICK S \in Seq(Tokens) : S = Stream
    BY <1>1
  <2>2. 1 \in Nat \ {0} /\ 1 <= t + 1 /\ t - 1 + 1 = t /\ \A i \in 1 .. t : 1 + i - 1 = i
    OBVIOUS
  <2>3. t <= Len(S) /\ buf = SubSeq(S, 1, t)
    BY <2>1
  <2>4. /\ buf \in Seq(Tokens) /\ Len(buf) = t - 1 + 1
        /\ \A i \in 1 .. t - 1 + 1 : buf[i] = S[1 + i - 1]
    BY <2>2, <2>3, CutIsSeq
  <2>5. QED
    BY <2>1, <2>2, <2>4
<1>3. PICK N \in Nat : N = Len(lines) /\ (lines = <<>> <=> N = 0)
  BY DEF ClientInv
<1>4. /\ Len(Sent) = 3 * N + (IF headEnded THEN 2 ELSE 0) + Len(payload)
      /\ \A i \in 1 .. N : /\ Sent[3 * i - 2] = lines[i]
                           /\ Sent[3 * i - 1] = "cr"
                           /\ Sent[3 * i] = "lf"
      /\ headEnded => Sent[3 * N + 1] = "cr" /\ Sent[3 * N + 2] = "lf"
  BY <1>3, SentShape DEF ClientInv
<1>5. ASSUME N > 0
      PROVE  /\ Len(Sent) >= 3
             /\ Sent[1] = lines[1] /\ Sent[2] = "cr" /\ Sent[3] = "lf"
             /\ lines[1] # "cr" /\ lines[1] # "lf"
  <2>1. 1 \in 1 .. N /\ 3 * 1 - 2 = 1 /\ 3 * 1 - 1 = 2 /\ 3 * 1 = 3
    BY <1>5
  <2>2. Sent[1] = lines[1] /\ Sent[2] = "cr" /\ Sent[3] = "lf"
    BY <1>4, <2>1
  <2>3. lines[1] \in Texts
    BY <1>3, <2>1 DEF ClientInv
  <2>4. Len(payload) \in Nat
    BY DEF ClientInv
  <2>5. Len(Sent) >= 3
    BY <1>4, <1>5, <2>4
  <2>6. QED
    BY <2>2, <2>3, <2>5, TextFacts
<1>6. ASSUME N = 0
      PROVE  /\ ~headEnded => Len(Sent) = 0
             /\ headEnded => Len(Sent) >= 2 /\ Sent[1] = "cr" /\ Sent[2] = "lf"
  <2>1. Len(payload) \in Nat /\ (~headEnded => Len(payload) = 0)
    BY DEF ClientInv
  <2>2. 3 * N = 0 /\ 3 * N + 1 = 1 /\ 3 * N + 2 = 2
    BY <1>6
  <2>3. QED
    BY <1>4, <2>1, <2>2
<1>7. ASSUME NEW i \in 1 .. s, i <= t
      PROVE  buf[i] \in {"cr", "lf"} /\ buf[i] = stray[i]
  <2>1. i \in 1 .. t
    BY <1>7
  <2>2. stray[i] \in {"cr", "lf"}
    BY DEF ClientInv
  <2>3. QED
    BY <1>1, <1>2, <2>1, <2>2
<1>8. ASSUME NEW i \in 1 .. Len(Sent), s + i <= t
      PROVE  buf[s + i] = Sent[i]
  <2>1. s + i \in 1 .. t
    BY <1>8
  <2>2. QED
    BY <1>1, <1>2, <2>1
<1>9. ASSUME NEW i \in LineEnds(stray), i + 1 <= t
      PROVE  i \in LineEnds(buf)
  <2>1. i \in 1 .. s - 1 /\ stray[i] = "cr" /\ stray[i + 1] = "lf"
    BY DEF LineEnds
  <2>2. i \in 1 .. s /\ i + 1 \in 1 .. s /\ i <= t /\ i \in 1 .. t - 1
    BY <1>9, <2>1
  <2>3. buf[i] = "cr" /\ buf[i + 1] = "lf"
    BY <1>7, <1>9, <2>1, <2>2
  <2>4. QED
    BY <1>2, <2>2, <2>3 DEF LineEnds
<1>10. ASSUME N > 0, s + 3 <= t
       PROVE  s + 2 \in LineEnds(buf) /\ buf[s + 1] = lines[1]
  <2>1. 1 \in 1 .. Len(Sent) /\ 2 \in 1 .. Len(Sent) /\ 3 \in 1 .. Len(Sent)
    BY <1>1, <1>5, <1>10
  <2>2. buf[s + 1] = lines[1] /\ buf[s + 2] = "cr" /\ buf[s + 3] = "lf"
    BY <1>5, <1>8, <1>10, <2>1
  <2>3. s + 2 \in 1 .. t - 1 /\ (s + 2) + 1 = s + 3
    BY <1>10
  <2>4. QED
    BY <1>2, <2>2, <2>3 DEF LineEnds
<1>11. ASSUME N = 0, headEnded, s + 2 <= t
       PROVE  s + 1 \in LineEnds(buf)
  <2>1. 1 \in 1 .. Len(Sent) /\ 2 \in 1 .. Len(Sent)
    BY <1>1, <1>6, <1>11
  <2>2. buf[s + 1] = "cr" /\ buf[s + 2] = "lf"
    BY <1>6, <1>8, <1>11, <2>1
  <2>3. s + 1 \in 1 .. t - 1 /\ (s + 1) + 1 = s + 2
    BY <1>11
  <2>4. QED
    BY <1>2, <2>2, <2>3 DEF LineEnds
<1>12. ASSUME NEW e \in LineEnds(buf)
       PROVE  \/ e \in LineEnds(stray) /\ e + 1 <= t
              \/ lines = <<>> /\ headEnded /\ s + 2 <= t /\ e >= s + 1
              \/ lines # <<>> /\ s + 3 <= t /\ e >= s + 2
  <2>1. e \in 1 .. t - 1 /\ buf[e] = "cr" /\ buf[e + 1] = "lf"
    BY <1>2 DEF LineEnds
  <2>2. CASE e < s
    <3>1. e \in 1 .. s /\ e + 1 \in 1 .. s /\ e <= t /\ e + 1 <= t /\ e \in 1 .. s - 1
      BY <2>1, <2>2
    <3>2. stray[e] = "cr" /\ stray[e + 1] = "lf"
      BY <1>7, <2>1, <3>1
    <3>3. QED
      BY <3>1, <3>2 DEF LineEnds
  <2>3. CASE ~(e < s)
    <3>1. s + 1 <= t /\ e >= s /\ t <= s + Len(Sent) /\ Len(Sent) >= 1
      BY <1>1, <2>1, <2>3
    <3>2. 1 \in 1 .. Len(Sent)
      BY <1>1, <3>1
    <3>3. buf[s + 1] = Sent[1]
      BY <1>8, <3>1, <3>2
    <3>4. CASE N = 0
      <4>1. headEnded /\ Sent[1] = "cr"
        BY <1>6, <3>1, <3>4
      <4>2. e # s
        BY <2>1, <3>3, <4>1
      <4>3. e >= s + 1 /\ s + 2 <= t
        BY <2>1, <3>1, <4>2
      <4>4. QED
        BY <1>3, <3>4, <4>1, <4>3
    <3>5. CASE N > 0
      <4>1. Sent[1] # "cr" /\ Sent[1] # "lf"
        BY <1>5, <3>5
      <4>2. e # s /\ e # s + 1
        BY <2>1, <3>3, <4>1
      <4>3. e >= s + 2 /\ s + 3 <= t
        BY <2>1, <3>1, <4>2
      <4>4. QED
        BY <1>3, <3>5, <4>3
    <3>6. QED
      BY <3>4, <3>5
  <2>4. QED
    BY <2>2, <2>3
<1>13. QED
  BY <1>2, <1>3, <1>7, <1>9, <1>10, <1>11, <1>12 DEF FirstLineOf

(* A turn of the loop, whatever the state.                                 *)
Advanced(p, t, q) ==
  /\ q \in Parsers
  /\ Len(q.buf) < Len(p.buf)
  /\ Progress(q, t)
  /\ q.ok \/ Refusable(t)

LEMMA FirstLineTurn ==
  ASSUME ClientInv, NEW t \in Nat, t <= Len(Stream),
         NEW p \in Parsers, p.ok, Waiting(p, t), LineEnds(p.buf) # {}
  PROVE  Advanced(p, t, ParseLine(p))
<1>1. PICK s \in Nat : s = Len(stray)
  BY StreamShape
<1>2. PICK buf : buf = p.buf
  OBVIOUS
<1>3. /\ buf = SubSeq(Stream, 1, t) /\ p.state = "kExpectRequestLine"
      /\ Taken(p, 0) /\ p.body = <<>>
  BY <1>2 DEF Waiting
<1>4. /\ buf \in Seq(Tokens) /\ Len(buf) = t
      /\ \A i \in 1 .. s : i <= t => buf[i] \in {"cr", "lf"}
      /\ \A i \in LineEnds(stray) : i + 1 <= t => i \in LineEnds(buf)
      /\ lines # <<>> /\ s + 3 <= t => s + 2 \in LineEnds(buf) /\ buf[s + 1] = lines[1]
      /\ lines = <<>> /\ headEnded /\ s + 2 <= t => s + 1 \in LineEnds(buf)
      /\ \A e \in LineEnds(buf) :
           \/ e \in LineEnds(stray) /\ e + 1 <= t
           \/ lines = <<>> /\ headEnded /\ s + 2 <= t /\ e >= s + 1
           \/ lines # <<>> /\ s + 3 <= t /\ e >= s + 2
  <2>1. FirstLineOf(buf, s, t)
    BY <1>1, <1>3, FirstLines
  <2>2. QED
    BY <2>1 DEF FirstLineOf
<1>5. LineEnds(buf) \subseteq Nat /\ LineEnds(buf) # {}
  BY <1>2, <1>4 DEF LineEnds
<1>6. PICK e \in LineEnds(buf) : \A i \in LineEnds(buf) : e <= i
  BY <1>5, LeastExists
<1>7. e = FirstOf(buf) /\ e \in 1 .. t - 1
  BY <1>4, <1>6, FirstEnd DEF FirstOf
<1>8. PICK line : line = SubSeq(buf, 1, e - 1)
  OBVIOUS
<1>9. PICK tail : tail = SubSeq(buf, e + 2, t)
  OBVIOUS
<1>10. /\ Len(line) = e - 1
       /\ \A i \in 1 .. e - 1 : line[i] = buf[i]
       /\ line = <<>> => e = 1
  <2>1. /\ 1 \in Nat \ {0} /\ e - 1 \in Nat /\ e - 1 <= Len(buf) /\ 1 <= (e - 1) + 1
        /\ (e - 1) - 1 + 1 = e - 1 /\ \A i \in 1 .. e - 1 : 1 + i - 1 = i
    BY <1>4, <1>7
  <2>2. /\ line \in Seq(Tokens) /\ Len(line) = (e - 1) - 1 + 1
        /\ \A i \in 1 .. (e - 1) - 1 + 1 : line[i] = buf[1 + i - 1]
    BY <1>4, <1>8, <2>1, CutIsSeq
  <2>3. line = <<>> => Len(line) = 0
    BY EmptySeq
  <2>4. QED
    BY <1>7, <2>1, <2>2, <2>3
<1>11. tail \in Seq(Tokens) /\ Len(tail) < t
  <2>1. e + 2 \in Nat \ {0} /\ t <= Len(buf) /\ e + 2 <= t + 1
    BY <1>4, <1>7
  <2>2. tail \in Seq(Tokens) /\ Len(tail) = t - (e + 2) + 1
    BY <1>4, <1>9, <2>1, CutIsSeq
  <2>3. QED
    BY <1>7, <2>2
<1>12. PICK r : r = [p EXCEPT !.buf = tail]
  OBVIOUS
<1>13. /\ r \in Parsers /\ r.buf = tail /\ r.ok /\ r.body = <<>>
       /\ r.headers = p.headers /\ r.contentLength = p.contentLength
  BY <1>3, <1>11, <1>12 DEF Parsers
<1>14. ParseLine(p) = ParseRequestLine(r, line)
  <2>1. [p EXCEPT !.buf = SubSeq(@, e + 2, Len(@))] = r
    BY <1>2, <1>4, <1>9, <1>12
  <2>2. QED
    BY <1>2, <1>3, <1>7, <1>8, <2>1 DEF ParseLine, FirstOf
<1>15. PICK q : q = ParseLine(p)
  OBVIOUS
<1>16. ASSUME e - 1 <= s, Refusable(t)
       PROVE  Advanced(p, t, q)
  <2>1. ~(line # <<>> /\ line[Len(line)] \in RequestLines)
    <3> SUFFICES ASSUME line # <<>>
                 PROVE  line[Len(line)] \notin RequestLines
      OBVIOUS
    <3>1. e - 1 \in 1 .. s /\ e - 1 <= t /\ e - 1 \in 1 .. e - 1
      <4>1. e # 1
        <5>1. e = 1 => Len(line) = 0
          BY <1>10
        <5>2. line \in Seq(Tokens)
          <6>1. 1 \in Nat \ {0} /\ e - 1 \in Nat /\ e - 1 <= Len(buf) /\ 1 <= (e - 1) + 1
            BY <1>4, <1>7
          <6>2. QED
            BY <1>4, <1>8, <6>1, CutIsSeq
        <5>3. QED
          BY <5>1, <5>2, EmptySeq
      <4>2. QED
        BY <1>7, <1>16, <4>1
    <3>2. line[Len(line)] \in {"cr", "lf"}
      BY <1>4, <1>10, <3>1
    <3>3. QED
      BY <3>2 DEF RequestLines
  <2>2. q = [r EXCEPT !.ok = FALSE]
    BY <1>14, <1>15, <2>1 DEF ParseRequestLine
  <2>3. q \in Parsers /\ ~q.ok /\ q.buf = tail
    BY <1>13, <2>2 DEF Parsers
  <2>4. QED
    BY <1>2, <1>4, <1>11, <1>16, <2>3 DEF Advanced, Progress
<1>17. CASE e \in LineEnds(stray) /\ e + 1 <= t
  <2>1. StrayLine(t)
    BY <1>17 DEF StrayLine
  <2>2. e - 1 <= s
    BY <1>1, <1>17 DEF LineEnds
  <2>3. QED
    BY <1>15, <1>16, <2>1, <2>2 DEF Refusable
<1>18. CASE lines = <<>> /\ headEnded /\ s + 2 <= t /\ e >= s + 1
  <2>1. e <= s + 1
    BY <1>4, <1>6, <1>18
  <2>2. e - 1 <= s
    BY <1>7, <2>1
  <2>3. Share(t) = t - s
    BY <1>1, <1>18, ShareFacts
  <2>4. 2 <= Share(t)
    BY <1>18, <2>3
  <2>5. MalformedIn(Share(t))
    BY <1>18, <2>4 DEF MalformedIn
  <2>6. QED
    BY <1>15, <1>16, <2>2, <2>5 DEF Refusable
<1>19. CASE lines # <<>> /\ s + 3 <= t /\ e >= s + 2
  <2>1. e = s + 2 /\ buf[s + 1] = lines[1]
    BY <1>4, <1>6, <1>7, <1>19
  <2>2. /\ e - 1 = s + 1 /\ s + 1 \in 1 .. e - 1 /\ Len(line) = s + 1
        /\ line[Len(line)] = lines[1] /\ line # <<>>
    BY <1>10, <2>1
  <2>3. PICK m \in Nat : m = Share(t) /\ m = t - s /\ t = s + m /\ m >= 3 /\ m <= Len(Sent)
    <3>1. s <= t
      BY <1>19
    <3>2. Share(t) = t - s /\ Share(t) \in Nat /\ Share(t) <= Len(Sent)
      BY <1>1, <3>1, ShareFacts
    <3>3. QED
      BY <1>19, <3>2
  <2>4. tail = SubSeq(Sent, 3 * 1 + 1, m)
    <3>1. SubSeq(SubSeq(Stream, 1, t), e + 2, t) = SubSeq(Stream, e + 2, t)
      <4>1. PICK S \in Seq(Tokens) : S = Stream
        BY StreamShape
      <4>2. PICK b \in Nat \ {0} : b = e + 2 /\ b <= t + 1
        BY <1>7
      <4>3. t \in Nat /\ t <= Len(S)
        BY <1>2, <4>1
      <4>4. SubSeq(SubSeq(S, 1, t), b, t) = SubSeq(S, b, t)
        BY <4>2, <4>3, CutOfPrefix
      <4>5. QED
        BY <4>1, <4>2, <4>4
    <3>2. e + 2 = s + 4 /\ t = s + m /\ 3 * 1 + 1 = 4
      BY <2>1, <2>3
    <3>3. SubSeq(Stream, s + 4, s + m) = SubSeq(Sent, 4, m)
      <4>1. 4 \in Nat \ {0} /\ 4 <= m + 1
        BY <2>3
      <4>2. QED
        BY <1>1, <2>3, <4>1, StrayCut
    <3>4. QED
      BY <1>3, <1>9, <3>1, <3>2, <3>3
  <2>5. LineEnds(stray) = {}
    <3> SUFFICES ASSUME NEW i \in LineEnds(stray)
                 PROVE  FALSE
      OBVIOUS
    <3>1. i \in 1 .. s - 1
      BY <1>1 DEF LineEnds
    <3>2. i \in LineEnds(buf)
      BY <1>4, <1>19, <3>1
    <3>3. QED
      BY <1>6, <2>1, <3>1, <3>2
  <2>6. 1 \in 0 .. Len(lines) /\ lines[1] \in Texts
    BY <1>19 DEF ClientInv
  <2>7. CASE lines[1] \in RequestLines
    <3>1. q = [r EXCEPT !.version = lines[1], !.state = "kExpectHeaders"]
      BY <1>14, <1>15, <2>2, <2>7 DEF ParseRequestLine
    <3>2. /\ q \in Parsers /\ q.version = lines[1] /\ q.state = "kExpectHeaders"
          /\ q.buf = tail /\ q.body = <<>> /\ q.ok
          /\ q.headers = p.headers /\ q.contentLength = p.contentLength
      BY <1>13, <2>6, <3>1 DEF Parsers, States
    <3>3. Taken(q, 1)
      <4>1. DOMAIN p.headers = {}
        BY <1>3 DEF Taken, LastWith
      <4>2. QED
        BY <1>3, <2>7, <3>2, <4>1 DEF Taken
    <3>4. Left(q, 1, m)
      <4>1. 3 * 1 <= m /\ 1 > 0
        BY <2>3
      <4>2. /\ q.state # "kExpectRequestLine" /\ q.state # "kExpectBody"
            /\ q.state # "kGotAll" /\ q.state \notin {"kExpectBody", "kGotAll"}
        BY <3>2
      <4>3. QED
        BY <2>4, <3>2, <4>1, <4>2 DEF Left
    <3>5. Progress(q, t)
      <4>1. Len(stray) <= t
        BY <1>1, <1>19
      <4>2. Parsed(q, Share(t))
        BY <2>3, <2>6, <3>3, <3>4 DEF Parsed
      <4>3. QED
        BY <2>5, <4>1, <4>2 DEF Progress
    <3>6. QED
      BY <1>2, <1>4, <1>11, <1>15, <3>2, <3>5 DEF Advanced
  <2>8. CASE lines[1] \notin RequestLines
    <3>1. q = [r EXCEPT !.ok = FALSE]
      BY <1>14, <1>15, <2>2, <2>8 DEF ParseRequestLine
    <3>2. q \in Parsers /\ ~q.ok /\ q.buf = tail
      BY <1>13, <3>1 DEF Parsers
    <3>3. MalformedIn(Share(t))
      BY <1>19, <2>3, <2>8 DEF MalformedIn
    <3>4. QED
      BY <1>2, <1>4, <1>11, <1>15, <3>2, <3>3 DEF Advanced, Progress, Refusable
  <2>9. QED
    BY <2>7, <2>8
<1>20. QED
  BY <1>4, <1>6, <1>17, <1>18, <1>19

LEMMA TurnAdvances ==
  ASSUME ClientInv, NEW t \in Nat, t <= Len(Stream),
         NEW p \in Parsers, Progress(p, t), ~Stopped(p)
  PROVE  Advanced(p, t, Turn(p))
<1>1. p.ok /\ p.state # "kGotAll" /\ p.state \in States
  BY DEF Stopped, Parsers
<1>2. CASE Waiting(p, t)
  <2>1. p.state = "kExpectRequestLine"
    BY <1>2 DEF Waiting
  <2>2. LineEnds(p.buf) # {}
    BY <2>1 DEF Stopped
  <2>3. Turn(p) = ParseLine(p)
    BY <1>1, <2>1, <2>2 DEF Turn
  <2>4. QED
    BY <1>1, <1>2, <2>2, <2>3, FirstLineTurn
<1>3. CASE Len(stray) <= t /\ LineEnds(stray) = {} /\ Parsed(p, Share(t))
  <2>1. PICK m \in Nat : m = Share(t) /\ m <= Len(Sent)
    BY ShareFacts
  <2>2. p.state # "kExpectRequestLine"
    BY <1>1, <1>3 DEF Parsed, Left
  <2>3. Turned(p, m, Turn(p))
    BY <1>3, <2>1, <2>2, RunningTurn DEF ClientInv
  <2>4. QED
    BY <1>3, <2>1, <2>3 DEF Turned, Advanced, Progress, Refusable
<1>4. QED
  BY <1>1, <1>2, <1>3 DEF Progress

(* The loop ends because there are no more turns than tokens.              *)
LEMMA ParseLoopEnds ==
  ASSUME ClientInv, NEW t \in Nat, t <= Len(Stream),
         NEW p \in Parsers, Progress(p, t), p.ok
  PROVE  /\ ParseLoop(p) \in Parsers
         /\ Len(ParseLoop(p).buf) <= Len(p.buf)
         /\ Progress(ParseLoop(p), t)
         /\ Stopped(ParseLoop(p))
         /\ ParseLoop(p).ok \/ Refusable(t)
<1>1. PICK len \in Nat : len = Len(p.buf)
  BY BufferLength
<1>2. PICK after : /\ ParseLoop(p) = after[len]
                   /\ after[0] = p
                   /\ \A n \in Nat : after[n + 1] = Turn(after[n])
  BY <1>1, LoopTurns
<1> DEFINE Good(q, n) ==
             /\ q \in Parsers
             /\ Len(q.buf) <= len
             /\ Progress(q, t)
             /\ q.ok \/ Refusable(t)
             /\ Stopped(q) \/ Len(q.buf) <= len - n
           T == {n \in Nat : Good(after[n], n)}
<1>3. 0 \in T
  <2>1. Len(p.buf) <= len /\ Len(p.buf) <= len - 0
    BY <1>1
  <2>2. QED
    BY <1>2, <2>1
<1>4. ASSUME NEW n \in Nat, n \in T
      PROVE  n + 1 \in T
  <2>1. PICK q : q = after[n]
    OBVIOUS
  <2>2. Good(q, n)
    BY <1>4, <2>1
  <2>3. after[n + 1] = Turn(q)
    BY <1>2, <2>1
  <2>4. Good(Turn(q), n + 1)
    <3>1. CASE Stopped(q)
      <4>1. Turn(q) = q
        BY <2>2, <3>1, StoppedTurn
      <4>2. QED
        BY <2>2, <3>1, <4>1
    <3>2. CASE ~Stopped(q)
      <4>1. Advanced(q, t, Turn(q))
        BY <2>2, <3>2, TurnAdvances
      <4>2. Len(q.buf) <= len - n /\ Len(q.buf) \in Nat
        BY <2>2, <3>2, BufferLength
      <4>3. PICK r : r = Turn(q)
        OBVIOUS
      <4>4. r \in Parsers /\ Len(r.buf) < Len(q.buf) /\ Progress(r, t) /\ (r.ok \/ Refusable(t))
        BY <4>1, <4>3 DEF Advanced
      <4>5. Len(r.buf) \in Nat
        BY <4>4, BufferLength
      <4>6. Len(r.buf) <= len /\ Len(r.buf) <= len - (n + 1)
        BY <4>2, <4>4, <4>5
      <4>7. QED
        BY <4>3, <4>4, <4>6
    <3>3. QED
      BY <3>1, <3>2
  <2>5. QED
    BY <2>3, <2>4
<1>5. Nat \subseteq T
  <2> HIDE DEF T
  <2> QED
    BY <1>3, <1>4, SetInduction
<1>6. PICK q : q = ParseLoop(p)
  OBVIOUS
<1>7. Good(q, len)
  <2>1. len \in T
    BY <1>5
  <2>2. QED
    BY <1>2, <1>6, <2>1
<1>8. Stopped(q)
  <2> SUFFICES ASSUME ~Stopped(q)
               PROVE  FALSE
    OBVIOUS
  <2>1. Len(q.buf) <= len - len /\ Len(q.buf) \in Nat /\ q.buf \in Seq(Tokens)
    <3>1. q \in Parsers /\ Len(q.buf) <= len - len
      BY <1>7
    <3>2. QED
      BY <3>1, BufferLength
  <2>2. Len(q.buf) = 0
    BY <2>1
  <2>3. LineEnds(q.buf) = {}
    BY <2>2 DEF LineEnds
  <2>4. q.ok /\ q.state \in States /\ q.contentLength \in Nat
    BY <1>7 DEF Stopped, Parsers
  <2>5. q.state = "kExpectBody"
    BY <2>3, <2>4 DEF Stopped, States
  <2>6. q.contentLength > 0
    BY <1>7, <2>4, <2>5 DEF Progress, Waiting, Parsed, Left
  <2>7. QED
    BY <2>2, <2>4, <2>5, <2>6 DEF Stopped
<1>9. QED
  BY <1>1, <1>6, <1>7, <1>8

----------------------------------------------------------------------------
(* A step of the client.                                                   *)
Grown ==
  /\ UNCHANGED <<stray, nread, request>>
  /\ lines' \in Seq(Texts) /\ headEnded' \in BOOLEAN /\ payload' \in Seq({"cr", "lf"})
  /\ ~headEnded => payload = <<>>
  /\ ~headEnded' => payload' = <<>>
  /\ headEnded => headEnded' /\ lines' = lines
  /\ Len(lines) <= Len(lines') /\ \A i \in 1 .. Len(lines) : lines'[i] = lines[i]
  /\ Len(payload) <= Len(payload') /\ \A i \in 1 .. Len(payload) : payload'[i] = payload[i]

LEMMA ClientGrows ==
  ASSUME ClientInv,
         \/ \E text \in Texts : SendLine(text)
         \/ EndHead
         \/ \E token \in {"cr", "lf"} : SendPayload(token)
  PROVE  Grown
<1> USE DEF ClientInv
<1>1. ASSUME NEW text \in Texts, SendLine(text)
      PROVE  Grown
  <2>1. /\ ~headEnded /\ lines' = Append(lines, text)
        /\ UNCHANGED <<stray, headEnded, payload, nread, request>>
    BY <1>1 DEF SendLine
  <2>2. /\ lines' \in Seq(Texts) /\ Len(lines) <= Len(lines')
        /\ \A i \in 1 .. Len(lines) : lines'[i] = lines[i]
    BY <2>1, AppendProperties
  <2>3. QED
    BY <2>1, <2>2 DEF Grown
<1>2. CASE EndHead
  BY <1>2 DEF EndHead, Grown
<1>3. ASSUME NEW token \in {"cr", "lf"}, SendPayload(token)
      PROVE  Grown
  <2>1. /\ headEnded /\ payload' = Append(payload, token)
        /\ UNCHANGED <<stray, lines, headEnded, nread, request>>
    BY <1>3 DEF SendPayload
  <2>2. /\ payload' \in Seq({"cr", "lf"}) /\ Len(payload) <= Len(payload')
        /\ \A i \in 1 .. Len(payload) : payload'[i] = payload[i]
    BY <2>1, AppendProperties
  <2>3. QED
    BY <2>1, <2>2 DEF Grown
<1>4. QED
  BY <1>1, <1>2, <1>3

LEMMA SentReadFacts ==
  ASSUME ClientInv
  PROVE  /\ nread \in Nat /\ nread <= Len(Stream)
         /\ SentRead \in Nat /\ SentRead <= Len(Sent) /\ Len(Sent) \in Nat
         /\ SentRead = Share(nread)
         /\ ~headEnded => SentRead <= 3 * Len(lines)
<1>1. Len(Stream) \in Nat /\ Len(Sent) \in Nat
  BY StreamShape
<1>2. nread \in Nat /\ nread <= Len(Stream)
  BY <1>1 DEF ClientInv
<1>3. SentRead = Share(nread)
  BY DEF SentRead, Share
<1>4. SentRead \in Nat /\ SentRead <= Len(Sent)
  BY <1>2, <1>3, ShareFacts
<1>5. ~headEnded => SentRead <= 3 * Len(lines)
  <2>1. Len(Sent) = 3 * Len(lines) + (IF headEnded THEN 2 ELSE 0) + Len(payload)
    BY SentShape DEF ClientInv
  <2>2. ~headEnded => Len(payload) = 0
    BY DEF ClientInv
  <2>3. Len(lines) \in Nat
    BY DEF ClientInv
  <2>4. QED
    BY <1>4, <2>1, <2>2, <2>3
<1>6. QED
  BY <1>1, <1>2, <1>3, <1>4, <1>5

LEMMA GrownSent ==
  ASSUME ClientInv, Grown
  PROVE  /\ Sent \in Seq(Tokens) /\ Sent' \in Seq(Tokens)
         /\ Len(Sent) <= Len(Sent')
         /\ \A i \in 1 .. Len(Sent) : Sent'[i] = Sent[i]
<1>1. Extends(StreamOf(lines', headEnded', payload'), StreamOf(lines, headEnded, payload))
  BY StreamOfGrows DEF ClientInv, Grown
<1>2. Extends(Sent', Sent)
  BY <1>1 DEF Sent
<1>3. QED
  BY <1>2 DEF Extends

LEMMA GrownStream ==
  ASSUME ClientInv, Grown
  PROVE  /\ Stream \in Seq(Tokens) /\ Stream' \in Seq(Tokens)
         /\ Len(Stream) <= Len(Stream')
         /\ \A i \in 1 .. Len(Stream) : Stream'[i] = Stream[i]
<1>1. PICK a \in Seq(Tokens) : a = stray /\ a = stray'
  BY StreamShape DEF Grown
<1>2. PICK b \in Seq(Tokens), c \in Seq(Tokens) :
        /\ b = Sent /\ c = Sent'
        /\ Len(b) <= Len(c) /\ \A i \in 1 .. Len(b) : c[i] = b[i]
  BY GrownSent
<1>3. Stream = a \o b /\ Stream' = a \o c
  BY <1>1, <1>2 DEF Stream
<1>4. Extends(a \o c, a \o b)
  <2>1. /\ Len(a) \in Nat /\ Len(b) \in Nat /\ Len(c) \in Nat
        /\ a \o b \in Seq(Tokens) /\ Len(a \o b) = Len(a) + Len(b)
        /\ a \o c \in Seq(Tokens) /\ Len(a \o c) = Len(a) + Len(c)
        /\ \A i \in 1 .. Len(a) : (a \o b)[i] = a[i] /\ (a \o c)[i] = a[i]
        /\ \A i \in 1 .. Len(b) : (a \o b)[Len(a) + i] = b[i]
        /\ \A i \in 1 .. Len(c) : (a \o c)[Len(a) + i] = c[i]
    OBVIOUS
  <2>2. ASSUME NEW i \in 1 .. Len(a) + Len(b)
        PROVE  (a \o c)[i] = (a \o b)[i]
    <3>1. CASE i <= Len(a)
      <4>1. i \in 1 .. Len(a)
        BY <2>1, <3>1
      <4>2. QED
        BY <2>1, <4>1
    <3>2. CASE ~(i <= Len(a))
      <4>1. PICK j \in 1 .. Len(b) : i = Len(a) + j /\ j \in 1 .. Len(c)
        <5>1. /\ i - Len(a) \in 1 .. Len(b) /\ i = Len(a) + (i - Len(a))
              /\ i - Len(a) \in 1 .. Len(c)
          BY <1>2, <2>1, <3>2
        <5>2. QED
          BY <5>1
      <4>2. QED
        BY <1>2, <2>1, <4>1
    <3>3. QED
      BY <3>1, <3>2
  <2>3. Len(a) + Len(b) <= Len(a) + Len(c)
    BY <1>2, <2>1
  <2>4. QED
    BY <2>1, <2>2, <2>3 DEF Extends
<1>5. QED
  BY <1>3, <1>4 DEF Extends

LEMMA GrownKeepsParsed ==
  ASSUME ClientInv, Grown, request \in Parsers, Parsed(request, SentRead)
  PROVE  Parsed(request, SentRead)'
<1> SUFFICES ASSUME request.ok
             PROVE  Parsed(request, SentRead)'
  BY DEF Parsed, Grown
<1>1. PICK k \in 0 .. Len(lines) : Taken(request, k) /\ Left(request, k, SentRead)
  BY DEF Parsed
<1>2. Len(lines) \in Nat /\ Len(lines') \in Nat /\ Len(lines) <= Len(lines')
  BY DEF ClientInv, Grown
<1>3. /\ request' = request /\ SentRead' = SentRead
      /\ \A i \in 1 .. Len(lines) : lines'[i] = lines[i]
      /\ headEnded => headEnded' /\ lines' = lines
  BY DEF Grown, SentRead
<1>4. \A i \in 1 .. k : lines'[i] = lines[i]
  BY <1>2, <1>3
<1>5. Taken(request, k)'
  <2>1. \A i \in 2 .. k : i \in 1 .. k
    BY <1>2
  <2>2. k > 0 => lines'[1] \in RequestLines /\ request.version = lines'[1]
    <3>1. k > 0 => 1 \in 1 .. k
      BY <1>2
    <3>2. QED
      BY <1>1, <1>4, <3>1 DEF Taken
  <2>3. \A i \in 2 .. k : lines'[i] \in ValidHeaders /\ Key(lines'[i]) \in DOMAIN request.headers
    BY <1>1, <1>4, <2>1 DEF Taken
  <2>4. ASSUME NEW key \in DOMAIN request.headers
        PROVE  \E i \in 2 .. k : /\ Key(lines'[i]) = key
                                 /\ request.headers[key] = lines'[i]
                                 /\ \A j \in i + 1 .. k : Key(lines'[j]) # key
    <3>1. PICK i \in 2 .. k : /\ Key(lines[i]) = key
                              /\ request.headers[key] = lines[i]
                              /\ \A j \in i + 1 .. k : Key(lines[j]) # key
      BY <1>1 DEF Taken, LastWith
    <3>2. \A j \in i + 1 .. k : j \in 2 .. k
      BY <1>2
    <3>3. QED
      BY <1>4, <2>1, <3>1, <3>2
  <2>5. QED
    BY <1>1, <1>3, <2>2, <2>3, <2>4 DEF Taken, LastWith
<1>6. Left(request, k, SentRead)'
  <2>1. ASSUME NEW a \in Nat \ {0}, NEW b \in Nat, a <= b + 1, b <= SentRead
        PROVE  SubSeq(Sent', a, b) = SubSeq(Sent, a, b)
    <3>1. /\ Sent \in Seq(Tokens) /\ Sent' \in Seq(Tokens)
          /\ Len(Sent) <= Len(Sent') /\ b <= Len(Sent)
          /\ \A i \in 1 .. Len(Sent) : Sent'[i] = Sent[i]
      <4>1. Len(Sent) \in Nat /\ SentRead \in Nat /\ SentRead <= Len(Sent)
        BY SentReadFacts
      <4>2. b <= Len(Sent)
        BY <2>1, <4>1
      <4>3. QED
        BY <4>2, GrownSent
    <3>2. PICK S, S2 : S = Sent /\ S2 = Sent'
      OBVIOUS
    <3>3. SubSeq(S2, a, b) = SubSeq(S, a, b)
      BY <2>1, <3>1, <3>2, CutOfLonger
    <3>4. QED
      BY <3>2, <3>3
  <2>2. SentRead \in Nat /\ request.contentLength \in Nat /\ 3 * k <= SentRead
    BY <1>1, SentReadFacts DEF Parsers, Left
  <2>3. CASE request.state = "kExpectHeaders"
    <3>1. SubSeq(Sent', 3 * k + 1, SentRead) = SubSeq(Sent, 3 * k + 1, SentRead)
      <4>1. 3 * k + 1 \in Nat \ {0} /\ 3 * k + 1 <= SentRead + 1 /\ SentRead <= SentRead
        BY <2>2
      <4>2. QED
        BY <2>1, <2>2, <4>1
    <3>2. QED
      BY <1>1, <1>3, <2>3, <3>1 DEF Left
  <2>4. CASE request.state = "kExpectBody"
    <3>1. headEnded /\ k = Len(lines) /\ 3 * k + 2 <= SentRead
      BY <1>1, <2>4 DEF Left
    <3>2. SubSeq(Sent', 3 * k + 3, SentRead) = SubSeq(Sent, 3 * k + 3, SentRead)
      <4>1. 3 * k + 3 \in Nat \ {0} /\ 3 * k + 3 <= SentRead + 1 /\ SentRead <= SentRead
        BY <2>2, <3>1
      <4>2. QED
        BY <2>1, <2>2, <4>1
    <3>3. QED
      BY <1>1, <1>3, <2>4, <3>1, <3>2 DEF Left
  <2>5. CASE request.state = "kGotAll"
    <3>1. PICK cl \in Nat : cl = request.contentLength
      BY <2>2
    <3>2. headEnded /\ k = Len(lines) /\ 3 * k + 2 <= SentRead /\ 3 * k + 2 + cl <= SentRead
      BY <1>1, <2>5, <3>1 DEF Left
    <3>3. SubSeq(Sent', 3 * k + 3, 3 * k + 2 + cl) = SubSeq(Sent, 3 * k + 3, 3 * k + 2 + cl)
      <4>1. /\ 3 * k + 3 \in Nat \ {0} /\ 3 * k + 2 + cl \in Nat
            /\ 3 * k + 3 <= (3 * k + 2 + cl) + 1 /\ 3 * k + 2 + cl <= SentRead
        BY <3>2
      <4>2. QED
        BY <2>1, <4>1
    <3>4. SubSeq(Sent', 3 * k + 3 + cl, SentRead) = SubSeq(Sent, 3 * k + 3 + cl, SentRead)
      <4>1. 3 * k + 3 + cl \in Nat \ {0} /\ 3 * k + 3 + cl <= SentRead + 1 /\ SentRead <= SentRead
        BY <2>2, <3>2
      <4>2. QED
        BY <2>1, <2>2, <4>1
    <3>5. QED
      BY <1>1, <1>3, <2>5, <3>1, <3>2, <3>3, <3>4 DEF Left
  <2>6. request.state # "kExpectRequestLine"
    BY <1>1 DEF Left
  <2>7. QED
    BY <2>3, <2>4, <2>5, <2>6 DEF Parsers, States
<1>7. k \in 0 .. Len(lines')
  BY <1>2
<1>8. QED
  BY <1>5, <1>6, <1>7 DEF Parsed

LEMMA GrownKeepsProgress ==
  ASSUME ClientInv, Grown, request \in Parsers, Progress(request, nread)
  PROVE  Progress(request, nread)'
<1> SUFFICES ASSUME request.ok
             PROVE  Progress(request, nread)'
  BY DEF Progress, Grown
<1>1. /\ request' = request /\ nread' = nread /\ stray' = stray
      /\ Share(nread) = SentRead /\ Share(nread)' = SentRead'
  BY DEF Grown, Share, SentRead
<1>2. CASE Waiting(request, nread)
  <2>1. SubSeq(Stream', 1, nread) = SubSeq(Stream, 1, nread)
    <3>1. PICK S \in Seq(Tokens), S2 \in Seq(Tokens) :
            /\ S = Stream /\ S2 = Stream' /\ Len(S) <= Len(S2)
            /\ \A i \in 1 .. Len(S) : S2[i] = S[i]
      BY GrownStream
    <3>2. PICK t \in Nat : t = nread /\ t <= Len(S) /\ 1 \in Nat \ {0} /\ 1 <= t + 1
      BY <3>1, SentReadFacts
    <3>3. SubSeq(S2, 1, t) = SubSeq(S, 1, t)
      BY <3>1, <3>2, CutOfLonger
    <3>4. QED
      BY <3>1, <3>2, <3>3
  <2>2. Taken(request, 0)'
    BY <1>1, <1>2 DEF Waiting, Taken, LastWith
  <2>3. Waiting(request, nread)'
    BY <1>1, <1>2, <2>1, <2>2 DEF Waiting
  <2>4. QED
    BY <2>3 DEF Progress
<1>3. CASE Len(stray) <= nread /\ LineEnds(stray) = {} /\ Parsed(request, Share(nread))
  <2>1. Parsed(request, SentRead)
    BY <1>1, <1>3
  <2>2. Parsed(request, SentRead)'
    BY <2>1, GrownKeepsParsed
  <2>3. Parsed(request, Share(nread))'
    BY <1>1, <2>2
  <2>4. (Len(stray) <= nread)' /\ (LineEnds(stray) = {})'
    BY <1>1, <1>3 DEF LineEnds
  <2>5. QED
    BY <2>3, <2>4 DEF Progress
<1>4. QED
  BY <1>2, <1>3 DEF Progress

LEMMA GrownKeepsMalformed ==
  ASSUME ClientInv, Grown, MalformedIn(SentRead)
  PROVE  MalformedIn(SentRead)'
<1>1. Len(lines) \in Nat /\ Len(lines') \in Nat /\ Len(lines) <= Len(lines')
  BY DEF ClientInv, Grown
<1>2. /\ SentRead' = SentRead
      /\ \A i \in 1 .. Len(lines) : lines'[i] = lines[i]
      /\ headEnded => headEnded' /\ lines' = lines
      /\ lines \in Seq(Texts) /\ lines' \in Seq(Texts)
  BY DEF Grown, ClientInv, SentRead
<1>3. SentRead \in Nat /\ (~headEnded => SentRead <= 3 * Len(lines))
  BY SentReadFacts
<1>4. CASE lines # <<>> /\ 3 <= SentRead /\ lines[1] \notin RequestLines
  <2>1. 1 \in 1 .. Len(lines) /\ lines' # <<>>
    BY <1>1, <1>2, <1>4
  <2>2. QED
    BY <1>2, <1>4, <2>1 DEF MalformedIn
<1>5. ASSUME NEW i \in 2 .. Len(lines), 3 * i <= SentRead, lines[i] \notin ValidHeaders
      PROVE  MalformedIn(SentRead)'
  <2>1. i \in 2 .. Len(lines') /\ lines'[i] = lines[i]
    BY <1>1, <1>2
  <2>2. QED
    BY <1>2, <1>5, <2>1 DEF MalformedIn
<1>6. CASE Cardinality(KeysOf(SentRead)) > kMaxHeaderCount
  <2>1. \A j \in Nat : 3 * j <= SentRead => (j \in 2 .. Len(lines') <=> j \in 2 .. Len(lines))
    BY <1>1, <1>2, <1>3
  <2>2. \A j \in 2 .. Len(lines) : j \in Nat /\ lines'[j] = lines[j]
    BY <1>1, <1>2
  <2>3. \A j \in 2 .. Len(lines') : j \in Nat
    BY <1>1
  <2>4. KeysOf(SentRead)' = KeysOf(SentRead)
    BY <1>2, <2>1, <2>2, <2>3 DEF KeysOf
  <2>5. QED
    BY <1>6, <2>4 DEF MalformedIn
<1>7. CASE headEnded /\ lines = <<>> /\ 2 <= SentRead
  BY <1>2, <1>7 DEF MalformedIn
<1>8. QED
  BY <1>4, <1>5, <1>6, <1>7 DEF MalformedIn

LEMMA ClientKeepsInv ==
  ASSUME RequestInv, Grown
  PROVE  RequestInv'
<1>1. ClientInv
  BY DEF RequestInv
<1>2. ClientInv'
  <2>1. /\ nread \in Nat /\ nread <= Len(Stream) /\ Len(Stream) <= Len(Stream')
        /\ Stream \in Seq(Tokens) /\ Stream' \in Seq(Tokens)
    BY <1>1, GrownStream, SentReadFacts
  <2>2. nread \in 0 .. Len(Stream')
    BY <2>1
  <2>3. nread' \in 0 .. Len(Stream')
    BY <2>2 DEF Grown
  <2>4. stray' \in Seq({"cr", "lf"})
    BY <1>1 DEF ClientInv, Grown
  <2>5. QED
    BY <2>3, <2>4 DEF ClientInv, Grown
<1>3. Progress(request, nread)'
  BY <1>1, GrownKeepsProgress DEF RequestInv
<1>4. request.ok \/ nread > kMaxRequestSize \/ Refusable(nread)'
  <2>1. StrayLine(nread) => StrayLine(nread)'
    BY DEF Grown, StrayLine, LineEnds
  <2>2. Share(nread) = SentRead /\ Share(nread)' = SentRead'
    BY DEF Share, SentRead
  <2>3. MalformedIn(Share(nread)) => MalformedIn(Share(nread))'
    BY <1>1, <2>2, GrownKeepsMalformed
  <2>4. QED
    BY <2>1, <2>3 DEF RequestInv, Refusable
<1>5. request' = request /\ nread' = nread
  BY DEF Grown
<1>6. Stopped(request') /\ request' \in Parsers
  BY <1>5 DEF RequestInv
<1>7. QED
  BY <1>2, <1>3, <1>4, <1>5, <1>6 DEF RequestInv

----------------------------------------------------------------------------
(* A read.                                                                 *)
LEMMA FeedKeepsParsed ==
  ASSUME ClientInv, NEW r \in Nat, NEW n \in Nat, n > 0, r + n <= Len(Sent),
         NEW p \in Parsers, p.ok, Parsed(p, r),
         NEW q, q = [p EXCEPT !.buf = @ \o SubSeq(Sent, r + 1, r + n)]
  PROVE  /\ Len(p.buf) <= r
         /\ q \in Parsers /\ q.ok
         /\ Len(q.buf) = Len(p.buf) + n
         /\ Parsed(q, r + n)
<1>1. Sent \in Seq(Tokens) /\ Len(Sent) \in Nat
  BY StreamShape
<1>2. r \in Nat /\ r <= Len(Sent) /\ n \in Nat /\ n > 0 /\ r + n <= Len(Sent)
  BY <1>1
<1>3. PICK m \in Nat : m = r + n
  BY <1>2
<1>4. PICK data : data = SubSeq(Sent, r + 1, m)
  OBVIOUS
<1>5. data \in Seq(Tokens) /\ Len(data) = n
  <2>1. r + 1 \in Nat \ {0} /\ r + 1 <= m + 1 /\ m <= Len(Sent)
    BY <1>2, <1>3
  <2>2. data \in Seq(Tokens) /\ Len(data) = m - (r + 1) + 1
    BY <1>1, <1>4, <2>1, CutIsSeq
  <2>3. QED
    BY <1>2, <1>3, <2>2
<1>6. p.buf \in Seq(Tokens) /\ Len(p.buf) \in Nat
  BY BufferLength
<1>7. p.buf \o data \in Seq(Tokens) /\ Len(p.buf \o data) = Len(p.buf) + n
  BY <1>5, <1>6, ConcatProperties
<1>8. q = [p EXCEPT !.buf = p.buf \o data]
  BY <1>3, <1>4
<1>9. /\ q \in Parsers /\ q.ok /\ q.buf = p.buf \o data
      /\ q.state = p.state /\ q.version = p.version /\ q.headers = p.headers
      /\ q.body = p.body /\ q.contentLength = p.contentLength
  BY <1>7, <1>8 DEF Parsers
<1>10. ASSUME NEW a \in Nat \ {0}, a <= r + 1, p.buf = SubSeq(Sent, a, r)
       PROVE  Len(p.buf) <= r /\ q.buf = SubSeq(Sent, a, m)
  <2>1. Len(p.buf) = r - a + 1
    BY <1>1, <1>2, <1>10, CutIsSeq
  <2>2. r <= m /\ m <= Len(Sent)
    BY <1>2, <1>3
  <2>3. SubSeq(Sent, a, r) \o SubSeq(Sent, r + 1, m) = SubSeq(Sent, a, m)
    BY <1>1, <1>2, <1>10, <2>2, CutsJoin
  <2>4. QED
    <3>1. Len(p.buf) <= r
      BY <1>2, <2>1
    <3>2. q.buf = SubSeq(Sent, a, m)
      BY <1>4, <1>9, <1>10, <2>3
    <3>3. QED
      BY <3>1, <3>2
<1>11. PICK k \in 0 .. Len(lines) : Taken(p, k) /\ Left(p, k, r)
  BY DEF Parsed
<1>12. Taken(q, k)
  BY <1>9, <1>11 DEF Taken, LastWith
<1>13. p.contentLength \in Nat /\ 3 * k <= r
  BY <1>11 DEF Parsers, Left
<1>14. \A x \in Nat : x <= r => x <= m
  BY <1>2, <1>3
<1>15. Len(p.buf) <= r /\ Left(q, k, m)
  <2>1. CASE p.state = "kExpectHeaders"
    <3>1. 3 * k + 1 \in Nat \ {0} /\ 3 * k + 1 <= r + 1
      BY <1>2, <1>13
    <3>2. p.buf = SubSeq(Sent, 3 * k + 1, r)
      BY <1>11, <2>1 DEF Left
    <3>3. Len(p.buf) <= r /\ q.buf = SubSeq(Sent, 3 * k + 1, m)
      BY <1>10, <3>1, <3>2
    <3>4. 3 * k <= m
      BY <1>2, <1>3, <1>13
    <3>5. QED
      BY <1>9, <1>11, <2>1, <3>3, <3>4 DEF Left
  <2>2. CASE p.state = "kExpectBody"
    <3>1. headEnded /\ k = Len(lines) /\ 3 * k + 2 <= r /\ p.buf = SubSeq(Sent, 3 * k + 3, r)
      BY <1>11, <2>2 DEF Left
    <3>2. 3 * k + 3 \in Nat \ {0} /\ 3 * k + 3 <= r + 1
      BY <1>2, <3>1
    <3>3. Len(p.buf) <= r /\ q.buf = SubSeq(Sent, 3 * k + 3, m)
      BY <1>10, <3>1, <3>2
    <3>4. 3 * k <= m /\ 3 * k + 2 <= m
      <4>1. 3 * k \in Nat /\ 3 * k + 2 \in Nat
        OBVIOUS
      <4>2. QED
        BY <1>13, <1>14, <3>1, <4>1
    <3>5. QED
      BY <1>9, <1>11, <2>2, <3>1, <3>3, <3>4 DEF Left
  <2>3. CASE p.state = "kGotAll"
    <3>1. PICK cl \in Nat : cl = p.contentLength
      BY <1>13
    <3>2. /\ headEnded /\ k = Len(lines) /\ 3 * k + 2 <= r /\ 3 * k + 2 + cl <= r
          /\ p.buf = SubSeq(Sent, 3 * k + 3 + cl, r)
      BY <1>11, <2>3, <3>1 DEF Left
    <3>3. 3 * k + 3 + cl \in Nat \ {0} /\ 3 * k + 3 + cl <= r + 1
      BY <1>2, <3>2
    <3>4. Len(p.buf) <= r /\ q.buf = SubSeq(Sent, 3 * k + 3 + cl, m)
      BY <1>10, <3>2, <3>3
    <3>5. 3 * k <= m /\ 3 * k + 2 <= m /\ 3 * k + 2 + cl <= m
      <4>1. 3 * k \in Nat /\ 3 * k + 2 \in Nat /\ 3 * k + 2 + cl \in Nat
        OBVIOUS
      <4>2. QED
        BY <1>13, <1>14, <3>2, <4>1
    <3>6. QED
      BY <1>9, <1>11, <2>3, <3>1, <3>2, <3>4, <3>5 DEF Left
  <2>4. p.state # "kExpectRequestLine"
    BY <1>11 DEF Left
  <2>5. QED
    BY <2>1, <2>2, <2>3, <2>4 DEF Parsers, States
<1>16. QED
  BY <1>3, <1>7, <1>9, <1>12, <1>15 DEF Parsed

LEMMA FeedKeepsProgress ==
  ASSUME ClientInv, NEW t \in Nat, NEW n \in Nat, n > 0, t + n <= Len(Stream),
         NEW p \in Parsers, p.ok, Progress(p, t),
         NEW q, q = [p EXCEPT !.buf = @ \o SubSeq(Stream, t + 1, t + n)]
  PROVE  /\ Len(p.buf) <= t
         /\ q \in Parsers /\ q.ok
         /\ Len(q.buf) = Len(p.buf) + n
         /\ Progress(q, t + n)
<1>1. PICK S \in Seq(Tokens) : S = Stream /\ Len(S) \in Nat
  BY StreamShape
<1>2. t <= Len(S) /\ t + n <= Len(S) /\ t <= Len(Stream)
  BY <1>1
<1>3. CASE Waiting(p, t)
  <2>1. /\ p.buf = SubSeq(S, 1, t) /\ p.state = "kExpectRequestLine"
        /\ p.body = <<>> /\ Taken(p, 0)
    BY <1>1, <1>3 DEF Waiting
  <2>2. PICK data : data = SubSeq(S, t + 1, t + n)
    OBVIOUS
  <2>3. p.buf \in Seq(Tokens) /\ Len(p.buf) = t
    <3>1. 1 \in Nat \ {0} /\ 1 <= t + 1 /\ t - 1 + 1 = t
      OBVIOUS
    <3>2. QED
      BY <1>2, <2>1, <3>1, CutIsSeq
  <2>4. data \in Seq(Tokens) /\ Len(data) = n
    <3>1. /\ t + 1 \in Nat \ {0} /\ t + n \in Nat /\ t + 1 <= (t + n) + 1
          /\ (t + n) - (t + 1) + 1 = n
      OBVIOUS
    <3>2. QED
      BY <1>2, <2>2, <3>1, CutIsSeq
  <2>5. p.buf \o data = SubSeq(S, 1, t + n)
    <3>1. PICK u \in Nat : u = t + n /\ t <= u
      OBVIOUS
    <3>2. 1 \in Nat \ {0} /\ 1 <= t + 1 /\ u <= Len(S)
      BY <1>2, <3>1
    <3>3. SubSeq(S, 1, t) \o SubSeq(S, t + 1, u) = SubSeq(S, 1, u)
      BY <3>1, <3>2, CutsJoin
    <3>4. QED
      BY <2>1, <2>2, <3>1, <3>3
  <2>6. p.buf \o data \in Seq(Tokens) /\ Len(p.buf \o data) = Len(p.buf) + n
    BY <2>3, <2>4, ConcatProperties
  <2>7. q = [p EXCEPT !.buf = p.buf \o data]
    BY <1>1, <2>2
  <2>8. /\ q \in Parsers /\ q.ok /\ q.buf = p.buf \o data
        /\ q.state = p.state /\ q.version = p.version /\ q.headers = p.headers
        /\ q.body = p.body /\ q.contentLength = p.contentLength
    BY <2>6, <2>7 DEF Parsers
  <2>9. Taken(q, 0)
    BY <2>1, <2>8 DEF Taken, LastWith
  <2>10. Waiting(q, t + n)
    BY <1>1, <2>1, <2>5, <2>8, <2>9 DEF Waiting
  <2>11. QED
    BY <2>3, <2>6, <2>8, <2>10 DEF Progress
<1>4. CASE Len(stray) <= t /\ LineEnds(stray) = {} /\ Parsed(p, Share(t))
  <2>1. PICK o \in Nat : o = Len(stray)
    BY StreamShape
  <2>2. PICK r \in Nat : r = Share(t) /\ t = o + r /\ r <= t
    <3>1. Share(t) \in Nat /\ Share(t) = t - o /\ Share(t) <= t
      BY <1>2, <1>4, <2>1, ShareFacts
    <3>2. QED
      BY <3>1
  <2>3. t + n \in Nat /\ o <= t + n
    BY <1>4, <2>1
  <2>4. Share(t + n) = r + n /\ r + n <= Len(Sent)
    <3>1. Share(t + n) = (t + n) - o /\ Share(t + n) <= Len(Sent)
      BY <2>1, <2>3, ShareFacts
    <3>2. (t + n) - o = r + n
      BY <2>2
    <3>3. QED
      BY <3>1, <3>2
  <2>5. SubSeq(Stream, t + 1, t + n) = SubSeq(Sent, r + 1, r + n)
    <3>0. r + 1 \in Nat \ {0} /\ r + n \in Nat /\ r + 1 <= (r + n) + 1
      OBVIOUS
    <3>1. t + 1 = o + (r + 1) /\ t + n = o + (r + n)
      <4>1. t = o + r
        BY <2>2
      <4>2. QED
        BY <4>1
    <3>2. SubSeq(Stream, o + (r + 1), o + (r + n)) = SubSeq(Sent, r + 1, r + n)
      BY <2>1, <2>4, <3>0, StrayCut
    <3>3. QED
      BY <3>1, <3>2
  <2>6. q = [p EXCEPT !.buf = @ \o SubSeq(Sent, r + 1, r + n)]
    BY <2>5
  <2>7. /\ Len(p.buf) <= r
        /\ q \in Parsers /\ q.ok
        /\ Len(q.buf) = Len(p.buf) + n
        /\ Parsed(q, r + n)
    <3>1. Parsed(p, r) /\ r + n <= Len(Sent)
      BY <1>4, <2>2, <2>4
    <3>2. QED
      BY <2>6, <3>1, FeedKeepsParsed
  <2>8. Len(p.buf) <= t
    <3>1. Len(p.buf) \in Nat
      BY BufferLength
    <3>2. QED
      BY <2>2, <2>7, <3>1
  <2>9. QED
    BY <1>4, <2>1, <2>3, <2>4, <2>7, <2>8 DEF Progress
<1>5. QED
  BY <1>3, <1>4 DEF Progress

LEMMA ParseKeepsInv ==
  ASSUME RequestInv, NEW n \in 1 .. Len(Stream) - nread, Parse(n)
  PROVE  RequestInv'
<1>1. ClientInv /\ request \in Parsers /\ Progress(request, nread) /\ request.ok
  BY DEF RequestInv, Parse
<1>2. /\ lines' = lines /\ headEnded' = headEnded /\ payload' = payload
      /\ stray' = stray /\ nread' = nread + n
  BY DEF Parse
<1>3. Stream' = Stream /\ Sent' = Sent
  BY <1>2 DEF Stream, Sent
<1>4. Stream \in Seq(Tokens) /\ Len(Stream) \in Nat
  BY <1>1, StreamShape
<1>5. nread \in Nat /\ n \in Nat /\ n > 0 /\ nread + n \in Nat /\ nread + n <= Len(Stream)
  BY <1>1, <1>4 DEF ClientInv
<1>6. ClientInv'
  <2>1. nread' \in 0 .. Len(Stream')
    BY <1>2, <1>3, <1>4, <1>5
  <2>2. QED
    BY <1>1, <1>2, <2>1 DEF ClientInv
<1>7. PICK q : q = [request EXCEPT !.buf = @ \o SubSeq(Stream, nread + 1, nread + n)]
  OBVIOUS
<1>8. /\ Len(request.buf) <= nread
      /\ q \in Parsers /\ q.ok
      /\ Len(q.buf) = Len(request.buf) + n
      /\ Progress(q, nread + n)
  BY <1>1, <1>5, <1>7, FeedKeepsProgress
<1>9. Len(SubSeq(Stream, nread + 1, nread + n)) = n
  <2>1. nread + 1 \in Nat \ {0} /\ nread + 1 <= (nread + n) + 1
    BY <1>5
  <2>2. Len(SubSeq(Stream, nread + 1, nread + n)) = (nread + n) - (nread + 1) + 1
    BY <1>4, <1>5, <2>1, CutIsSeq
  <2>3. QED
    BY <1>5, <2>2
<1>10. Len(request.buf) \in Nat /\ kMaxRequestSize \in Nat /\ Len(request.buf) <= kMaxRequestSize
  BY <1>1, BufferLength, LimitAssumption DEF RequestInv
<1>11. PICK big \in BOOLEAN : big <=> Len(request.buf) + n > kMaxRequestSize
  OBVIOUS
<1>12. request' = IF big THEN [request EXCEPT !.ok = FALSE] ELSE ParseLoop(q)
  BY <1>7, <1>9, <1>11 DEF Parse, Fed
<1>13. PICK r : r = request'
  OBVIOUS
<1>14. /\ r \in Parsers /\ Len(r.buf) <= kMaxRequestSize
       /\ Progress(r, nread + n) /\ Stopped(r)
       /\ r.ok \/ Refusable(nread + n) \/ nread + n > kMaxRequestSize
  <2>1. CASE big
    <3>1. r = [request EXCEPT !.ok = FALSE]
      BY <1>12, <1>13, <2>1
    <3>2. r \in Parsers /\ ~r.ok /\ r.buf = request.buf
      BY <1>1, <3>1 DEF Parsers
    <3>3. nread + n > kMaxRequestSize
      BY <1>5, <1>8, <1>10, <1>11, <2>1
    <3>4. QED
      BY <1>10, <3>2, <3>3 DEF Progress, Stopped
  <2>2. CASE ~big
    <3>1. r = ParseLoop(q)
      BY <1>12, <1>13, <2>2
    <3>2. /\ r \in Parsers /\ Len(r.buf) <= Len(q.buf)
          /\ Progress(r, nread + n) /\ Stopped(r)
          /\ r.ok \/ Refusable(nread + n)
      BY <1>1, <1>5, <1>8, <3>1, ParseLoopEnds
    <3>3. Len(r.buf) <= kMaxRequestSize
      <4>1. Len(r.buf) \in Nat
        BY <3>2, BufferLength
      <4>2. QED
        BY <1>8, <1>10, <1>11, <1>5, <2>2, <3>2, <4>1
    <3>4. QED
      BY <3>2, <3>3
  <2>3. QED
    BY <2>1, <2>2
<1>15. Progress(request, nread)'
  <2> SUFFICES ASSUME r.ok
               PROVE  Progress(request, nread)'
    BY <1>13 DEF Progress
  <2>1. CASE Waiting(r, nread + n)
    <3>1. Taken(request, 0)'
      BY <1>2, <1>13, <2>1 DEF Waiting, Taken, LastWith
    <3>2. Waiting(request, nread)'
      BY <1>2, <1>3, <1>13, <2>1, <3>1 DEF Waiting
    <3>3. QED
      BY <3>2 DEF Progress
  <2>2. CASE /\ Len(stray) <= nread + n /\ LineEnds(stray) = {}
             /\ Parsed(r, Share(nread + n))
    <3>1. PICK m : m = Share(nread + n)
      OBVIOUS
    <3>2. Share(nread)' = m
      BY <1>2, <3>1 DEF Share
    <3>3. PICK k \in 0 .. Len(lines) : Taken(r, k) /\ Left(r, k, m)
      BY <2>2, <3>1 DEF Parsed
    <3>4. Taken(request, k)'
      BY <1>2, <1>13, <3>3 DEF Taken, LastWith
    <3>5. Left(request, k, Share(nread))'
      BY <1>2, <1>3, <1>13, <3>2, <3>3 DEF Left
    <3>6. Parsed(request, Share(nread))'
      BY <1>2, <3>4, <3>5 DEF Parsed
    <3>7. (Len(stray) <= nread)' /\ (LineEnds(stray) = {})'
      BY <1>2, <2>2 DEF LineEnds
    <3>8. QED
      BY <3>6, <3>7 DEF Progress
  <2>3. QED
    BY <1>14, <2>1, <2>2 DEF Progress
<1>16. Refusable(nread)' <=> Refusable(nread + n)
  <2>1. StrayLine(nread)' <=> StrayLine(nread + n)
    BY <1>2 DEF StrayLine, LineEnds
  <2>2. PICK m : m = Share(nread + n)
    OBVIOUS
  <2>3. Share(nread)' = m
    BY <1>2, <2>2 DEF Share
  <2>4. MalformedIn(Share(nread))' <=> MalformedIn(m)
    BY <1>2, <2>3 DEF MalformedIn, KeysOf
  <2>5. QED
    BY <2>1, <2>2, <2>4 DEF Refusable
<1>17. QED
  BY <1>2, <1>6, <1>13, <1>14, <1>15, <1>16 DEF RequestInv

(* A new request.                                                          *)
LEMMA NewRequestFields ==
  /\ NewRequest \in [state : {"kExpectRequestLine"}, buf : {<<>>}, version : {""},
                     headers : {<<>>}, body : {<<>>}, contentLength : {0}, ok : {TRUE}]
  /\ NewRequest.state = "kExpectRequestLine"
  /\ NewRequest.ok
  /\ NewRequest.contentLength = 0 /\ NewRequest.version = ""
  /\ NewRequest.buf = <<>> /\ NewRequest.body = <<>> /\ NewRequest.headers = <<>>
BY DEF NewRequest

(* The first request of a connection, and one behind stray tokens.         *)
Fresh ==
  /\ stray \in Seq({"cr", "lf"})
  /\ lines = <<>> /\ headEnded = FALSE /\ payload = <<>> /\ nread = 0
  /\ request = NewRequest

LEMMA FreshHolds == Fresh => RequestInv
<1> SUFFICES ASSUME Fresh
             PROVE  RequestInv
  OBVIOUS
<1>1. /\ lines \in Seq(Texts) /\ headEnded \in BOOLEAN /\ payload \in Seq({"cr", "lf"})
      /\ Len(lines) = 0 /\ Len(payload) = 0 /\ payload = <<>>
      /\ ~headEnded /\ nread = 0
  <2>1. \A S : <<>> \in Seq(S) /\ Len(<<>>) = 0
    BY EmptySeq
  <2>2. QED
    BY <2>1 DEF Fresh
<1>2. PICK p : p = NewRequest /\ p = request
  BY DEF Fresh
<1>3. /\ p.state = "kExpectRequestLine" /\ p.ok /\ p.contentLength = 0 /\ p.version = ""
      /\ p.buf = <<>> /\ p.body = <<>> /\ p.headers = <<>>
  BY <1>2, NewRequestFields
<1>4. DOMAIN p.headers = {} /\ p.headers \in HeaderMaps
  <2>1. <<>> \in Seq(ValidHeaders) /\ Len(<<>>) = 0
    BY EmptySeq
  <2>2. DOMAIN (<<>>) = 1 .. 0 /\ <<>> \in [1 .. 0 -> ValidHeaders]
    BY <2>1, LenProperties
  <2>3. 1 .. 0 = {}
    OBVIOUS
  <2>4. QED
    BY <1>3, <2>2, <2>3 DEF HeaderMaps
<1>5. p.buf \in Seq(Tokens) /\ Len(p.buf) = 0 /\ p.body \in Seq(Tokens)
  BY <1>3, EmptySeq
<1>6. p \in Parsers
  <2>1. p \in [state : {"kExpectRequestLine"}, buf : {<<>>}, version : {""},
               headers : {<<>>}, body : {<<>>}, contentLength : {0}, ok : {TRUE}]
    BY <1>2, NewRequestFields
  <2>2. /\ {"kExpectRequestLine"} \subseteq States /\ {""} \subseteq Texts \cup {""}
        /\ {0} \subseteq Nat /\ {TRUE} \subseteq BOOLEAN
    BY DEF States
  <2>3. {<<>>} \subseteq Seq(Tokens) /\ {<<>>} \subseteq HeaderMaps
    BY <1>3, <1>4, <1>5
  <2>4. QED
    BY <2>1, <2>2, <2>3 DEF Parsers
<1>7. Len(Stream) \in Nat
  <2>1. PICK a \in Seq(Tokens) : a = stray
    <3>1. {"cr", "lf"} \subseteq Tokens /\ stray \in Seq({"cr", "lf"})
      BY TextFacts DEF Fresh
    <3>2. Seq({"cr", "lf"}) \subseteq Seq(Tokens)
      BY <3>1, SeqMonotonic
    <3>3. QED
      BY <3>1, <3>2
  <2>2. PICK b \in Seq(Tokens) : b = Sent
    BY <1>1, SentShape
  <2>3. Stream = a \o b
    BY <2>1, <2>2 DEF Stream
  <2>4. QED
    BY <2>3
<1>8. ClientInv
  <2>1. nread \in 0 .. Len(Stream)
    BY <1>1, <1>7
  <2>2. stray \in Seq({"cr", "lf"})
    BY DEF Fresh
  <2>3. QED
    BY <1>1, <2>1, <2>2 DEF ClientInv
<1> HIDE DEF Fresh
<1>9. PICK k : k = 0
  OBVIOUS
<1>10. Taken(p, k)
  <2>1. Cardinality(DOMAIN p.headers) = 0 /\ 0 <= kMaxHeaderCount
    BY <1>4, FS_EmptySet, LimitAssumption
  <2>2. \A i \in 2 .. k : FALSE
    BY <1>9
  <2>3. QED
    <3>1. ~(k > 0)
      BY <1>9
    <3>2. DOMAIN p.headers = {} /\ p.contentLength = 0
      BY <1>3, <1>4
    <3>3. Cardinality(DOMAIN p.headers) <= kMaxHeaderCount
      BY <2>1
    <3>4. QED
      BY <2>2, <3>1, <3>2, <3>3 DEF Taken
<1>11. Waiting(p, nread)
  <2>1. SubSeq(Stream, 1, 0) = <<>>
    BY SubSeqEmpty
  <2>2. QED
    BY <1>1, <1>3, <1>9, <1>10, <2>1 DEF Waiting
<1>12. Stopped(p)
  <2>1. LineEnds(p.buf) = {}
    BY <1>5 DEF LineEnds
  <2>2. QED
    BY <1>3, <2>1 DEF Stopped
<1>13. Len(p.buf) <= kMaxRequestSize
  BY <1>5, LimitAssumption
<1>14. QED
  BY <1>2, <1>3, <1>6, <1>8, <1>9, <1>10, <1>11, <1>12, <1>13 DEF RequestInv, Progress

(* What has not been read when a request is complete is payload.           *)
LEMMA SurplusIsStray ==
  ASSUME RequestInv, request.ok, request.state = "kGotAll"
  PROVE  SubSeq(Stream, nread + 1, Len(Stream)) \in Seq({"cr", "lf"})
<1>1. ClientInv
  BY DEF RequestInv
<1>2. PICK o \in Nat : o = Len(stray)
  BY <1>1, StreamShape
<1>3. PICK t \in Nat : t = nread /\ t <= Len(Stream)
  BY <1>1, SentReadFacts
<1>4. o <= t /\ Parsed(request, Share(t))
  BY <1>2, <1>3 DEF RequestInv, Progress, Waiting
<1>5. PICK h \in Nat : h = 3 * Len(lines) + 2
  BY <1>1 DEF ClientInv
<1>6. headEnded /\ h <= Share(t) /\ Share(t) = t - o
  <2>1. PICK k \in 0 .. Len(lines) : Left(request, k, Share(t))
    BY <1>4 DEF Parsed
  <2>2. headEnded /\ h <= Share(t)
    BY <1>5, <2>1 DEF Left
  <2>3. QED
    BY <1>1, <1>2, <1>3, <1>4, <2>2, ShareFacts
<1>7. PICK S \in Seq(Tokens) : S = Stream /\ Len(S) \in Nat
  BY <1>1, StreamShape
<1>8. PICK n \in Nat : n = Len(payload) /\ Len(S) = o + h + n
  <2>1. Len(payload) \in Nat
    BY <1>1 DEF ClientInv
  <2>2. Len(S) = o + Len(Sent)
    BY <1>1, <1>2, <1>7, StreamShape
  <2>3. Len(Sent) = 3 * Len(lines) + (IF headEnded THEN 2 ELSE 0) + Len(payload)
    BY <1>1, SentShape DEF ClientInv
  <2>4. QED
    BY <1>5, <1>6, <2>1, <2>2, <2>3
<1>9. ASSUME NEW i \in 1 .. n
      PROVE  S[(o + h) + i] \in {"cr", "lf"}
  <2>1. Sent[h + i] = payload[i]
    BY <1>1, <1>5, <1>6, <1>8, SentShape DEF ClientInv
  <2>2. h + i \in 1 .. Len(Sent) /\ o + (h + i) = (o + h) + i
    <3>1. Len(S) = o + Len(Sent) /\ Len(Sent) \in Nat
      BY <1>1, <1>2, <1>7, StreamShape
    <3>2. QED
      BY <1>8, <3>1
  <2>3. S[o + (h + i)] = Sent[h + i]
    BY <1>1, <1>2, <1>7, <2>2, StreamShape
  <2>4. payload[i] \in {"cr", "lf"}
    BY <1>1, <1>8 DEF ClientInv
  <2>5. QED
    BY <2>1, <2>2, <2>3, <2>4
<1>10. ASSUME NEW j \in t + 1 .. Len(S)
       PROVE  S[j] \in {"cr", "lf"}
  <2>1. j - (o + h) \in 1 .. n /\ (o + h) + (j - (o + h)) = j
    BY <1>6, <1>8
  <2>2. QED
    BY <1>9, <2>1
<1>11. SubSeq(S, t + 1, Len(S)) \in Seq({"cr", "lf"})
  <2>1. t + 1 \in Int /\ Len(S) \in Int
    BY <1>7
  <2>2. QED
    BY <1>10, <2>1, SubSeqProperties
<1>12. QED
  BY <1>3, <1>7, <1>11

LEMMA ResetKeepsInv == RequestInv /\ (Reset \/ NewConnection) => RequestInv'
<1>1. RequestInv /\ (Reset \/ NewConnection) => Fresh'
  <2>1. ASSUME RequestInv, Reset
        PROVE  Fresh'
    <3>1. stray' \in Seq({"cr", "lf"})
      BY <2>1, SurplusIsStray DEF Reset, NextRequest
    <3>2. QED
      BY <2>1, <3>1 DEF Reset, NextRequest, Fresh, NewRequest
  <2>2. ASSUME NewConnection
        PROVE  Fresh'
    <3>1. <<>> \in Seq({"cr", "lf"})
      BY EmptySeq
    <3>2. QED
      BY <2>2, <3>1 DEF NewConnection, Fresh, NewRequest
  <2>3. QED
    BY <2>1, <2>2
<1>2. QED
  BY <1>1, FreshHolds, PTL

LEMMA RequestInvHolds == Spec => []RequestInv
<1>1. Init => RequestInv
  <2>1. <<>> \in Seq({"cr", "lf"})
    BY EmptySeq
  <2>2. QED
    BY <2>1, FreshHolds DEF Init, Fresh
<1>2. RequestInv /\ [Next]_vars => RequestInv'
  <2> SUFFICES ASSUME RequestInv, [Next]_vars
               PROVE  RequestInv'
    OBVIOUS
  <2>1. CASE \/ \E text \in Texts : SendLine(text)
             \/ EndHead
             \/ \E token \in {"cr", "lf"} : SendPayload(token)
    <3>1. Grown
      BY <2>1, ClientGrows DEF RequestInv
    <3>2. QED
      BY <3>1, ClientKeepsInv
  <2>2. ASSUME NEW n \in 1 .. Len(Stream) - nread, Parse(n)
        PROVE  RequestInv'
    BY <2>2, ParseKeepsInv
  <2>3. CASE Reset \/ NewConnection
    BY <2>3, ResetKeepsInv
  <2>4. CASE UNCHANGED vars
    <3>1. Grown
      BY <2>4 DEF vars, Grown, RequestInv, ClientInv
    <3>2. QED
      BY <3>1, ClientKeepsInv
  <2>5. QED
    BY <2>1, <2>2, <2>3, <2>4 DEF Next
<1>3. QED
  BY <1>1, <1>2, PTL DEF Spec

----------------------------------------------------------------------------
(* The types of the parser and its client, and the bound on what it        *)
(* buffers, whatever is sent (HttpRequest.cpp:28-31).                      *)
THEOREM TypesHold == Spec => []TypeOK
<1>1. RequestInv => TypeOK
  BY DEF RequestInv, ClientInv, Parsers, States, TypeOK
<1>2. QED
  BY <1>1, RequestInvHolds, PTL

----------------------------------------------------------------------------
(* What has been received, line by line.                                   *)
LEMMA ReceivedShape ==
  ASSUME ClientInv
  PROVE  /\ Received \in Seq(Texts) /\ Len(Received) \in 0 .. Len(lines)
         /\ \A i \in 1 .. Len(Received) : Received[i] = lines[i]
         /\ \A i \in 1 .. Len(lines) : 3 * i <= SentRead <=> i <= Len(Received)
<1>1. /\ lines \in Seq(Texts) /\ Len(lines) \in Nat
      /\ SentRead \in Nat
  BY SentReadFacts DEF ClientInv
<1>2. PICK r \in Nat : r = SentRead \div 3
  BY <1>1
<1>3. \A i \in Nat : 3 * i <= SentRead <=> i <= r
  BY <1>1, <1>2
<1>4. PICK m \in Nat : m = SmallerOf(r, Len(lines))
  BY <1>1, <1>2 DEF SmallerOf
<1>5. m <= Len(lines) /\ \A i \in 1 .. Len(lines) : i <= r <=> i <= m
  BY <1>1, <1>2, <1>4 DEF SmallerOf
<1>6. /\ SubSeq(lines, 1, m) \in Seq(Texts) /\ Len(SubSeq(lines, 1, m)) = m - 1 + 1
      /\ \A i \in 1 .. m - 1 + 1 : SubSeq(lines, 1, m)[i] = lines[1 + i - 1]
  <2>1. 1 \in Nat \ {0} /\ 1 <= m + 1
    BY <1>4
  <2>2. QED
    BY <1>1, <1>4, <1>5, <2>1, CutIsSeq
<1>7. Received = SubSeq(lines, 1, m)
  BY <1>2, <1>4 DEF Received
<1>8. m - 1 + 1 = m /\ \A i \in 1 .. m : 1 + i - 1 = i
  OBVIOUS
<1>9. Len(Received) = m /\ \A i \in 1 .. m : Received[i] = lines[i]
  BY <1>6, <1>7, <1>8
<1>10. \A i \in 1 .. Len(lines) : 3 * i <= SentRead <=> i <= m
  BY <1>1, <1>3, <1>5
<1>11. m \in 0 .. Len(lines)
  BY <1>1, <1>5
<1>12. QED
  BY <1>6, <1>7, <1>9, <1>10, <1>11

LEMMA HeadersShape ==
  ASSUME ClientInv
  PROVE  /\ Received = <<>> <=> Len(Received) = 0
         /\ Received # <<>> => Head(Received) = lines[1]
         /\ DOMAIN Headers = 1 .. Len(Received) - 1
         /\ \A i \in 1 .. Len(Received) - 1 : Headers[i] = lines[i + 1]
<1>1. /\ Received \in Seq(Texts) /\ Len(Received) \in Nat
      /\ \A i \in 1 .. Len(Received) : Received[i] = lines[i]
  <2>1. Len(lines) \in Nat
    BY DEF ClientInv
  <2>2. QED
    BY <2>1, ReceivedShape
<1>2. CASE Received = <<>>
  <2>1. Len(Received) = 0 /\ Headers = <<>> /\ DOMAIN Headers = 1 .. 0
    <3>1. <<>> \in Seq(Texts) /\ Len(<<>>) = 0
      BY EmptySeq
    <3>2. DOMAIN (<<>>) = 1 .. 0
      BY <3>1, LenProperties
    <3>3. QED
      BY <1>2, <3>1, <3>2 DEF Headers
  <2>2. 1 .. 0 = {} /\ 1 .. 0 - 1 = {}
    OBVIOUS
  <2>3. QED
    BY <1>2, <2>1, <2>2
<1>3. CASE Received # <<>>
  <2> HIDE DEF Received
  <2>1. Len(Received) > 0 /\ Head(Received) = Received[1] /\ 1 \in 1 .. Len(Received)
    BY <1>1, <1>3
  <2>2. /\ Tail(Received) \in Seq(Texts) /\ Len(Tail(Received)) = Len(Received) - 1
        /\ \A i \in 1 .. Len(Tail(Received)) : Tail(Received)[i] = Received[i + 1]
    BY <1>1, <1>3, HeadTailProperties
  <2>3. Headers = Tail(Received)
    BY <1>3 DEF Headers
  <2>4. DOMAIN Headers = 1 .. Len(Received) - 1
    BY <2>2, <2>3, LenProperties
  <2>5. \A i \in 1 .. Len(Received) - 1 : i + 1 \in 1 .. Len(Received)
    BY <1>1
  <2>6. QED
    BY <1>1, <1>3, <2>1, <2>2, <2>3, <2>4, <2>5
<1>4. QED
  BY <1>2, <1>3

LEMMA KeysReceived ==
  ASSUME ClientInv
  PROVE  {Key(Headers[i]) : i \in DOMAIN Headers} = KeysOf(SentRead)
<1>1. /\ DOMAIN Headers = 1 .. Len(Received) - 1
      /\ \A i \in 1 .. Len(Received) - 1 : Headers[i] = lines[i + 1]
  BY HeadersShape
<1>2. /\ Len(lines) \in Nat /\ Len(Received) \in 0 .. Len(lines)
      /\ \A i \in 1 .. Len(lines) : 3 * i <= SentRead <=> i <= Len(Received)
  BY ReceivedShape DEF ClientInv
<1>3. ASSUME NEW i \in DOMAIN Headers
      PROVE  Key(Headers[i]) \in KeysOf(SentRead)
  <2>1. i + 1 \in 2 .. Len(lines) /\ i + 1 \in 1 .. Len(lines) /\ i + 1 <= Len(Received)
    BY <1>1, <1>2
  <2>2. 3 * (i + 1) <= SentRead /\ Headers[i] = lines[i + 1]
    BY <1>1, <1>2, <2>1
  <2>3. QED
    BY <2>1, <2>2 DEF KeysOf
<1>4. ASSUME NEW i \in 2 .. Len(lines), 3 * i <= SentRead
      PROVE  Key(lines[i]) \in {Key(Headers[j]) : j \in DOMAIN Headers}
  <2>1. PICK j \in Nat : j + 1 = i /\ j > 0
    <3>1. i - 1 \in Nat /\ (i - 1) + 1 = i /\ i - 1 > 0
      BY <1>2
    <3>2. QED
      BY <3>1
  <2>2. i \in 1 .. Len(lines)
    BY <1>2
  <2>3. i <= Len(Received)
    BY <1>2, <1>4, <2>2
  <2>4. j \in 1 .. Len(Received) - 1
    BY <1>2, <2>1, <2>3
  <2>5. QED
    BY <1>1, <2>1, <2>4
<1>5. QED
  BY <1>3, <1>4 DEF KeysOf

LEMMA MalformedIff ==
  ASSUME ClientInv
  PROVE  Malformed <=> Refusable(nread)
<1>1. /\ DOMAIN Headers = 1 .. Len(Received) - 1
      /\ \A i \in 1 .. Len(Received) - 1 : Headers[i] = lines[i + 1]
      /\ Received = <<>> <=> Len(Received) = 0
      /\ Received # <<>> => Head(Received) = lines[1]
  BY HeadersShape
<1>2. /\ Len(lines) \in Nat /\ Len(Received) \in 0 .. Len(lines)
      /\ \A i \in 1 .. Len(lines) : 3 * i <= SentRead <=> i <= Len(Received)
  BY ReceivedShape DEF ClientInv
<1>3. lines = <<>> <=> Len(lines) = 0
  BY DEF ClientInv
<1>4. SentRead \in Nat
  BY SentReadFacts
<1>5. Received # <<>> <=> lines # <<>> /\ 3 <= SentRead
  <2>1. Len(lines) > 0 => (3 * 1 <= SentRead <=> 1 <= Len(Received))
    BY <1>2
  <2>2. QED
    BY <1>1, <1>2, <1>3, <1>4, <2>1
<1>6. (Received # <<>> /\ Head(Received) \notin RequestLines)
        <=> (lines # <<>> /\ 3 <= SentRead /\ lines[1] \notin RequestLines)
  BY <1>1, <1>5
<1>7. (\E i \in DOMAIN Headers : Headers[i] \notin ValidHeaders)
        <=> (\E i \in 2 .. Len(lines) : 3 * i <= SentRead /\ lines[i] \notin ValidHeaders)
  <2>1. ASSUME NEW i \in DOMAIN Headers, Headers[i] \notin ValidHeaders
        PROVE  \E j \in 2 .. Len(lines) : 3 * j <= SentRead /\ lines[j] \notin ValidHeaders
    <3>1. i + 1 \in 2 .. Len(lines) /\ i + 1 \in 1 .. Len(lines) /\ i + 1 <= Len(Received)
      BY <1>1, <1>2
    <3>2. 3 * (i + 1) <= SentRead /\ lines[i + 1] \notin ValidHeaders
      BY <1>1, <1>2, <2>1, <3>1
    <3>3. QED
      BY <3>1, <3>2
  <2>2. ASSUME NEW i \in 2 .. Len(lines), 3 * i <= SentRead, lines[i] \notin ValidHeaders
        PROVE  \E j \in DOMAIN Headers : Headers[j] \notin ValidHeaders
    <3>1. i \in 1 .. Len(lines)
      BY <1>2
    <3>2. i <= Len(Received)
      BY <1>2, <2>2, <3>1
    <3>3. PICK j \in 1 .. Len(Received) - 1 : j + 1 = i
      <4>1. i - 1 \in 1 .. Len(Received) - 1 /\ (i - 1) + 1 = i
        BY <1>2, <3>2
      <4>2. QED
        BY <4>1
    <3>4. QED
      BY <1>1, <2>2, <3>3
  <2>3. QED
    BY <2>1, <2>2
<1>8. Cardinality({Key(Headers[i]) : i \in DOMAIN Headers}) > kMaxHeaderCount
        <=> Cardinality(KeysOf(SentRead)) > kMaxHeaderCount
  BY KeysReceived
<1>9. HeadRead /\ lines = <<>> <=> headEnded /\ lines = <<>> /\ 2 <= SentRead
  <2>1. Len(lines) = 0 => 3 * Len(lines) + 2 = 2
    OBVIOUS
  <2>2. QED
    BY <1>3, <1>4, <2>1 DEF HeadRead
<1>10. Malformed <=> StrayLine(nread) \/ MalformedIn(SentRead)
  BY <1>6, <1>7, <1>8, <1>9, Zenon DEF Malformed, MalformedIn, StrayLine
<1>11. SentRead = Share(nread)
  BY SentReadFacts
<1>12. QED
  BY <1>10, <1>11 DEF Refusable

(* A request is refused only for what was sent.                            *)
THEOREM RefusalsAreJustified == Spec => []RefusedForAReason
<1>1. RequestInv => RefusedForAReason
  BY MalformedIff DEF RequestInv, RefusedForAReason
<1>2. QED
  BY <1>1, RequestInvHolds, PTL

----------------------------------------------------------------------------
(* When parse() has returned, a request that is not refused has taken      *)
(* every line that has been received.                                      *)
LEMMA AllTakenBehindFirst ==
  ASSUME RequestInv, request.ok, ~Waiting(request, nread)
  PROVE  /\ Taken(request, Len(Received)) /\ Left(request, Len(Received), SentRead)
         /\ HeadRead <=> request.state \in {"kExpectBody", "kGotAll"}
         /\ ~StrayLine(nread)
<1>0. ~StrayLine(nread)
  BY DEF RequestInv, Progress, StrayLine
<1>1. ClientInv /\ request \in Parsers /\ Stopped(request)
  BY DEF RequestInv
<1>2. PICK k \in 0 .. Len(lines) : Taken(request, k) /\ Left(request, k, SentRead)
  <2>1. Parsed(request, Share(nread)) /\ Share(nread) = SentRead
    BY <1>1, SentReadFacts DEF RequestInv, Progress
  <2>2. Parsed(request, SentRead)
    BY <2>1
  <2>3. QED
    BY <2>2 DEF Parsed
<1>3. Len(lines) \in Nat /\ SentRead \in Nat /\ SentRead <= Len(Sent) /\ 3 * k <= SentRead
  BY <1>1, <1>2, SentReadFacts DEF ClientInv, Left
<1>4. /\ Len(Received) \in 0 .. Len(lines)
      /\ \A i \in 1 .. Len(lines) : 3 * i <= SentRead <=> i <= Len(Received)
  BY <1>1, ReceivedShape
<1>5. k <= Len(Received)
  <2>1. k > 0 => k \in 1 .. Len(lines)
    BY <1>3
  <2>2. QED
    BY <1>3, <1>4, <2>1
<1>6. CASE request.state \in {"kExpectBody", "kGotAll"}
  <2>1. headEnded /\ k = Len(lines) /\ 3 * k + 2 <= SentRead
    BY <1>2, <1>6 DEF Left
  <2>2. k = Len(Received)
    BY <1>4, <1>5, <2>1
  <2>3. SentRead >= 3 * Len(lines) + 2
    BY <1>3, <2>1
  <2>4. HeadRead
    BY <2>1, <2>3 DEF HeadRead
  <2>5. QED
    BY <1>0, <1>2, <1>6, <2>2, <2>4
<1>7. CASE request.state = "kExpectHeaders"
  <2>1. request.buf = SubSeq(Sent, 3 * k + 1, SentRead)
    BY <1>2, <1>7 DEF Left
  <2>2. LineEnds(request.buf) = {}
    BY <1>1, <1>7 DEF Stopped
  <2>3. PICK buf : buf = request.buf
    OBVIOUS
  <2>4. /\ k < Len(lines) /\ 3 * k + 3 <= SentRead => 2 \in LineEnds(buf)
        /\ k = Len(lines) /\ headEnded /\ 3 * k + 2 <= SentRead => 1 \in LineEnds(buf)
    BY <1>1, <1>3, <2>1, <2>3, LinesInBuffer DEF ClientInv
  <2>5. /\ ~(k < Len(lines) /\ 3 * k + 3 <= SentRead)
        /\ ~(k = Len(lines) /\ headEnded /\ 3 * k + 2 <= SentRead)
    BY <2>2, <2>3, <2>4
  <2>6. k = Len(Received)
    <3>1. CASE k < Len(lines)
      <4>1. k + 1 \in 1 .. Len(lines) /\ ~(3 * (k + 1) <= SentRead)
        BY <1>3, <2>5, <3>1
      <4>2. ~(k + 1 <= Len(Received))
        BY <1>4, <4>1
      <4>3. QED
        BY <1>4, <1>5, <4>2
    <3>2. CASE k = Len(lines)
      BY <1>4, <1>5, <3>2
    <3>3. QED
      BY <3>1, <3>2
  <2>7. ~HeadRead
    <3> SUFFICES ASSUME headEnded, SentRead >= 3 * Len(lines) + 2
                 PROVE  FALSE
      BY DEF HeadRead
    <3>1. CASE k < Len(lines)
      BY <1>3, <2>5, <3>1
    <3>2. CASE k = Len(lines)
      <4>1. 3 * k + 2 <= SentRead
        BY <1>3, <3>2
      <4>2. QED
        BY <2>5, <3>2, <4>1
    <3>3. QED
      BY <3>1, <3>2
  <2>8. QED
    BY <1>0, <1>2, <1>7, <2>6, <2>7
<1>8. request.state # "kExpectRequestLine"
  BY <1>2 DEF Left
<1>9. QED
  BY <1>1, <1>6, <1>7, <1>8 DEF Parsers, States

LEMMA NothingTakenYet ==
  ASSUME RequestInv, request.ok, Waiting(request, nread)
  PROVE  Len(Received) = 0 /\ ~HeadRead /\ ~StrayLine(nread)
<1>1. ClientInv /\ Stopped(request)
  BY DEF RequestInv
<1>2. /\ request.state = "kExpectRequestLine"
      /\ request.buf = SubSeq(Stream, 1, nread) /\ LineEnds(request.buf) = {}
  BY <1>1 DEF Waiting, Stopped
<1>3. PICK t \in Nat : t = nread /\ t <= Len(Stream)
  BY <1>1, SentReadFacts
<1>4. PICK s \in Nat : s = Len(stray)
  BY <1>1, StreamShape
<1>5. PICK buf : buf = request.buf
  OBVIOUS
<1>6. buf = SubSeq(Stream, 1, t) /\ LineEnds(buf) = {}
  BY <1>2, <1>3, <1>5
<1>7. FirstLineOf(buf, s, t)
  BY <1>1, <1>3, <1>4, <1>6, FirstLines
<1>8. /\ \A i \in LineEnds(stray) : ~(i + 1 <= t)
      /\ ~(lines # <<>> /\ s + 3 <= t)
      /\ ~(lines = <<>> /\ headEnded /\ s + 2 <= t)
  BY <1>6, <1>7 DEF FirstLineOf
<1>9. PICK m \in Nat : m = SentRead /\ (m > 0 => t = s + m)
  <2>1. SentRead \in Nat /\ SentRead = Share(t)
    BY <1>1, <1>3, SentReadFacts
  <2>2. Share(t) > 0 => t = s + Share(t)
    BY <1>1, <1>3, <1>4, ShareFacts
  <2>3. QED
    BY <2>1, <2>2
<1>10. PICK N \in Nat : N = Len(lines) /\ (lines = <<>> <=> N = 0)
  BY <1>1 DEF ClientInv
<1>11. Len(Received) = 0
  <2>1. /\ Len(Received) \in 0 .. N
        /\ \A i \in 1 .. N : 3 * i <= m <=> i <= Len(Received)
    BY <1>1, <1>9, <1>10, ReceivedShape
  <2>2. N > 0 => ~(3 <= m)
    BY <1>8, <1>9, <1>10
  <2>3. N > 0 => 1 \in 1 .. N /\ 3 * 1 = 3
    OBVIOUS
  <2>4. N > 0 => ~(1 <= Len(Received))
    BY <2>1, <2>2, <2>3
  <2>5. QED
    BY <2>1, <2>4
<1>12. ~HeadRead
  <2> SUFFICES ASSUME headEnded, m >= 3 * N + 2
               PROVE  FALSE
    BY <1>9, <1>10 DEF HeadRead
  <2>1. CASE N = 0
    <3>1. m >= 2
      BY <2>1
    <3>2. QED
      BY <1>8, <1>9, <1>10, <2>1, <3>1
  <2>2. CASE N > 0
    <3>1. m >= 3
      BY <2>2
    <3>2. QED
      BY <1>8, <1>9, <1>10, <2>2, <3>1
  <2>3. QED
    BY <2>1, <2>2
<1>13. ~StrayLine(nread)
  BY <1>3, <1>8 DEF StrayLine
<1>14. QED
  BY <1>11, <1>12, <1>13

LEMMA AllTaken ==
  ASSUME RequestInv, request.ok
  PROVE  /\ Taken(request, Len(Received))
         /\ Len(Received) > 0 => Left(request, Len(Received), SentRead)
         /\ HeadRead => Left(request, Len(Received), SentRead)
         /\ HeadRead <=> request.state \in {"kExpectBody", "kGotAll"}
         /\ ~StrayLine(nread)
<1>1. CASE Waiting(request, nread)
  <2>1. Len(Received) = 0 /\ ~HeadRead /\ ~StrayLine(nread)
    BY <1>1, NothingTakenYet
  <2>2. Taken(request, 0) /\ request.state = "kExpectRequestLine"
    BY <1>1 DEF Waiting
  <2>3. QED
    BY <2>1, <2>2
<1>2. CASE ~Waiting(request, nread)
  BY <1>2, AllTakenBehindFirst
<1>3. QED
  BY <1>1, <1>2

LEMMA TakenIsWellFormed ==
  ASSUME RequestInv, request.ok
  PROVE  ~Malformed
<1>1. PICK k : k = Len(Received)
  OBVIOUS
<1>2. /\ Taken(request, k) /\ (HeadRead => Left(request, k, SentRead))
      /\ ~StrayLine(nread)
  BY <1>1, AllTaken
<1>3. /\ Len(lines) \in Nat /\ k \in 0 .. Len(lines)
      /\ \A i \in 1 .. Len(lines) : 3 * i <= SentRead <=> i <= k
  BY <1>1, ReceivedShape DEF RequestInv, ClientInv
<1>4. SentRead \in Nat /\ (lines = <<>> <=> Len(lines) = 0) /\ lines \in Seq(Texts)
  BY SentReadFacts DEF RequestInv, ClientInv
<1>5. ~(lines # <<>> /\ 3 <= SentRead /\ lines[1] \notin RequestLines)
  <2> SUFFICES ASSUME lines # <<>>, 3 <= SentRead
               PROVE  lines[1] \in RequestLines
    OBVIOUS
  <2>1. 1 \in 1 .. Len(lines) /\ 3 * 1 <= SentRead
    BY <1>3, <1>4
  <2>2. k > 0
    BY <1>3, <2>1
  <2>3. QED
    BY <1>2, <2>2 DEF Taken
<1>6. ASSUME NEW i \in 2 .. Len(lines), 3 * i <= SentRead
      PROVE  lines[i] \in ValidHeaders /\ Key(lines[i]) \in DOMAIN request.headers
  <2>1. i \in 1 .. Len(lines)
    BY <1>3
  <2>2. i <= k
    BY <1>3, <1>6, <2>1
  <2>3. i \in 2 .. k
    BY <1>3, <2>2
  <2>4. QED
    BY <1>2, <2>3 DEF Taken
<1>7. ~(Cardinality(KeysOf(SentRead)) > kMaxHeaderCount)
  <2>1. KeysOf(SentRead) \subseteq DOMAIN request.headers
    BY <1>6 DEF KeysOf
  <2>2. DOMAIN request.headers \subseteq {Key(t) : t \in Texts}
    <3>1. ASSUME NEW key \in DOMAIN request.headers
          PROVE  key \in {Key(t) : t \in Texts}
      <4>1. PICK i \in 2 .. k : Key(lines[i]) = key
        BY <1>2 DEF Taken, LastWith
      <4>2. i \in 1 .. Len(lines)
        BY <1>3
      <4>3. lines[i] \in Texts
        BY <1>4, <4>2
      <4>4. QED
        BY <4>1, <4>3
    <3>2. QED
      BY <3>1
  <2>3. IsFiniteSet(DOMAIN request.headers) /\ Cardinality(DOMAIN request.headers) \in Nat
    BY <2>2, KeysAreFinite
  <2>4. Cardinality(KeysOf(SentRead)) <= Cardinality(DOMAIN request.headers)
    BY <2>1, <2>3, FS_Subset
  <2>5. Cardinality(KeysOf(SentRead)) \in Nat
    <3>1. KeysOf(SentRead) \subseteq {Key(t) : t \in Texts}
      BY <2>1, <2>2
    <3>2. QED
      BY <3>1, KeysAreFinite
  <2>6. Cardinality(DOMAIN request.headers) <= kMaxHeaderCount
    BY <1>2 DEF Taken
  <2>7. kMaxHeaderCount \in Nat
    BY LimitAssumption
  <2>8. QED
    BY <2>3, <2>4, <2>5, <2>6, <2>7
<1>8. ~(headEnded /\ lines = <<>> /\ 2 <= SentRead)
  <2> SUFFICES ASSUME headEnded, lines = <<>>, 2 <= SentRead
               PROVE  FALSE
    OBVIOUS
  <2>1. Len(lines) = 0 /\ k = 0
    BY <1>3, <1>4
  <2>2. HeadRead
    BY <1>4, <2>1 DEF HeadRead
  <2>3. k > 0
    BY <1>2, <2>2 DEF Left
  <2>4. QED
    BY <2>1, <2>3
<1>9. ~MalformedIn(SentRead)
  BY <1>5, <1>6, <1>7, <1>8 DEF MalformedIn
<1>10. SentRead = Share(nread)
  BY SentReadFacts DEF RequestInv
<1>11. QED
  BY <1>2, <1>9, <1>10, MalformedIff DEF RequestInv, Refusable

LEMMA LastHeader ==
  ASSUME RequestInv, request.ok, NEW key, NEW default
  PROVE  LastOf(key, default) =
           IF key \in DOMAIN request.headers THEN request.headers[key] ELSE default
<1>1. PICK k : k = Len(Received)
  OBVIOUS
<1>2. Taken(request, k)
  BY <1>1, AllTaken
<1>3. Len(lines) \in Nat /\ k \in 0 .. Len(lines) /\ k \in Nat
  <2>1. Len(lines) \in Nat /\ k \in 0 .. Len(lines)
    BY <1>1, ReceivedShape DEF RequestInv, ClientInv
  <2>2. QED
    BY <2>1
<1>4. PICK h : h = Headers
  OBVIOUS
<1>5. DOMAIN h = 1 .. k - 1 /\ \A i \in 1 .. k - 1 : h[i] = lines[i + 1]
  BY <1>1, <1>4, HeadersShape DEF RequestInv
<1>6. PICK found : found = {i \in DOMAIN h : Key(h[i]) = key}
  OBVIOUS
<1>7. LastOf(key, default) = IF found = {} THEN default
                             ELSE h[CHOOSE i \in found : \A j \in found : j <= i]
  BY <1>4, <1>6 DEF LastOf
<1>8. CASE key \in DOMAIN request.headers
  <2>1. PICK i \in 2 .. k : /\ Key(lines[i]) = key
                            /\ request.headers[key] = lines[i]
                            /\ \A j \in i + 1 .. k : Key(lines[j]) # key
    BY <1>2, <1>8 DEF Taken, LastWith
  <2>2. PICK e \in 1 .. k - 1 : e + 1 = i
    <3>1. i - 1 \in 1 .. k - 1 /\ (i - 1) + 1 = i
      BY <1>3
    <3>2. QED
      BY <3>1
  <2>3. h[e] = lines[i] /\ e \in found
    BY <1>5, <1>6, <2>1, <2>2
  <2>4. ASSUME NEW j \in found
        PROVE  j <= e
    <3>1. j \in 1 .. k - 1 /\ Key(lines[j + 1]) = key
      BY <1>5, <1>6
    <3>2. ~(j + 1 \in i + 1 .. k)
      BY <2>1, <3>1
    <3>3. QED
      BY <1>3, <2>2, <3>1, <3>2
  <2>5. found \subseteq Int
    BY <1>3, <1>5, <1>6
  <2>6. \A x \in found : (\A j \in found : j <= x) => x = e
    BY <2>3, <2>4, <2>5
  <2>7. (CHOOSE x \in found : \A j \in found : j <= x) = e
    BY <2>3, <2>4, <2>6
  <2>8. found # {}
    BY <2>3
  <2>9. LastOf(key, default) = h[e]
    BY <1>7, <2>7, <2>8
  <2>10. QED
    BY <1>8, <2>1, <2>3, <2>9
<1>9. CASE key \notin DOMAIN request.headers
  <2>1. found = {}
    <3> SUFFICES ASSUME NEW j \in found
                 PROVE  FALSE
      OBVIOUS
    <3>1. j \in 1 .. k - 1 /\ Key(lines[j + 1]) = key
      BY <1>5, <1>6
    <3>2. j + 1 \in 2 .. k
      BY <1>3, <3>1
    <3>3. Key(lines[j + 1]) \in DOMAIN request.headers
      BY <1>2, <3>2 DEF Taken
    <3>4. QED
      BY <1>9, <3>1, <3>3
  <2>2. QED
    BY <1>7, <1>9, <2>1
<1>10. QED
  BY <1>8, <1>9

(* What has been read of the payload is the end of what has been read.     *)
LEMMA PayloadCut ==
  ASSUME ClientInv, headEnded, NEW o \in Nat, o = 3 * Len(lines) + 2,
         NEW a \in Nat \ {0}, NEW b \in Nat, a <= b + 1, o + b <= Len(Sent)
  PROVE  /\ b <= Len(payload) /\ payload \in Seq(Tokens)
         /\ SubSeq(Sent, o + a, o + b) = SubSeq(payload, a, b)
<1>1. /\ Sent \in Seq(Tokens)
      /\ Len(Sent) = 3 * Len(lines) + (IF headEnded THEN 2 ELSE 0) + Len(payload)
      /\ \A i \in 1 .. Len(payload) : Sent[3 * Len(lines) + 2 + i] = payload[i]
  BY SentShape DEF ClientInv
<1>2. payload \in Seq(Tokens) /\ Len(payload) \in Nat
  <2>1. PICK q \in Seq({"cr", "lf"}) : q = payload
    BY DEF ClientInv
  <2>2. q \in Seq(Tokens)
    BY TextFacts, SeqMonotonic
  <2>3. Len(q) \in Nat
    OBVIOUS
  <2>4. QED
    BY <2>1, <2>2, <2>3
<1>3. Len(lines) \in Nat
  BY DEF ClientInv
<1>4. Len(Sent) = o + Len(payload) /\ b <= Len(payload)
  BY <1>1, <1>2, <1>3
<1>5. \A i \in 1 .. Len(payload) : Sent[o + i] = payload[i]
  BY <1>1
<1> DEFINE v == SubSeq(Sent, o + a, o + b)
           w == SubSeq(payload, a, b)
<1>6. /\ v \in Seq(Tokens) /\ Len(v) = (o + b) - (o + a) + 1
      /\ \A i \in 1 .. (o + b) - (o + a) + 1 : v[i] = Sent[(o + a) + i - 1]
  <2>1. o + a \in Nat \ {0} /\ o + b \in Nat /\ o + a <= (o + b) + 1
    OBVIOUS
  <2>2. QED
    BY <1>1, <2>1, CutIsSeq
<1>7. /\ w \in Seq(Tokens) /\ Len(w) = b - a + 1
      /\ \A i \in 1 .. b - a + 1 : w[i] = payload[a + i - 1]
  BY <1>2, <1>4, CutIsSeq
<1> HIDE DEF v, w
<1>8. Len(v) = Len(w)
  BY <1>6, <1>7
<1>9. ASSUME NEW i \in 1 .. Len(v)
      PROVE  v[i] = w[i]
  <2>1. /\ i \in 1 .. (o + b) - (o + a) + 1 /\ i \in 1 .. b - a + 1
        /\ a + i - 1 \in 1 .. Len(payload) /\ (o + a) + i - 1 = o + (a + i - 1)
    BY <1>2, <1>4, <1>6
  <2>2. QED
    BY <1>5, <1>6, <1>7, <2>1
<1>10. v = w
  BY <1>6, <1>7, <1>8, <1>9, SeqEqual
<1>11. QED
  BY <1>2, <1>4, <1>10 DEF v, w

LEMMA PayloadReadShape ==
  ASSUME ClientInv, HeadRead, NEW o \in Nat, o = 3 * Len(lines) + 2
  PROVE  \E n \in Nat : /\ SentRead = o + n /\ n <= Len(payload)
                        /\ o + n <= Len(Sent)
                        /\ PayloadRead = SubSeq(payload, 1, n)
                        /\ Len(PayloadRead) = n
<1>1. SentRead \in Nat /\ SentRead <= Len(Sent) /\ Len(Sent) \in Nat
  BY SentReadFacts
<1>2. headEnded /\ SentRead >= o
  BY DEF HeadRead
<1>3. PICK n \in Nat : n = SentRead - o
  BY <1>1, <1>2
<1>4. SentRead = o + n /\ o + n <= Len(Sent)
  BY <1>1, <1>3
<1>5. n <= Len(payload) /\ payload \in Seq(Tokens)
  <2>1. 1 \in Nat \ {0} /\ 1 <= n + 1
    BY <1>3
  <2>2. QED
    BY <1>2, <1>4, <2>1, PayloadCut
<1>6. PayloadRead = SubSeq(payload, 1, n)
  BY <1>3 DEF PayloadRead
<1>7. Len(PayloadRead) = n
  <2>1. 1 \in Nat \ {0} /\ 1 <= n + 1
    BY <1>3
  <2>2. Len(SubSeq(payload, 1, n)) = n - 1 + 1
    BY <1>5, <2>1, CutIsSeq
  <2>3. QED
    BY <1>6, <2>2
<1>8. QED
  BY <1>4, <1>5, <1>6, <1>7

(* The length of the body is the one the last Content-Length gave.         *)
LEMMA LengthAgrees ==
  ASSUME RequestInv, request.ok
  PROVE  BodyLength = request.contentLength /\ BodyLength \in Nat
<1>1. request.contentLength = IF "content-length" \in DOMAIN request.headers
                              THEN LengthOf[request.headers["content-length"]] ELSE 0
  BY AllTaken DEF Taken
<1>2. LastOf("content-length", "length0") =
        IF "content-length" \in DOMAIN request.headers
        THEN request.headers["content-length"] ELSE "length0"
  BY LastHeader
<1>3. request.contentLength \in Nat
  BY DEF RequestInv, Parsers
<1>4. QED
  BY <1>1, <1>2, <1>3, KeyFacts DEF BodyLength

(* The request is complete when all of its tokens have been read, and then *)
(* the body and what follows it are those of the payload.                  *)
LEMMA GotAllIff ==
  ASSUME RequestInv, request.ok
  PROVE  /\ request.state = "kGotAll" <=> Complete
         /\ Complete =>
              /\ request.body = SubSeq(PayloadRead, 1, BodyLength)
              /\ request.buf = SubSeq(PayloadRead, BodyLength + 1, Len(PayloadRead))
<1>1. ClientInv /\ Stopped(request)
  BY DEF RequestInv
<1>2. PICK k : k = Len(Received)
  OBVIOUS
<1>3. /\ HeadRead => Left(request, k, SentRead)
      /\ HeadRead <=> request.state \in {"kExpectBody", "kGotAll"}
  BY <1>2, AllTaken
<1>4. PICK cl \in Nat : cl = request.contentLength /\ cl = BodyLength
  BY LengthAgrees
<1>5. Len(lines) \in Nat
  BY <1>1 DEF ClientInv
<1>6. CASE ~HeadRead
  BY <1>3, <1>6 DEF Complete
<1>7. CASE HeadRead
  <2>1. PICK o \in Nat : o = 3 * Len(lines) + 2
    BY <1>5
  <2>2. PICK n \in Nat : /\ SentRead = o + n /\ n <= Len(payload)
                         /\ o + n <= Len(Sent)
                         /\ PayloadRead = SubSeq(payload, 1, n)
                         /\ Len(PayloadRead) = n
    BY <1>1, <1>7, <2>1, PayloadReadShape
  <2>3. headEnded /\ k = Len(lines)
    BY <1>3, <1>7 DEF Left
  <2>4. 3 * k + 2 = o /\ 3 * k + 3 = o + 1
    BY <1>5, <2>1, <2>3
  <2>5. Complete <=> n >= cl
    BY <1>4, <1>7, <2>2 DEF Complete
  <2>6. CASE request.state = "kExpectBody"
    <3>1. request.buf = SubSeq(Sent, o + 1, SentRead)
      BY <1>3, <1>7, <2>4, <2>6 DEF Left
    <3>2. Len(request.buf) = n
      <4>1. Sent \in Seq(Tokens)
        BY <1>1, SentShape DEF ClientInv
      <4>2. /\ o + 1 \in Nat \ {0} /\ SentRead \in Nat /\ SentRead <= Len(Sent)
            /\ o + 1 <= SentRead + 1
        BY <2>2
      <4>3. Len(SubSeq(Sent, o + 1, SentRead)) = SentRead - (o + 1) + 1
        BY <4>1, <4>2, CutIsSeq
      <4>4. QED
        BY <2>2, <3>1, <4>3
    <3>3. n < cl
      BY <1>1, <1>4, <2>6, <3>2 DEF Stopped
    <3>4. ~Complete
      BY <2>5, <3>3
    <3>5. QED
      BY <2>6, <3>4
  <2>7. CASE request.state = "kGotAll"
    <3>1. /\ 3 * k + 2 + cl <= SentRead
          /\ request.body = SubSeq(Sent, 3 * k + 3, 3 * k + 2 + cl)
          /\ request.buf = SubSeq(Sent, 3 * k + 3 + cl, SentRead)
      BY <1>3, <1>4, <1>7, <2>7 DEF Left
    <3>2. o + 1 + cl = o + (cl + 1) /\ 1 <= cl + 1
      OBVIOUS
    <3>3. /\ o + cl <= SentRead
          /\ request.body = SubSeq(Sent, o + 1, o + cl)
          /\ request.buf = SubSeq(Sent, o + (cl + 1), o + n)
      BY <2>2, <2>4, <3>1, <3>2
    <3>4. cl <= n /\ cl + 1 <= n + 1 /\ o + cl <= Len(Sent)
      <4>1. Len(Sent) \in Nat
        BY <1>1, SentShape DEF ClientInv
      <4>2. QED
        BY <2>2, <3>3, <4>1
    <3>5. /\ SubSeq(Sent, o + 1, o + cl) = SubSeq(payload, 1, cl)
          /\ payload \in Seq(Tokens)
      <4>1. 1 \in Nat \ {0}
        OBVIOUS
      <4>2. QED
        BY <1>1, <2>1, <2>3, <3>2, <3>4, <4>1, PayloadCut
    <3>6. SubSeq(Sent, o + (cl + 1), o + n) = SubSeq(payload, cl + 1, n)
      <4>1. cl + 1 \in Nat \ {0}
        OBVIOUS
      <4>2. QED
        BY <1>1, <2>1, <2>2, <2>3, <3>4, <4>1, PayloadCut
    <3>7. /\ SubSeq(SubSeq(payload, 1, n), 1, cl) = SubSeq(payload, 1, cl)
          /\ SubSeq(SubSeq(payload, 1, n), cl + 1, n) = SubSeq(payload, cl + 1, n)
      <4>1. /\ 1 \in Nat \ {0} /\ cl + 1 \in Nat \ {0} /\ n <= n - 1 + 1 /\ cl <= n - 1 + 1
            /\ 1 <= n + 1
        BY <3>4
      <4>2. /\ SubSeq(SubSeq(payload, 1, n), 1, cl) = SubSeq(payload, 1 + 1 - 1, 1 + cl - 1)
            /\ SubSeq(SubSeq(payload, 1, n), cl + 1, n)
                 = SubSeq(payload, 1 + (cl + 1) - 1, 1 + n - 1)
        BY <2>2, <3>2, <3>4, <3>5, <4>1, CutOfCut
      <4>3. 1 + 1 - 1 = 1 /\ 1 + cl - 1 = cl /\ 1 + (cl + 1) - 1 = cl + 1 /\ 1 + n - 1 = n
        OBVIOUS
      <4>4. QED
        BY <4>2, <4>3
    <3>8. Complete
      BY <2>5, <3>4
    <3>9. QED
      BY <1>4, <2>2, <2>7, <3>3, <3>5, <3>6, <3>7, <3>8
  <2>8. QED
    BY <1>3, <1>7, <2>6, <2>7
<1>8. QED
  BY <1>6, <1>7

LEMMA KeepAliveAgrees ==
  ASSUME RequestInv, request.ok, HeadRead
  PROVE  KeepAlive(request) = SentKeepAlive
<1>1. PICK k : k = Len(Received)
  OBVIOUS
<1>2. /\ Taken(request, k) /\ Left(request, k, SentRead)
      /\ request.state \in {"kExpectBody", "kGotAll"}
  BY <1>1, AllTaken
<1>3. k > 0 /\ k \in Nat
  <2>1. Len(lines) \in Nat /\ k \in 0 .. Len(lines)
    BY <1>1, ReceivedShape DEF RequestInv, ClientInv
  <2>2. QED
    BY <1>2, <2>1 DEF Left
<1>4. request.version = lines[1]
  BY <1>2, <1>3 DEF Taken
<1>5. Head(Received) = lines[1]
  <2>1. Received # <<>>
    BY <1>1, <1>3, HeadersShape DEF RequestInv
  <2>2. QED
    BY <2>1, HeadersShape DEF RequestInv
<1>6. LastOf("connection", "") =
        IF "connection" \in DOMAIN request.headers
        THEN request.headers["connection"] ELSE ""
  BY LastHeader
<1>7. QED
  BY <1>4, <1>5, <1>6 DEF KeepAlive, SentKeepAlive

(* However the reads cut what the client sends, and whatever request came  *)
(* before on the connection, parse() that has not refused it has made of   *)
(* it what was sent (HttpRequest.cpp:24-26).                               *)
THEOREM RequestsAreParsedAsSent == Spec => []ParsedAsSent
<1>1. ASSUME RequestInv, request.ok
      PROVE  \A i \in DOMAIN Headers :
               request.headers[Key(Headers[i])] = LastOf(Key(Headers[i]), "")
  <2> SUFFICES ASSUME NEW i \in DOMAIN Headers
               PROVE  request.headers[Key(Headers[i])] = LastOf(Key(Headers[i]), "")
    OBVIOUS
  <2>1. PICK k : k = Len(Received)
    OBVIOUS
  <2>2. i \in 1 .. k - 1 /\ Headers[i] = lines[i + 1]
    BY <1>1, <2>1, HeadersShape DEF RequestInv
  <2>3. i + 1 \in 2 .. k
    <3>1. Len(lines) \in Nat /\ k \in 0 .. Len(lines)
      BY <1>1, <2>1, ReceivedShape DEF RequestInv, ClientInv
    <3>2. QED
      BY <2>2, <3>1
  <2>4. Key(lines[i + 1]) \in DOMAIN request.headers
    BY <1>1, <2>1, <2>3, AllTaken DEF Taken
  <2>5. QED
    BY <1>1, <2>2, <2>4, LastHeader
<1>2. RequestInv => ParsedAsSent
  <2> SUFFICES ASSUME RequestInv, request.ok
               PROVE  /\ ~Malformed
                      /\ request.state = "kGotAll" <=> Complete
                      /\ Complete =>
                           /\ request.body = SubSeq(PayloadRead, 1, BodyLength)
                           /\ request.buf = SubSeq(PayloadRead, BodyLength + 1, Len(PayloadRead))
                           /\ KeepAlive(request) = SentKeepAlive
                      /\ \A i \in DOMAIN Headers :
                           request.headers[Key(Headers[i])] = LastOf(Key(Headers[i]), "")
    BY DEF ParsedAsSent
  <2>1. Complete => KeepAlive(request) = SentKeepAlive
    BY KeepAliveAgrees DEF Complete
  <2>2. QED
    BY <1>1, <2>1, TakenIsWellFormed, GotAllIff
<1>3. QED
  BY <1>2, RequestInvHolds, PTL
=============================================================================

------------------------ MODULE SessionFramingProofs ------------------------
(***************************************************************************)
(* That the receive loop keeps to its buffers and dispatches the messages  *)
(* of its stream, for all sizes of the buffers (the program's 4096, 4096   *)
(* and 8192 among them), all alphabets and streams.                        *)
(***************************************************************************)
EXTENDS SessionFraming, SequenceTheorems, FiniteSetTheorems, TLAPS

\* A part of a text is a text, and not a longer one.
LEMMA PartOfText ==
  ASSUME NEW s \in Text, NEW m \in 1 .. Len(s) + 1, NEW n \in m - 1 .. Len(s)
  PROVE  SubSeq(s, m, n) \in Text
  BY SubSeqProperties DEF Text

\* Stripping the CR of a line leaves a text.
LEMMA ChompIsText ==
  ASSUME NEW line \in Text PROVE Chomp(line) \in Text
<1>1. Len(line) \in Nat /\ (line # <<>> => Len(line) > 0)
  BY DEF Text
<1>2. CASE line # <<>> /\ line[Len(line)] = CR
  <2>1. SubSeq(line, 1, Len(line) - 1) \in Text
    BY <1>1, <1>2, PartOfText
  <2> QED BY <1>2, <2>1 DEF Chomp
<1>3. CASE ~ (line # <<>> /\ line[Len(line)] = CR)
  BY <1>3 DEF Chomp
<1> QED BY <1>2, <1>3

\* What recv delivers is a text shorter than buf.
LEMMA ChunkIsText ==
  ASSUME NEW chunk \in Chunks
  PROVE  chunk \in Text /\ Len(chunk) \in Nat /\ Len(chunk) <= BufSize - 1
<1>1. PICK n \in 1 .. BufSize - 1 : chunk \in [1 .. n -> Bytes]
  BY DEF Chunks
<1>2. n \in Nat
  BY <1>1, SizesAssumption
<1>3. chunk \in Seq(Bytes) /\ Len(chunk) = n
  BY <1>1, <1>2
<1> QED BY <1>1, <1>3, SizesAssumption DEF Text

-----------------------------------------------------------------------------

FramingInv == TypeOK /\ NoOverrun

\* The buffers are empty at first.
LEMMA FramingInit == Init => FramingInv
  BY SizesAssumption DEF Init, FramingInv, TypeOK, NoOverrun, Text

\* Every step of the loop keeps the buffers within their sizes.
LEMMA FramingStep == FramingInv /\ [Next]_vars => FramingInv'
<1> SUFFICES ASSUME FramingInv, [Next]_vars PROVE FramingInv'
  OBVIOUS
<1> USE DEF FramingInv
<1>1. ASSUME NEW chunk \in Chunks, Recv(chunk) PROVE FramingInv'
  <2> DEFINE all == Combined(carry, chunk)
  <2>1. chunk \in Text /\ Len(chunk) \in Nat /\ Len(chunk) <= BufSize - 1
    BY ChunkIsText
  <2>2. all \in Text /\ Len(all) = Len(carry) + Len(chunk)
    BY <2>1 DEF TypeOK, Text, Combined
  <2>3. received' \in Text
    BY <1>1, <2>1 DEF Recv, TypeOK, Text
  <2>4. rest' \in Text
    <3>1. PICK n \in 0 .. Len(all) : rest' = SubSeq(all, 1, n)
      BY <1>1 DEF Recv
    <3>2. Len(all) \in Nat
      BY <2>2 DEF Text
    <3>3. 1 \in 1 .. Len(all) + 1 /\ n \in 1 - 1 .. Len(all)
      BY <3>1, <3>2
    <3> QED BY <2>2, <3>1, <3>3, PartOfText
  <2>5. used' \in Nat /\ used' <= CombinedSize
    <3>1. Len(carry) \in Nat /\ Len(carry) < CarrySize
      BY DEF TypeOK, Text
    <3>2. used' = Len(carry) + Len(chunk) + 1
      BY <1>1, <2>2 DEF Recv
    <3> QED BY <2>1, <3>1, <3>2, SizesAssumption
  <2>6. carry' = <<>> /\ pc' = "split" /\ dispatched' = dispatched
    BY <1>1 DEF Recv
  <2>7. carry' \in Text /\ Len(carry') < CarrySize
    BY <2>6, SizesAssumption DEF Text
  <2> QED BY <2>3, <2>4, <2>5, <2>6, <2>7 DEF TypeOK, NoOverrun
<1>2. ASSUME Dispatch PROVE FramingInv'
  <2>1. PICK i \in 1 .. Len(rest) :
          /\ dispatched' = Append(dispatched, Chomp(SubSeq(rest, 1, i - 1)))
          /\ rest' = SubSeq(rest, i + 1, Len(rest))
          /\ pc' \in {"closed", "split"}
    BY <1>2 DEF Dispatch
  <2>2. rest \in Text /\ Len(rest) \in Nat /\ dispatched \in Seq(Text)
    BY DEF TypeOK, Text
  <2>3. SubSeq(rest, 1, i - 1) \in Text
    BY <2>1, <2>2, PartOfText
  <2>4. Chomp(SubSeq(rest, 1, i - 1)) \in Text
    BY <2>3, ChompIsText
  <2>5. dispatched' \in Seq(Text)
    BY <2>1, <2>2, <2>4
  <2>6. rest' \in Text
    BY <2>1, <2>2, PartOfText
  <2>7. UNCHANGED <<carry, used, received>>
    BY <1>2 DEF Dispatch
  <2> QED BY <2>1, <2>5, <2>6, <2>7 DEF TypeOK, NoOverrun
<1>3. ASSUME SaveRest PROVE FramingInv'
  <2>1. carry' \in Text /\ Len(carry') < CarrySize
    BY <1>3, SizesAssumption DEF SaveRest, TypeOK, Text
  <2>2. rest' \in Text /\ pc' = "recv"
    BY <1>3 DEF SaveRest, Text
  <2> QED BY <1>3, <2>1, <2>2 DEF SaveRest, TypeOK, NoOverrun
<1>4. ASSUME HangUp PROVE FramingInv'
  BY <1>4 DEF HangUp, TypeOK, NoOverrun
<1>5. ASSUME UNCHANGED vars PROVE FramingInv'
  BY <1>5 DEF vars, TypeOK, NoOverrun
<1> QED BY <1>1, <1>2, <1>3, <1>4, <1>5 DEF Next

\* The buffers of the session hold what they are declared to hold; what is kept
\* for the next recv is always shorter than carry.
THEOREM TypeCorrect == Spec => []TypeOK
<1>1. FramingInv => TypeOK
  BY DEF FramingInv
<1> QED BY <1>1, FramingInit, FramingStep, PTL DEF Spec

\* No stream, delivered in whatever pieces, makes the session write beyond the
\* end of combined: carry and buf together fit, for all sizes that satisfy
\* CarrySize + BufSize - 1 <= CombinedSize.
THEOREM NoOverrunHolds == Spec => []NoOverrun
<1>1. FramingInv => NoOverrun
  BY DEF FramingInv
<1> QED BY <1>1, FramingInit, FramingStep, PTL DEF Spec

-----------------------------------------------------------------------------
(* Lines and messages.  A cut at c says how far the stream has been handled:  *)
(* the message behind the NL at c (the first, with c = 0) is the next to be   *)
(* dispatched, and what the session still has of the stream begins at e + 1.  *)
(* Either that is the whole message from c + 1 on, or a left-over that did    *)
(* not fit into carry has been forgotten.                                     *)

\* What the session has of the stream and has not dispatched.
Kept == IF pc = "recv" THEN carry ELSE rest

\* No message ends between a and b.
NoEnd(s, a, b) == \A i \in a + 1 .. b : s[i] # NL

CutAt(s, c) == c \in 0 .. Len(s) /\ (c > 0 => s[c] = NL)

\* n messages of s have been dispatched, up to c, and kept is s from e + 1 on.
Handled(s, n, kept, c, e) ==
  /\ CutAt(s, c) /\ Nth(s, c) = n
  /\ e \in c .. Len(s) /\ NoEnd(s, c, e)
  /\ e = c \/ e - c >= CarrySize
  /\ kept = SubSeq(s, e + 1, Len(s))

\* A session that lives has handled its stream up to some cut.
Cut ==
  /\ pc # "closed" =>
       \E c \in 0 .. Len(received) : \E e \in c .. Len(received) :
         Handled(received, Len(dispatched), Kept, c, e)
  /\ pc = "recv" => ~ Has(carry, NL)

-----------------------------------------------------------------------------
(* Parts of texts *)

\* The length and the bytes of a part of a text.
LEMMA Part ==
  ASSUME NEW s \in Text, NEW m \in 1 .. Len(s) + 1, NEW n \in m - 1 .. Len(s)
  PROVE  /\ SubSeq(s, m, n) \in Text /\ Len(SubSeq(s, m, n)) = n - m + 1
         /\ \A i \in 1 .. n - m + 1 : SubSeq(s, m, n)[i] = s[m + i - 1]
<1>1. Len(s) \in Nat /\ m \in Int /\ n \in Int /\ \A i \in m .. n : s[i] \in Bytes
  BY DEF Text
<1>2. /\ SubSeq(s, m, n) \in Seq(Bytes)
      /\ Len(SubSeq(s, m, n)) = IF m <= n THEN n - m + 1 ELSE 0
      /\ \A i \in 1 .. n - m + 1 : SubSeq(s, m, n)[i] = s[m + i - 1]
  BY <1>1, SubSeqProperties
<1>3. (IF m <= n THEN n - m + 1 ELSE 0) = n - m + 1
  BY <1>1
<1> QED
  BY <1>2, <1>3 DEF Text

\* Texts with the same bytes are the same.
LEMMA SameText ==
  ASSUME NEW s \in Text, NEW t \in Text, Len(s) = Len(t), \A i \in 1 .. Len(s) : s[i] = t[i]
  PROVE  s = t
  BY SeqEqual DEF Text

\* A part of a part.
LEMMA PartOfPart ==
  ASSUME NEW s \in Text, NEW m \in 1 .. Len(s) + 1, NEW n \in m - 1 .. Len(s),
         NEW a \in 1 .. (n - m + 1) + 1, NEW b \in a - 1 .. n - m + 1
  PROVE  SubSeq(SubSeq(s, m, n), a, b) = SubSeq(s, m + a - 1, m + b - 1)
<1> DEFINE t == SubSeq(s, m, n)
           u == SubSeq(t, a, b)
           v == SubSeq(s, m + a - 1, m + b - 1)
<1>1. Len(s) \in Nat
  BY DEF Text
<1>2. /\ t \in Text /\ Len(t) = n - m + 1
      /\ \A i \in 1 .. n - m + 1 : t[i] = s[m + i - 1]
  BY Part
<1> HIDE DEF t
<1>3. /\ u \in Text /\ Len(u) = b - a + 1
      /\ \A i \in 1 .. b - a + 1 : u[i] = t[a + i - 1]
  <2>1. a \in 1 .. Len(t) + 1 /\ b \in a - 1 .. Len(t)
    BY <1>2
  <2> QED
    BY <1>2, <2>1, Part
<1>4. m + a - 1 \in 1 .. Len(s) + 1 /\ m + b - 1 \in (m + a - 1) - 1 .. Len(s)
  BY <1>1
<1>5. /\ v \in Text /\ Len(v) = (m + b - 1) - (m + a - 1) + 1
      /\ \A i \in 1 .. (m + b - 1) - (m + a - 1) + 1 : v[i] = s[(m + a - 1) + i - 1]
  BY <1>4, Part
<1> HIDE DEF u, v
<1>6. (m + b - 1) - (m + a - 1) + 1 = b - a + 1
  BY <1>1
<1>7. \A i \in 1 .. b - a + 1 :
        a + i - 1 \in 1 .. n - m + 1 /\ m + (a + i - 1) - 1 = (m + a - 1) + i - 1
  BY <1>1
<1>8. \A i \in 1 .. Len(u) : u[i] = v[i]
  BY <1>2, <1>3, <1>5, <1>6, <1>7
<1> QED
  BY <1>3, <1>5, <1>6, <1>8, SameText DEF t, u, v

\* What has been received stays where it is when more comes.
LEMMA Longer ==
  ASSUME NEW s \in Text, NEW t \in Text
  PROVE  /\ s \o t \in Text /\ Len(s \o t) = Len(s) + Len(t)
         /\ \A i \in 1 .. Len(s) : (s \o t)[i] = s[i]
         /\ \A i \in 1 .. Len(t) : (s \o t)[Len(s) + i] = t[i]
<1>1. /\ s \o t \in Seq(Bytes) /\ Len(s \o t) = Len(s) + Len(t)
      /\ \A i \in 1 .. Len(s) + Len(t) : (s \o t)[i] =
           IF i <= Len(s) THEN s[i] ELSE t[i - Len(s)]
  BY ConcatProperties DEF Text
<1>2. Len(s) \in Nat /\ Len(t) \in Nat
  BY DEF Text
<1>3. \A i \in 1 .. Len(s) : i \in 1 .. Len(s) + Len(t) /\ i <= Len(s)
  BY <1>2
<1>4. \A i \in 1 .. Len(t) : /\ Len(s) + i \in 1 .. Len(s) + Len(t) /\ ~ Len(s) + i <= Len(s)
                             /\ (Len(s) + i) - Len(s) = i
  BY <1>2
<1> QED
  BY <1>1, <1>3, <1>4 DEF Text

\* A part of what has been received is not changed by what comes.
LEMMA PartOfLonger ==
  ASSUME NEW s \in Text, NEW t \in Text, NEW m \in 1 .. Len(s) + 1, NEW n \in m - 1 .. Len(s)
  PROVE  SubSeq(s \o t, m, n) = SubSeq(s, m, n)
<1> DEFINE r == s \o t
           u == SubSeq(r, m, n)
           v == SubSeq(s, m, n)
<1>1. Len(s) \in Nat /\ Len(t) \in Nat
  BY DEF Text
<1>2. r \in Text /\ Len(r) = Len(s) + Len(t) /\ \A i \in 1 .. Len(s) : r[i] = s[i]
  BY Longer
<1> HIDE DEF r
<1>3. m \in 1 .. Len(r) + 1 /\ n \in m - 1 .. Len(r)
  BY <1>1, <1>2
<1>4. u \in Text /\ Len(u) = n - m + 1 /\ \A i \in 1 .. n - m + 1 : u[i] = r[m + i - 1]
  BY <1>2, <1>3, Part
<1>5. v \in Text /\ Len(v) = n - m + 1 /\ \A i \in 1 .. n - m + 1 : v[i] = s[m + i - 1]
  BY Part
<1> HIDE DEF u, v
<1>6. \A i \in 1 .. n - m + 1 : m + i - 1 \in 1 .. Len(s)
  BY <1>1
<1>7. \A i \in 1 .. Len(u) : u[i] = v[i]
  BY <1>2, <1>4, <1>5, <1>6
<1> QED
  BY <1>4, <1>5, <1>7, SameText DEF r, u, v

\* A left-over with what comes behind it.
LEMMA EndOfLonger ==
  ASSUME NEW s \in Text, NEW t \in Text, NEW e \in 0 .. Len(s)
  PROVE  SubSeq(s, e + 1, Len(s)) \o t = SubSeq(s \o t, e + 1, Len(s \o t))
<1> DEFINE r == s \o t
           k == SubSeq(s, e + 1, Len(s))
           u == k \o t
           v == SubSeq(r, e + 1, Len(r))
           l == Len(s)
           d == Len(t)
<1>1. l \in Nat /\ d \in Nat /\ e \in Nat /\ e <= l
  BY DEF Text
<1>2. /\ r \in Text /\ Len(r) = l + d /\ \A i \in 1 .. l : r[i] = s[i]
      /\ \A i \in 1 .. d : r[l + i] = t[i]
  BY Longer
<1>3. /\ k \in Text /\ Len(k) = l - (e + 1) + 1
      /\ \A i \in 1 .. l - (e + 1) + 1 : k[i] = s[(e + 1) + i - 1]
  <2>1. e + 1 \in 1 .. l + 1 /\ l \in (e + 1) - 1 .. l
    BY <1>1
  <2> QED
    BY <2>1, Part
<1> HIDE DEF r, k
<1>4. Len(k) = l - e /\ \A i \in 1 .. l - e : k[i] = s[e + i]
  <2>1. l - (e + 1) + 1 = l - e /\ \A i \in 1 .. l - e : (e + 1) + i - 1 = e + i
    BY <1>1
  <2> QED
    BY <1>3, <2>1
<1>5. /\ u \in Text /\ Len(u) = (l - e) + d /\ \A i \in 1 .. l - e : u[i] = k[i]
      /\ \A i \in 1 .. d : u[(l - e) + i] = t[i]
  <2>1. /\ u \in Text /\ Len(u) = Len(k) + Len(t)
        /\ \A i \in 1 .. Len(k) : u[i] = k[i]
        /\ \A i \in 1 .. Len(t) : u[Len(k) + i] = t[i]
    BY <1>3, Longer
  <2> HIDE DEF u
  <2> QED
    BY <1>4, <2>1
<1>6. /\ v \in Text /\ Len(v) = (l + d) - e
      /\ \A i \in 1 .. (l + d) - e : v[i] = r[e + i]
  <2>1. e + 1 \in 1 .. Len(r) + 1 /\ Len(r) \in (e + 1) - 1 .. Len(r)
    BY <1>1, <1>2
  <2>2. /\ v \in Text /\ Len(v) = Len(r) - (e + 1) + 1
        /\ \A i \in 1 .. Len(r) - (e + 1) + 1 : v[i] = r[(e + 1) + i - 1]
    BY <1>2, <2>1, Part
  <2> HIDE DEF v
  <2>3. /\ Len(r) - (e + 1) + 1 = (l + d) - e
        /\ \A i \in 1 .. (l + d) - e : (e + 1) + i - 1 = e + i
    BY <1>1, <1>2
  <2> QED
    BY <2>2, <2>3
<1> HIDE DEF l, d, u, v
<1>7. ASSUME NEW i \in 1 .. (l + d) - e
      PROVE  u[i] = v[i]
  <2>1. CASE i <= l - e
    <3>1. i \in 1 .. l - e /\ e + i \in 1 .. l
      BY <1>1, <2>1
    <3> QED
      BY <1>2, <1>4, <1>5, <1>6, <3>1
  <2>2. CASE ~ i <= l - e
    <3>1. i - (l - e) \in 1 .. d /\ (l - e) + (i - (l - e)) = i /\ l + (i - (l - e)) = e + i
      BY <1>1, <2>2
    <3>2. u[i] = t[i - (l - e)] /\ r[e + i] = t[i - (l - e)]
      BY <1>2, <1>5, <3>1
    <3> QED
      BY <1>6, <3>2
  <2> QED
    BY <2>1, <2>2
<1>8. Len(u) = (l + d) - e /\ Len(u) = Len(v)
  BY <1>1, <1>5, <1>6
<1>9. u = v
  BY <1>5, <1>6, <1>7, <1>8, SameText
<1> QED
  BY <1>9 DEF u, v, k, r, l

\* A text is the part of itself from its first byte to its last.
LEMMA WholeText ==
  ASSUME NEW s \in Text
  PROVE  SubSeq(s, 1, Len(s)) = s
  BY SubSeqFull DEF Text

\* The end of a message, without its CR, is an end of the message without its CR.
LEMMA ChompOfEnd ==
  ASSUME NEW m \in Text, NEW k \in 0 .. Len(m)
  PROVE  IsSuffix(Chomp(SubSeq(m, k + 1, Len(m))), Chomp(m))
<1> DEFINE line == SubSeq(m, k + 1, Len(m))
           n == Len(m)
<1>1. n \in Nat /\ k \in Nat /\ k <= n
  BY DEF Text
<1>2. /\ line \in Text /\ Len(line) = n - k /\ \A i \in 1 .. n - k : line[i] = m[k + i]
  <2>1. k + 1 \in 1 .. n + 1 /\ n \in (k + 1) - 1 .. n
    BY <1>1
  <2>2. /\ line \in Text /\ Len(line) = n - (k + 1) + 1
        /\ \A i \in 1 .. n - (k + 1) + 1 : line[i] = m[(k + 1) + i - 1]
    BY <2>1, Part
  <2> HIDE DEF line
  <2>3. n - (k + 1) + 1 = n - k /\ \A i \in 1 .. n - k : (k + 1) + i - 1 = k + i
    BY <1>1
  <2> QED
    BY <2>2, <2>3
<1>3. CASE k = n
  <2>1. line = <<>>
    BY <1>1, <1>3, SubSeqEmpty
  <2>2. Chomp(line) = <<>>
    BY <2>1 DEF Chomp
  <2> DEFINE t == Chomp(m)
  <2>3. t \in Text
    BY ChompIsText
  <2> HIDE DEF t
  <2>4. Len(t) \in Nat
    BY <2>3 DEF Text
  <2>5. SubSeq(t, Len(t) + 1, Len(t)) = <<>>
    BY <2>4, SubSeqEmpty
  <2>6. Len(<<>>) = 0 /\ Len(t) - 0 + 1 = Len(t) + 1 /\ 0 <= Len(t)
    BY <2>4
  <2>7. IsSuffix(<<>>, t)
    BY <2>5, <2>6 DEF IsSuffix
  <2> QED
    BY <2>2, <2>7 DEF t
<1>4. CASE k < n
  <2>1. line # <<>> /\ m # <<>> /\ line[Len(line)] = m[n]
    <3>1. n - k \in 1 .. n - k /\ k + (n - k) = n /\ n - k # 0 /\ n # 0
      BY <1>1, <1>4
    <3>2. Len(<<>>) = 0
      OBVIOUS
    <3> HIDE DEF line
    <3> QED
      BY <1>2, <3>1, <3>2
  <2>2. CASE m[n] = CR
    <3> DEFINE t == SubSeq(m, 1, n - 1)
               u == SubSeq(line, 1, Len(line) - 1)
    <3>1. Chomp(line) = u /\ Chomp(m) = t
      BY <2>1, <2>2 DEF Chomp
    <3>2. u = SubSeq(m, k + 1, n - 1)
      <4>1. /\ k + 1 \in 1 .. n + 1 /\ n \in (k + 1) - 1 .. n
            /\ 1 \in 1 .. (n - (k + 1) + 1) + 1
            /\ (n - k) - 1 \in 1 - 1 .. n - (k + 1) + 1
            /\ (k + 1) + 1 - 1 = k + 1 /\ (k + 1) + ((n - k) - 1) - 1 = n - 1
        BY <1>1, <1>4
      <4>2. SubSeq(SubSeq(m, k + 1, n), 1, (n - k) - 1)
              = SubSeq(m, (k + 1) + 1 - 1, (k + 1) + ((n - k) - 1) - 1)
        BY <4>1, PartOfPart
      <4> QED
        BY <1>2, <4>1, <4>2
    <3>3. Len(t) = n - 1
      <4>1. 1 \in 1 .. n + 1 /\ n - 1 \in 1 - 1 .. n /\ (n - 1) - 1 + 1 = n - 1
        BY <1>1, <1>4
      <4> QED
        BY <4>1, Part
    <3>4. SubSeq(t, k + 1, n - 1) = SubSeq(m, k + 1, n - 1)
      <4>1. /\ 1 \in 1 .. n + 1 /\ n - 1 \in 1 - 1 .. n
            /\ k + 1 \in 1 .. ((n - 1) - 1 + 1) + 1
            /\ n - 1 \in (k + 1) - 1 .. (n - 1) - 1 + 1
            /\ 1 + (k + 1) - 1 = k + 1 /\ 1 + (n - 1) - 1 = n - 1
        BY <1>1, <1>4
      <4>2. SubSeq(SubSeq(m, 1, n - 1), k + 1, n - 1)
              = SubSeq(m, 1 + (k + 1) - 1, 1 + (n - 1) - 1)
        BY <4>1, PartOfPart
      <4> QED
        BY <4>1, <4>2
    <3>5. Len(u) = (n - 1) - k
      <4>1. /\ k + 1 \in 1 .. n + 1 /\ n - 1 \in (k + 1) - 1 .. n
            /\ (n - 1) - (k + 1) + 1 = (n - 1) - k
        BY <1>1, <1>4
      <4> QED
        BY <3>2, <4>1, Part
    <3> HIDE DEF t, u, line
    <3>6. (n - 1) - ((n - 1) - k) + 1 = k + 1 /\ (n - 1) - k <= n - 1
      BY <1>1
    <3>7. IsSuffix(u, t)
      BY <3>2, <3>3, <3>4, <3>5, <3>6 DEF IsSuffix
    <3> QED
      BY <3>1, <3>7 DEF line
  <2>3. CASE m[n] # CR
    <3>1. Chomp(line) = line /\ Chomp(m) = m
      BY <2>1, <2>3 DEF Chomp
    <3>2. n - (n - k) + 1 = k + 1 /\ n - k <= n
      BY <1>1
    <3>3. IsSuffix(line, m)
      BY <1>2, <3>2 DEF IsSuffix
    <3> QED
      BY <3>1, <3>3
  <2> QED
    BY <2>2, <2>3
<1> QED
  BY <1>1, <1>3, <1>4

-----------------------------------------------------------------------------
(* Sets of numbers *)

\* A set of numbers has a least member.
LEMMA LeastOf ==
  ASSUME NEW T, T \subseteq Nat, T # {}
  PROVE  \E x \in T : \A y \in T : x <= y
<1> DEFINE R == OpToRel(<, Nat)
<1>1. IsWellFoundedOn(R, Nat)
  BY NatLessThanWellFounded
<1>2. R = {p \in Nat \X Nat : p[1] < p[2]}
  BY DEF OpToRel
<1> HIDE DEF R
<1>3. PICK x \in T : \A y \in T : ~ (<<y, x>> \in R)
  BY <1>1, WFMin
<1>4. ASSUME NEW y \in T PROVE x <= y
  <2>1. x \in Nat /\ y \in Nat /\ <<y, x>> \in Nat \X Nat
    OBVIOUS
  <2>2. y < x => <<y, x>> \in R
    BY <1>2, <2>1
  <2> QED
    BY <1>3, <2>1, <2>2
<1> QED
  BY <1>4

\* The greatest member is the least bound.
LEMMA GreatestOf ==
  ASSUME NEW n \in Nat, NEW T, T \subseteq 1 .. n, T # {}
  PROVE  \E m \in T : \A k \in T : k <= m
<1> DEFINE bounds == {b \in Nat : \A k \in T : k <= b}
<1>1. n \in bounds /\ bounds \subseteq Nat
  OBVIOUS
<1> HIDE DEF bounds
<1>2. PICK b \in bounds : \A y \in bounds : b <= y
  BY <1>1, LeastOf
<1>3. b \in Nat /\ \A k \in T : k <= b
  BY DEF bounds
<1>4. b \in T
  <2> SUFFICES ASSUME b \notin T
               PROVE  FALSE
    OBVIOUS
  <2>1. \A k \in T : k \in Nat /\ k >= 1 /\ k <= b - 1
    BY <1>3
  <2>2. b - 1 \in Nat
    <3>1. PICK k \in T : TRUE
      OBVIOUS
    <3>2. k \in Nat /\ k >= 1 /\ k <= b - 1
      BY <2>1, <3>1
    <3> QED
      BY <1>3, <3>2
  <2>3. b - 1 \in bounds
    BY <2>1, <2>2 DEF bounds
  <2> QED
    BY <1>2, <1>3, <2>3
<1> QED
  BY <1>3, <1>4

-----------------------------------------------------------------------------
(* Messages and their numbers *)

\* A stream holds finitely many complete messages.
LEMMA EndsFinite ==
  ASSUME NEW s \in Text
  PROVE  IsFiniteSet(Ends(s)) /\ Cardinality(Ends(s)) \in Nat /\ Len(s) \in Nat
<1>1. Len(s) \in Nat
  BY DEF Text
<1>2. IsFiniteSet(1 .. Len(s))
  BY <1>1, FS_Interval
<1>3. IsFiniteSet(Ends(s))
  BY <1>2, FS_Subset DEF Ends
<1> QED
  BY <1>1, <1>3, FS_CardinalityType

\* The number of a message is at most that of messages, and grows with it.
LEMMA NthGrows ==
  ASSUME NEW s \in Text, NEW i \in Int, NEW j \in Int, i <= j
  PROVE  /\ Nth(s, i) \in Nat /\ Nth(s, j) \in Nat /\ Nth(s, i) <= Nth(s, j)
         /\ Nth(s, j) <= Cardinality(Ends(s))
<1> DEFINE A == {k \in Ends(s) : k <= i}
           B == {k \in Ends(s) : k <= j}
           E == Ends(s)
<1>1. IsFiniteSet(E)
  BY EndsFinite
<1>2. A \subseteq B /\ B \subseteq E
  BY EndsFinite DEF Ends
<1> HIDE DEF A, B, E
<1>3. IsFiniteSet(B) /\ Cardinality(B) <= Cardinality(E)
  BY <1>1, <1>2, FS_Subset
<1>4. IsFiniteSet(A) /\ Cardinality(A) <= Cardinality(B)
  BY <1>2, <1>3, FS_Subset
<1>5. Cardinality(A) \in Nat /\ Cardinality(B) \in Nat
  BY <1>3, <1>4, FS_CardinalityType
<1> QED
  BY <1>3, <1>4, <1>5 DEF A, B, E, Nth

\* The next message has the next number.
LEMMA NthNext ==
  ASSUME NEW s \in Text, NEW c \in 0 .. Len(s), NEW q \in Ends(s), c < q, NoEnd(s, c, q - 1)
  PROVE  Nth(s, q) = Nth(s, c) + 1
<1> DEFINE A == {k \in Ends(s) : k <= c}
           B == {k \in Ends(s) : k <= q}
<1>1. B = A \cup {q} /\ q \notin A
  BY EndsFinite DEF Ends, NoEnd
<1>2. IsFiniteSet(A)
  BY EndsFinite, FS_Subset
<1> HIDE DEF A, B
<1>3. Cardinality(A \cup {q}) = Cardinality(A) + 1
  BY <1>1, <1>2, FS_AddElement
<1> QED
  BY <1>1, <1>3 DEF A, B, Nth

\* An earlier message has a smaller number.
LEMMA NthBelow ==
  ASSUME NEW s \in Text, NEW i \in Int, NEW q \in Ends(s), i < q
  PROVE  Nth(s, i) < Nth(s, q)
<1> DEFINE A == {k \in Ends(s) : k <= i}
           B == {k \in Ends(s) : k <= q}
           C == A \cup {q}
<1>1. C \subseteq B /\ q \notin A /\ B \subseteq Ends(s)
  BY EndsFinite DEF Ends
<1>2. IsFiniteSet(A) /\ IsFiniteSet(B)
  BY EndsFinite, FS_Subset
<1> HIDE DEF A, B
<1>3. IsFiniteSet(C) /\ Cardinality(C) = Cardinality(A) + 1
  BY <1>1, <1>2, FS_AddElement
<1> HIDE DEF C
<1>4. Cardinality(C) <= Cardinality(B)
  BY <1>1, <1>2, FS_Subset
<1>5. Cardinality(A) \in Nat /\ Cardinality(B) \in Nat
  BY <1>2, FS_CardinalityType
<1> QED
  BY <1>3, <1>4, <1>5 DEF A, B, Nth

\* A message begins behind the end of the one before it.
LEMMA StartBehind ==
  ASSUME NEW s \in Text, NEW c \in 0 .. Len(s), CutAt(s, c), NEW q \in Nat, c < q,
         NoEnd(s, c, q - 1)
  PROVE  Start(s, q) = c + 1
<1> DEFINE before == {j \in Ends(s) : j < q}
           last == CHOOSE j \in before : \A k \in before : k <= j
<1>1. Len(s) \in Nat /\ \A j \in before : j \in Nat /\ j >= 1 /\ j <= c
  BY EndsFinite DEF Ends, NoEnd
<1>2. Start(s, q) = IF before = {} THEN 1 ELSE 1 + last
  BY DEF Start
<1>3. CASE c = 0
  <2>1. before = {}
    BY <1>1, <1>3
  <2> QED
    BY <1>2, <1>3, <2>1
<1>4. CASE c > 0
  <2>1. c \in before
    BY <1>1, <1>4 DEF CutAt, Ends
  <2> HIDE DEF before
  <2>2. last \in before /\ \A k \in before : k <= last
    BY <1>1, <2>1
  <2> HIDE DEF last
  <2>3. last = c
    BY <1>1, <2>1, <2>2
  <2> QED
    BY <1>1, <1>2, <2>1, <2>3
<1> QED
  BY <1>1, <1>3, <1>4

\* Where the message begins that ends at i, or is in progress there.
LEMMA StartInside ==
  ASSUME NEW s \in Text, NEW i \in 1 .. Len(s) + 1
  PROVE  Start(s, i) \in 1 .. i
<1> DEFINE before == {j \in Ends(s) : j < i}
           last == CHOOSE j \in before : \A k \in before : k <= j
<1>1. Len(s) \in Nat /\ before \subseteq 1 .. i - 1 /\ i \in Nat
  BY EndsFinite DEF Ends
<1>2. Start(s, i) = IF before = {} THEN 1 ELSE 1 + last
  BY DEF Start
<1>3. CASE before = {}
  BY <1>1, <1>2, <1>3
<1>4. CASE before # {}
  <2>1. i - 1 \in Nat
    BY <1>1
  <2> HIDE DEF before
  <2>2. \E m \in before : \A k \in before : k <= m
    BY <1>1, <1>4, <2>1, GreatestOf
  <2>3. last \in before
    BY <2>2
  <2> HIDE DEF last
  <2> QED
    BY <1>1, <1>2, <1>4, <2>3
<1> QED
  BY <1>3, <1>4

\* What has ended stays as it is when more comes, with its number.
LEMMA EndsOfLonger ==
  ASSUME NEW s \in Text, NEW t \in Text
  PROVE  /\ \A i \in 1 .. Len(s) : i \in Ends(s \o t) <=> i \in Ends(s)
         /\ \A i \in 0 .. Len(s) : Nth(s \o t, i) = Nth(s, i)
         /\ \A i \in Ends(s) : Message(s \o t, i) = Message(s, i)
         /\ \A i \in Ends(s \o t) : i > Len(s) => Nth(s \o t, i) > Cardinality(Ends(s))
         /\ Cardinality(Ends(s)) <= Cardinality(Ends(s \o t))
<1> DEFINE r == s \o t
<1>1. /\ r \in Text /\ Len(r) = Len(s) + Len(t) /\ Len(s) \in Nat /\ Len(t) \in Nat
      /\ \A i \in 1 .. Len(s) : r[i] = s[i]
  BY Longer DEF Text
<1>2. \A m \in 1 .. Len(s) + 1 : \A n \in m - 1 .. Len(s) : SubSeq(r, m, n) = SubSeq(s, m, n)
  BY PartOfLonger
<1> HIDE DEF r
<1>3. \A i \in 1 .. Len(s) : i \in Ends(r) <=> i \in Ends(s)
  BY <1>1 DEF Ends
<1>4. \A i \in 0 .. Len(s) : {j \in Ends(r) : j <= i} = {j \in Ends(s) : j <= i}
  BY <1>1, <1>3 DEF Ends
<1>5. \A i \in 0 .. Len(s) : Nth(r, i) = Nth(s, i)
  BY <1>4 DEF Nth
<1>6. ASSUME NEW i \in Ends(s)
      PROVE  Message(r, i) = Message(s, i)
  <2>1. i \in 1 .. Len(s)
    BY DEF Ends
  <2>2. {j \in Ends(r) : j < i} = {j \in Ends(s) : j < i}
    BY <1>1, <1>3, <2>1 DEF Ends
  <2>3. Start(r, i) = Start(s, i)
    <3> DEFINE B(x) == {j \in Ends(x) : j < i}
               Behind(C) == IF C = {} THEN 1
                            ELSE 1 + CHOOSE j \in C : \A k \in C : k <= j
    <3>1. Start(r, i) = Behind(B(r)) /\ Start(s, i) = Behind(B(s))
      BY DEF Start
    <3>2. B(r) = B(s)
      BY <2>2
    <3> HIDE DEF B, Behind
    <3> QED
      BY <3>1, <3>2
  <2>4. Start(s, i) \in 1 .. i
    BY <1>1, <2>1, StartInside
  <2>5. Start(s, i) \in 1 .. Len(s) + 1 /\ i - 1 \in Start(s, i) - 1 .. Len(s)
    BY <1>1, <2>1, <2>4
  <2> QED
    BY <1>2, <2>3, <2>5 DEF Message
<1>7. Nth(r, Len(s)) = Cardinality(Ends(s))
  <2>1. Nth(r, Len(s)) = Nth(s, Len(s))
    BY <1>1, <1>5
  <2>2. {j \in Ends(s) : j <= Len(s)} = Ends(s)
    BY <1>1 DEF Ends
  <2> QED
    BY <2>1, <2>2 DEF Nth
<1>8. ASSUME NEW i \in Ends(r), i > Len(s)
      PROVE  Nth(r, i) > Cardinality(Ends(s))
  <2>1. Nth(r, Len(s)) < Nth(r, i)
    BY <1>1, <1>8, NthBelow
  <2>2. Nth(r, Len(s)) \in Nat /\ Nth(r, i) \in Nat
    <3>1. i \in Int
      BY <1>1 DEF Ends
    <3> QED
      BY <1>1, <1>8, <3>1, NthGrows
  <2> QED
    BY <1>7, <2>1, <2>2
<1>9. Cardinality(Ends(s)) <= Cardinality(Ends(r))
  BY <1>1, <1>7, NthGrows
<1> QED
  BY <1>3, <1>5, <1>6, <1>8, <1>9 DEF r

-----------------------------------------------------------------------------
(* What the steps do to lines and cuts *)

\* The line of the message that ends at i is a tail of it, and all of it if it fits
\* into carry.
Follow(s, lines, i) ==
  LET line == lines[Nth(s, i)]
      message == Message(s, i)
  IN  /\ IsSuffix(line, Chomp(message))
      /\ Len(message) < CarrySize => line = Chomp(message)

\* LinesFollowMessages, of a stream and the lines dispatched.
Follows(s, lines) ==
  /\ Len(lines) <= Cardinality(Ends(s))
  /\ \A i \in Ends(s) : Nth(s, i) <= Len(lines) => Follow(s, lines, i)

\* The lines made of a stream stay in step with its messages when more is received.
LEMMA FollowsLonger ==
  ASSUME NEW s \in Text, NEW t \in Text, NEW lines \in Seq(Text), Follows(s, lines)
  PROVE  Follows(s \o t, lines)
<1> DEFINE r == s \o t
           n == Len(lines)
<1>1. n \in Nat /\ Len(s) \in Nat /\ Cardinality(Ends(s)) \in Nat /\ r \in Text
      /\ Cardinality(Ends(r)) \in Nat
  BY EndsFinite, Longer
<1>2. /\ \A i \in 1 .. Len(s) : i \in Ends(r) <=> i \in Ends(s)
      /\ \A i \in 0 .. Len(s) : Nth(r, i) = Nth(s, i)
      /\ \A i \in Ends(s) : Message(r, i) = Message(s, i)
      /\ \A i \in Ends(r) : i > Len(s) => Nth(r, i) > Cardinality(Ends(s))
      /\ Cardinality(Ends(s)) <= Cardinality(Ends(r))
  BY EndsOfLonger
<1> HIDE DEF r
<1>3. n <= Cardinality(Ends(s)) /\ n <= Cardinality(Ends(r))
  BY <1>1, <1>2 DEF Follows
<1>4. ASSUME NEW i \in Ends(r), Nth(r, i) <= n
      PROVE  Follow(r, lines, i)
  <2>1. i \in Nat /\ i >= 1 /\ Nth(r, i) \in Nat
    <3>1. i \in Nat /\ i >= 1
      BY EndsFinite, <1>1 DEF Ends
    <3> QED
      BY <1>1, <3>1, NthGrows
  <2>2. ~ i > Len(s)
    BY <1>1, <1>2, <1>3, <1>4, <2>1
  <2>3. i \in Ends(s) /\ Nth(r, i) = Nth(s, i) /\ Message(r, i) = Message(s, i)
    BY <1>1, <1>2, <2>1, <2>2
  <2>4. Follow(s, lines, i)
    BY <1>4, <2>3 DEF Follows
  <2> QED
    BY <2>3, <2>4 DEF Follow
<1> QED
  BY <1>3, <1>4 DEF Follows, r

\* What is kept is the end of the stream.
LEMMA KeptIsEnd ==
  ASSUME NEW s \in Text, NEW n, NEW kept, NEW c, NEW e, Handled(s, n, kept, c, e)
  PROVE  /\ Len(s) \in Nat /\ c \in Nat /\ e \in Nat /\ c <= e /\ e <= Len(s)
         /\ kept \in Text /\ Len(kept) = Len(s) - e
         /\ \A i \in 1 .. Len(kept) : kept[i] = s[e + i]
<1>1. Len(s) \in Nat /\ c \in 0 .. Len(s) /\ e \in c .. Len(s) /\ kept = SubSeq(s, e + 1, Len(s))
  BY DEF Handled, CutAt, Text
<1>2. e + 1 \in 1 .. Len(s) + 1 /\ Len(s) \in (e + 1) - 1 .. Len(s)
  BY <1>1
<1>3. /\ kept \in Text /\ Len(kept) = Len(s) - (e + 1) + 1
      /\ \A i \in 1 .. Len(s) - (e + 1) + 1 : kept[i] = s[(e + 1) + i - 1]
  BY <1>1, <1>2, Part
<1>4. /\ Len(s) - (e + 1) + 1 = Len(s) - e
      /\ \A i \in 1 .. Len(s) - e : (e + 1) + i - 1 = e + i
  BY <1>1
<1>5. Len(kept) = Len(s) - e /\ \A i \in 1 .. Len(s) - e : kept[i] = s[e + i]
  BY <1>3, <1>4
<1>6. c \in Nat /\ e \in Nat /\ c <= e /\ e <= Len(s)
  BY <1>1
<1> QED
  BY <1>1, <1>3, <1>5, <1>6

\* More comes, behind what is kept.
LEMMA HandledLonger ==
  ASSUME NEW s \in Text, NEW t \in Text, NEW n, NEW kept, NEW c, NEW e,
         Handled(s, n, kept, c, e)
  PROVE  Handled(s \o t, n, kept \o t, c, e)
<1> DEFINE r == s \o t
<1>1. /\ Len(s) \in Nat /\ c \in Nat /\ e \in Nat /\ c <= e /\ e <= Len(s)
      /\ Len(t) \in Nat
  BY KeptIsEnd DEF Text
<1>2. r \in Text /\ Len(r) = Len(s) + Len(t) /\ \A i \in 1 .. Len(s) : r[i] = s[i]
  BY Longer
<1>3. Nth(r, c) = Nth(s, c)
  BY <1>1, EndsOfLonger
<1>4. kept \o t = SubSeq(r, e + 1, Len(r))
  <2>1. e \in 0 .. Len(s) /\ kept = SubSeq(s, e + 1, Len(s))
    BY <1>1 DEF Handled
  <2> HIDE DEF r
  <2>2. SubSeq(s, e + 1, Len(s)) \o t = SubSeq(r, e + 1, Len(r))
    BY <2>1, EndOfLonger DEF r
  <2> QED
    BY <2>1, <2>2
<1> HIDE DEF r
<1>5. CutAt(r, c) /\ e \in c .. Len(r) /\ NoEnd(r, c, e)
  BY <1>1, <1>2 DEF Handled, CutAt, NoEnd
<1>6. Handled(r, n, kept \o t, c, e)
  BY <1>3, <1>4, <1>5 DEF Handled
<1> QED
  BY <1>6 DEF r

\* The next line is dispatched.
LEMMA HandledNext ==
  ASSUME NEW s \in Text, NEW lines \in Seq(Text), NEW kept, NEW c, NEW e,
         Handled(s, Len(lines), kept, c, e), Follows(s, lines),
         NEW i \in 1 .. Len(kept), kept[i] = NL, \A j \in 1 .. i - 1 : kept[j] # NL
  PROVE  /\ Follows(s, Append(lines, Chomp(SubSeq(kept, 1, i - 1))))
         /\ Handled(s, Len(lines) + 1, SubSeq(kept, i + 1, Len(kept)), e + i, e + i)
<1> DEFINE l == Len(s)
           q == e + i
           n == Len(lines)
<1>1. /\ l \in Nat /\ c \in Nat /\ e \in Nat /\ c <= e /\ e <= l
      /\ kept \in Text /\ Len(kept) = l - e
      /\ \A j \in 1 .. Len(kept) : kept[j] = s[e + j]
  BY KeptIsEnd
<1>2. /\ CutAt(s, c) /\ Nth(s, c) = n /\ NoEnd(s, c, e) /\ (e = c \/ e - c >= CarrySize)
      /\ kept = SubSeq(s, e + 1, l) /\ n \in Nat
  BY DEF Handled
<1>3. i \in Nat /\ i >= 1 /\ i <= l - e /\ q \in Nat /\ q <= l /\ e < q
  BY <1>1
<1>4. q \in Ends(s)
  BY <1>1, <1>3 DEF Ends
<1>5. NoEnd(s, c, q - 1)
  <2> SUFFICES ASSUME NEW j \in c + 1 .. q - 1
               PROVE  s[j] # NL
    BY DEF NoEnd
  <2>1. CASE j <= e
    BY <1>1, <1>2, <2>1 DEF NoEnd
  <2>2. CASE ~ j <= e
    <3>1. j - e \in 1 .. i - 1 /\ e + (j - e) = j /\ j - e \in 1 .. Len(kept)
      BY <1>1, <1>3, <2>2
    <3> QED
      BY <1>1, <3>1
  <2> QED
    BY <2>1, <2>2
<1>6. c \in 0 .. l /\ c < q
  BY <1>1, <1>3
<1>7. Nth(s, q) = n + 1
  BY <1>2, <1>4, <1>5, <1>6, NthNext
<1>8. Start(s, q) = c + 1
  BY <1>2, <1>3, <1>5, <1>6, StartBehind
<1> DEFINE message == SubSeq(s, c + 1, q - 1)
           piece == SubSeq(kept, 1, i - 1)
           line == Chomp(piece)
           all == Append(lines, line)
<1>9. Message(s, q) = message
  BY <1>8 DEF Message
<1>10. message \in Text /\ Len(message) = (q - 1) - c
  <2>1. /\ c + 1 \in 1 .. l + 1 /\ q - 1 \in (c + 1) - 1 .. l
        /\ (q - 1) - (c + 1) + 1 = (q - 1) - c
    BY <1>1, <1>3
  <2> QED
    BY <2>1, Part
<1>11. piece = SubSeq(s, e + 1, q - 1)
  <2>1. /\ e + 1 \in 1 .. l + 1 /\ l \in (e + 1) - 1 .. l
        /\ 1 \in 1 .. (l - (e + 1) + 1) + 1 /\ i - 1 \in 1 - 1 .. l - (e + 1) + 1
        /\ (e + 1) + 1 - 1 = e + 1 /\ (e + 1) + (i - 1) - 1 = q - 1
    BY <1>1, <1>3
  <2>2. SubSeq(SubSeq(s, e + 1, l), 1, i - 1)
          = SubSeq(s, (e + 1) + 1 - 1, (e + 1) + (i - 1) - 1)
    BY <2>1, PartOfPart
  <2> QED
    BY <1>2, <2>1, <2>2
<1>12. piece = SubSeq(message, (e - c) + 1, Len(message))
  <2>1. /\ c + 1 \in 1 .. l + 1 /\ q - 1 \in (c + 1) - 1 .. l
        /\ (e - c) + 1 \in 1 .. ((q - 1) - (c + 1) + 1) + 1
        /\ (q - 1) - c \in ((e - c) + 1) - 1 .. (q - 1) - (c + 1) + 1
        /\ (c + 1) + ((e - c) + 1) - 1 = e + 1
        /\ (c + 1) + ((q - 1) - c) - 1 = q - 1
    BY <1>1, <1>3
  <2>2. SubSeq(SubSeq(s, c + 1, q - 1), (e - c) + 1, (q - 1) - c)
          = SubSeq(s, (c + 1) + ((e - c) + 1) - 1, (c + 1) + ((q - 1) - c) - 1)
    BY <2>1, PartOfPart
  <2> QED
    BY <1>10, <1>11, <2>1, <2>2
<1>13. IsSuffix(line, Chomp(message))
  <2>1. e - c \in 0 .. Len(message)
    BY <1>1, <1>3, <1>10
  <2> HIDE DEF message, piece
  <2> QED
    BY <1>10, <1>12, <2>1, ChompOfEnd
<1>14. Len(message) < CarrySize => line = Chomp(message)
  <2> SUFFICES ASSUME Len(message) < CarrySize
               PROVE  piece = message
    OBVIOUS
  <2>1. e = c
    BY <1>1, <1>2, <1>3, <1>10, SizesAssumption
  <2> QED
    BY <1>11, <2>1
<1>15. line \in Text
  <2>1. 1 \in 1 .. Len(kept) + 1 /\ i - 1 \in 1 - 1 .. Len(kept)
    BY <1>1, <1>3
  <2>2. piece \in Text
    BY <1>1, <2>1, Part
  <2> QED
    BY <2>2, ChompIsText
<1> HIDE DEF message, piece, line
<1>16. /\ all \in Seq(Text) /\ Len(all) = n + 1 /\ all[n + 1] = line
       /\ \A k \in 1 .. n : all[k] = lines[k]
  BY <1>2, <1>15
<1> HIDE DEF all, n
<1>17. n + 1 <= Cardinality(Ends(s))
  <2>1. q \in Int
    BY <1>3
  <2> QED
    BY <1>7, <2>1, NthGrows
<1>18. ASSUME NEW j \in Ends(s), Nth(s, j) <= n + 1
       PROVE  Follow(s, all, j)
  <2>1. j \in Int /\ Nth(s, j) \in Nat /\ Nth(s, j) >= 1
    <3>1. j \in Int /\ 0 < j
      BY <1>1 DEF Ends
    <3>2. Nth(s, 0) < Nth(s, j)
      BY <3>1, NthBelow
    <3>3. Nth(s, 0) \in Nat /\ Nth(s, j) \in Nat
      BY <3>1, NthGrows
    <3> QED
      BY <3>1, <3>2, <3>3
  <2>2. CASE Nth(s, j) = n + 1
    <3>1. j = q
      <4>1. j < q => Nth(s, j) < n + 1
        BY <1>4, <1>7, <2>1, NthBelow
      <4>2. q < j => n + 1 < Nth(s, j)
        BY <1>3, <1>7, NthBelow
      <4> QED
        BY <1>2, <1>3, <2>1, <2>2, <4>1, <4>2
    <3> QED
      BY <1>7, <1>9, <1>13, <1>14, <1>16, <3>1 DEF Follow
  <2>3. CASE Nth(s, j) # n + 1
    <3>1. Nth(s, j) \in 1 .. n
      BY <1>2, <1>18, <2>1, <2>3
    <3>2. Follow(s, lines, j)
      BY <3>1 DEF Follows, n
    <3> QED
      BY <1>16, <3>1, <3>2 DEF Follow
  <2> QED
    BY <2>2, <2>3
<1>19. Follows(s, all)
  BY <1>16, <1>17, <1>18 DEF Follows
<1>20. Handled(s, n + 1, SubSeq(kept, i + 1, Len(kept)), q, q)
  <2>1. SubSeq(kept, i + 1, l - e) = SubSeq(s, q + 1, l)
    <3>1. /\ e + 1 \in 1 .. l + 1 /\ l \in (e + 1) - 1 .. l
          /\ i + 1 \in 1 .. (l - (e + 1) + 1) + 1 /\ l - e \in (i + 1) - 1 .. l - (e + 1) + 1
          /\ (e + 1) + (i + 1) - 1 = q + 1 /\ (e + 1) + (l - e) - 1 = l
      BY <1>1, <1>3
    <3>2. SubSeq(SubSeq(s, e + 1, l), i + 1, l - e)
            = SubSeq(s, (e + 1) + (i + 1) - 1, (e + 1) + (l - e) - 1)
      BY <3>1, PartOfPart
    <3> QED
      BY <1>2, <3>1, <3>2
  <2>2. CutAt(s, q)
    BY <1>1, <1>3, <1>4 DEF CutAt, Ends
  <2>3. q \in q .. l /\ NoEnd(s, q, q)
    BY <1>1, <1>3 DEF NoEnd
  <2>4. SubSeq(kept, i + 1, Len(kept)) = SubSeq(s, q + 1, l)
    BY <1>1, <2>1
  <2> HIDE DEF q
  <2> QED
    BY <1>7, <2>2, <2>3, <2>4 DEF Handled
<1> QED
  BY <1>19, <1>20 DEF all, line, piece, n

-----------------------------------------------------------------------------
(* The cut is inductive *)

\* The invariant: where the stream has been cut, and the lines made of it.  A NUL
\* ends the C string that the loop looks at, so nothing is said of streams with one.
FollowInv ==
  ~ Has(received, NUL) => Cut /\ Follows(received, dispatched)

\* A stream without NUL is a C string.
LEMMA NoNUL ==
  ASSUME NEW s \in Text, ~ Has(s, NUL), NEW n \in 0 .. Len(s), IsCString(s, n)
  PROVE  n = Len(s)
<1>1. Len(s) \in Nat
  BY DEF Text
<1>2. n < Len(s) => n + 1 \in 1 .. Len(s) /\ s[n + 1] = NUL
  BY <1>1 DEF IsCString
<1> QED
  BY <1>1, <1>2 DEF Has

\* What recv adds stands behind what was kept, and nothing of it is lost.
LEMMA RecvFollows ==
  ASSUME TypeOK, FollowInv, NEW chunk \in Chunks, Recv(chunk), ~ Has(received, NUL)'
  PROVE  Cut' /\ Follows(received, dispatched)'
<1> DEFINE all == Combined(carry, chunk)
<1>1. /\ received \in Text /\ carry \in Text /\ chunk \in Text /\ dispatched \in Seq(Text)
      /\ received' = received \o chunk /\ dispatched' = dispatched /\ pc = "recv"
      /\ pc' = "split" /\ all = carry \o chunk
  BY ChunkIsText DEF TypeOK, Recv, Combined
<1>2. /\ received' \in Text /\ all \in Text
      /\ Len(received') = Len(received) + Len(chunk) /\ Len(received) \in Nat
      /\ \A i \in 1 .. Len(received) : received'[i] = received[i]
  <2>1. Len(received) \in Nat
    BY <1>1 DEF Text
  <2>2. all \in Text
    BY <1>1, Longer
  <2> HIDE DEF all
  <2> QED
    BY <1>1, <2>1, <2>2, Longer
<1>3. ~ Has(received, NUL)
  <2>1. Len(chunk) \in Nat
    BY <1>1 DEF Text
  <2>2. \A i \in 1 .. Len(received) : i \in 1 .. Len(received')
    BY <1>2, <2>1
  <2> QED
    BY <1>2, <2>2 DEF Has
<1>4a. PICK c \in 0 .. Len(received) : \E e \in c .. Len(received) :
      Handled(received, Len(dispatched), carry, c, e)
  BY <1>1, <1>3 DEF FollowInv, Cut, Kept
<1>4. PICK e \in c .. Len(received) : Handled(received, Len(dispatched), carry, c, e)
  BY <1>4a
<1>5. Handled(received', Len(dispatched), all, c, e)
  BY <1>1, <1>4, HandledLonger
<1> HIDE DEF all
<1>6. ~ Has(all, NUL)
  <2>1. /\ e \in Nat /\ Len(received') \in Nat /\ Len(all) = Len(received') - e
        /\ \A i \in 1 .. Len(all) : all[i] = received'[e + i]
    <3> DEFINE r == received'
               n == Len(dispatched)
    <3>1. r \in Text /\ Handled(r, n, all, c, e)
      BY <1>2, <1>5
    <3> HIDE DEF r, n
    <3>2. /\ e \in Nat /\ Len(r) \in Nat /\ Len(all) = Len(r) - e
          /\ \A i \in 1 .. Len(all) : all[i] = r[e + i]
      BY <3>1, KeptIsEnd
    <3> QED
      BY <3>2 DEF r
  <2>2. \A i \in 1 .. Len(all) : e + i \in 1 .. Len(received')
    BY <2>1
  <2> QED
    BY <2>1, <2>2 DEF Has
<1>7. rest' = all
  <2>1. PICK n \in 0 .. Len(all) : IsCString(all, n) /\ rest' = SubSeq(all, 1, n)
    BY DEF Recv, all
  <2> QED
    BY <1>2, <1>6, <2>1, NoNUL, WholeText
<1>8. Cut'
  <2>1. Kept' = all
    BY <1>1, <1>7 DEF Kept
  <2>2. c \in 0 .. Len(received') /\ e \in c .. Len(received')
    <3>1. Len(chunk) \in Nat
      BY <1>1 DEF Text
    <3> QED
      BY <1>2, <3>1
  <2> QED
    BY <1>1, <1>5, <2>1, <2>2 DEF Cut
<1>9. Follows(received, dispatched)'
  <2>1. Follows(received, dispatched)
    BY <1>3 DEF FollowInv
  <2>2. Follows(received \o chunk, dispatched)
    BY <1>1, <2>1, FollowsLonger
  <2> QED
    BY <1>1, <2>2
<1> QED
  BY <1>8, <1>9

\* The line dispatched is the next message, or the tail of one that was too long.
LEMMA DispatchFollows ==
  ASSUME TypeOK, FollowInv, Dispatch, ~ Has(received, NUL)'
  PROVE  Cut' /\ Follows(received, dispatched)'
<1>1. PICK i \in 1 .. Len(rest) :
        /\ rest[i] = NL /\ \A j \in 1 .. i - 1 : rest[j] # NL
        /\ dispatched' = Append(dispatched, Chomp(SubSeq(rest, 1, i - 1)))
        /\ rest' = SubSeq(rest, i + 1, Len(rest))
        /\ pc' \in {"closed", "split"}
  BY DEF Dispatch
<1>2. /\ received \in Text /\ rest \in Text /\ dispatched \in Seq(Text) /\ pc = "split"
      /\ received' = received /\ ~ Has(received, NUL)
  BY DEF TypeOK, Dispatch
<1>3a. PICK c \in 0 .. Len(received) : \E e \in c .. Len(received) :
      Handled(received, Len(dispatched), rest, c, e)
  BY <1>2 DEF FollowInv, Cut, Kept
<1>3. PICK e \in c .. Len(received) : Handled(received, Len(dispatched), rest, c, e)
  BY <1>3a
<1>4. Follows(received, dispatched)
  BY <1>2 DEF FollowInv
<1>5. /\ Follows(received, dispatched')
      /\ Handled(received, Len(dispatched) + 1, rest', e + i, e + i)
  BY <1>1, <1>2, <1>3, <1>4, HandledNext
<1>6. Len(dispatched') = Len(dispatched) + 1
  <2> DEFINE line == Chomp(SubSeq(rest, 1, i - 1))
  <2>1. line \in Text
    <3>1. Len(rest) \in Nat
      BY <1>2 DEF Text
    <3>2. 1 \in 1 .. Len(rest) + 1 /\ i - 1 \in 1 - 1 .. Len(rest)
      BY <3>1
    <3>3. SubSeq(rest, 1, i - 1) \in Text
      BY <1>2, <3>2, Part
    <3> QED
      BY <3>3, ChompIsText
  <2>2. dispatched' = Append(dispatched, line)
    BY <1>1
  <2> HIDE DEF line
  <2> QED
    BY <1>2, <2>1, <2>2
<1>7. Cut'
  <2>1. Kept' = rest' /\ pc' # "recv"
    BY <1>1 DEF Kept
  <2>2. e + i \in 0 .. Len(received') /\ e + i \in e + i .. Len(received')
    <3>1. /\ Len(received) \in Nat /\ e \in Nat /\ e <= Len(received)
          /\ Len(rest) = Len(received) - e
      BY <1>2, <1>3, KeptIsEnd
    <3> QED
      BY <1>2, <3>1
  <2>3. Handled(received', Len(dispatched'), Kept', e + i, e + i)
    BY <1>2, <1>5, <1>6, <2>1
  <2> QED
    BY <2>1, <2>2, <2>3 DEF Cut
<1> QED
  BY <1>2, <1>5, <1>7

\* What is kept is the message in progress; what does not fit is forgotten, but no
\* complete message with it.
LEMMA SaveRestFollows ==
  ASSUME TypeOK, FollowInv, SaveRest, ~ Has(received, NUL)'
  PROVE  Cut' /\ Follows(received, dispatched)'
<1>1. /\ received \in Text /\ rest \in Text /\ pc = "split" /\ ~ Has(rest, NL)
      /\ received' = received /\ ~ Has(received, NUL) /\ dispatched' = dispatched
      /\ pc' = "recv" /\ carry' = IF Len(rest) < CarrySize THEN rest ELSE <<>>
  BY DEF TypeOK, SaveRest
<1>2a. PICK c \in 0 .. Len(received) : \E e \in c .. Len(received) :
      Handled(received, Len(dispatched), rest, c, e)
  BY <1>1 DEF FollowInv, Cut, Kept
<1>2. PICK e \in c .. Len(received) : Handled(received, Len(dispatched), rest, c, e)
  BY <1>2a
<1>3. /\ Len(received) \in Nat /\ e \in Nat /\ c \in Nat /\ c <= e /\ e <= Len(received)
      /\ Len(rest) = Len(received) - e
      /\ \A i \in 1 .. Len(rest) : rest[i] = received[e + i]
  BY <1>1, <1>2, KeptIsEnd
<1>4. Kept' = carry' /\ Follows(received, dispatched)'
  BY <1>1 DEF Kept, FollowInv
<1>5. CASE Len(rest) < CarrySize
  <2>1. carry' = rest
    BY <1>1, <1>5
  <2>2. Cut'
    BY <1>1, <1>2, <1>4, <2>1 DEF Cut
  <2> QED
    BY <1>4, <2>2
<1>6. CASE ~ Len(rest) < CarrySize
  <2> DEFINE l == Len(received)
  <2>1. carry' = <<>>
    BY <1>1, <1>6
  <2>2. NoEnd(received, c, l)
    <3> SUFFICES ASSUME NEW j \in c + 1 .. l
                 PROVE  received[j] # NL
      BY DEF NoEnd
    <3>1. CASE j <= e
      BY <1>2, <1>3, <3>1 DEF Handled, NoEnd
    <3>2. CASE ~ j <= e
      <4>1. j - e \in 1 .. Len(rest) /\ e + (j - e) = j
        BY <1>3, <3>2
      <4> QED
        BY <1>1, <1>3, <4>1 DEF Has
    <3> QED
      BY <3>1, <3>2
  <2>3. SubSeq(received, l + 1, l) = <<>>
    <3>1. l + 1 \in Int /\ l \in Int /\ l < l + 1
      BY <1>3
    <3> QED
      BY <3>1, SubSeqEmpty
  <2>4. l - c >= CarrySize
    BY <1>3, <1>6, SizesAssumption
  <2>5. l \in c .. l
    BY <1>3
  <2>6. Handled(received, Len(dispatched), <<>>, c, l)
    BY <1>2, <2>2, <2>3, <2>4, <2>5 DEF Handled
  <2>7. ~ Has(<<>>, NL)
    BY DEF Has
  <2> HIDE DEF l
  <2>8. Handled(received', Len(dispatched'), Kept', c, l) /\ l = Len(received') /\ ~ Has(carry', NL)
    BY <1>1, <1>4, <2>1, <2>6, <2>7 DEF l
  <2>9. Cut'
    BY <1>1, <2>5, <2>8 DEF Cut
  <2> QED
    BY <1>4, <2>9
<1> QED
  BY <1>5, <1>6

\* Every step keeps the lines dispatched in step with the messages.
LEMMA FollowStep ==
  ASSUME TypeOK, FollowInv, [Next]_vars
  PROVE  FollowInv'
<1>1. CASE HangUp \/ UNCHANGED vars
  <2>1. /\ UNCHANGED <<carry, rest, received, dispatched>>
        /\ pc' = pc \/ pc' = "closed"
    BY <1>1 DEF HangUp, vars
  <2>2. Cut => Cut'
    BY <2>1 DEF Cut, Kept
  <2> QED
    BY <2>1, <2>2 DEF FollowInv
<1> QED
  BY <1>1, RecvFollows, DispatchFollows, SaveRestFollows DEF Next, FollowInv

\* Nothing has been received and nothing dispatched.
LEMMA FollowInit == Init => FollowInv
<1> SUFFICES ASSUME Init PROVE FollowInv
  OBVIOUS
<1>1. received = <<>> /\ dispatched = <<>> /\ carry = <<>> /\ pc = "recv"
  BY DEF Init
<1>2. <<>> \in Text /\ Len(<<>>) = 0
  BY DEF Text
<1>3. Ends(<<>>) = {}
  BY <1>2 DEF Ends
<1>4. Cardinality({}) = 0
  BY FS_EmptySet
<1>5. Nth(<<>>, 0) = 0
  <2>1. {j \in Ends(<<>>) : j <= 0} = {}
    BY <1>3
  <2> QED
    BY <1>4, <2>1 DEF Nth
<1>6. Follows(<<>>, <<>>)
  BY <1>2, <1>3, <1>4 DEF Follows
<1>7. SubSeq(<<>>, 0 + 1, 0) = <<>>
  BY SubSeqEmpty
<1>8. Handled(<<>>, 0, <<>>, 0, 0)
  BY <1>2, <1>5, <1>7 DEF Handled, CutAt, NoEnd
<1>9. ~ Has(<<>>, NL)
  BY <1>2 DEF Has
<1>10. Cut
  BY <1>1, <1>2, <1>8, <1>9 DEF Cut, Kept
<1> QED
  BY <1>1, <1>6, <1>10 DEF FollowInv

\* The lines dispatched follow the messages at every moment, and what the session
\* keeps is an end of the stream.
THEOREM Following == Spec => [](TypeOK /\ FollowInv)
<1>1. Init => FramingInv /\ FollowInv
  BY FramingInit, FollowInit
<1>2. FramingInv /\ FollowInv /\ [Next]_vars => (FramingInv /\ FollowInv)'
  BY FramingStep, FollowStep DEF FramingInv
<1>3. FramingInv /\ FollowInv => TypeOK /\ FollowInv
  BY DEF FramingInv
<1> QED
  BY <1>1, <1>2, <1>3, PTL DEF Spec

\* dispatch_command is given the messages of the stream, each as a whole when it fits
\* into carry, for all sizes of the buffers and however the stream is cut by recv.
THEOREM LinesFollow == Spec => []LinesFollowMessages
<1>1. FollowInv => LinesFollowMessages
  BY DEF FollowInv, Follows, Follow, LinesFollowMessages
<1> QED
  BY <1>1, Following, PTL

\* A session that goes back to recv has dispatched every complete message.
THEOREM NothingWaitsHolds == Spec => []NothingWaits
<1>1. TypeOK /\ FollowInv => NothingWaits
  <2> SUFFICES ASSUME TypeOK, FollowInv, pc = "recv", ~ Has(received, NUL)
               PROVE  /\ Len(dispatched) = Cardinality(Ends(received))
                      /\ Len(Message(received, Len(received) + 1)) < CarrySize
                           => carry = Message(received, Len(received) + 1)
    BY DEF NothingWaits
  <2> DEFINE l == Len(received)
  <2>1. received \in Text /\ ~ Has(carry, NL) /\ Follows(received, dispatched)
    BY DEF TypeOK, FollowInv, Cut
  <2>2a. PICK c \in 0 .. l : \E e \in c .. l :
      Handled(received, Len(dispatched), carry, c, e)
  BY DEF FollowInv, Cut, Kept
  <2>2. PICK e \in c .. l : Handled(received, Len(dispatched), carry, c, e)
    BY <2>2a
  <2>3. /\ l \in Nat /\ e \in Nat /\ c \in Nat /\ c <= e /\ e <= l /\ Len(carry) = l - e
        /\ \A i \in 1 .. Len(carry) : carry[i] = received[e + i]
    BY <2>1, <2>2, KeptIsEnd
  <2>4. NoEnd(received, c, l)
    <3> SUFFICES ASSUME NEW j \in c + 1 .. l
                 PROVE  received[j] # NL
      BY DEF NoEnd
    <3>1. CASE j <= e
      BY <2>2, <2>3, <3>1 DEF Handled, NoEnd
    <3>2. CASE ~ j <= e
      <4>1. j - e \in 1 .. Len(carry) /\ e + (j - e) = j
        BY <2>3, <3>2
      <4> QED
        BY <2>1, <2>3, <4>1 DEF Has
    <3> QED
      BY <3>1, <3>2
  <2>5. Len(dispatched) = Cardinality(Ends(received))
    <3>1. {j \in Ends(received) : j <= c} = Ends(received)
      BY <2>3, <2>4 DEF Ends, NoEnd
    <3> QED
      BY <2>2, <3>1 DEF Handled, Nth
  <2>6. Start(received, l + 1) = c + 1
    <3>1. l + 1 \in Nat /\ c < l + 1 /\ (l + 1) - 1 = l
      BY <2>3
    <3>2. NoEnd(received, c, (l + 1) - 1)
      BY <2>4, <3>1
    <3> QED
      BY <2>1, <2>2, <3>1, <3>2, StartBehind DEF Handled
  <2>7. Message(received, l + 1) = SubSeq(received, c + 1, l)
    <3>1. (l + 1) - 1 = l
      BY <2>3
    <3> QED
      BY <2>6, <3>1 DEF Message
  <2>8. Len(SubSeq(received, c + 1, l)) = l - c
    <3>1. c + 1 \in 1 .. l + 1 /\ l \in (c + 1) - 1 .. l /\ l - (c + 1) + 1 = l - c
      BY <2>3
    <3> QED
      BY <2>1, <3>1, Part
  <2>9. l - c < CarrySize => e = c
    BY <2>2, <2>3, SizesAssumption DEF Handled
  <2>10. carry = SubSeq(received, e + 1, l)
    BY <2>2 DEF Handled
  <2> QED
    BY <2>5, <2>7, <2>8, <2>9, <2>10
<1> QED
  BY <1>1, Following, PTL
=============================================================================

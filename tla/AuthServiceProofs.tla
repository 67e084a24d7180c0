-------------------------- MODULE AuthServiceProofs --------------------------
(* Whatever strtok's one position is left at by the calls before it, a call   *)
(* of auth_service_validate that no other overlaps answers what the file      *)
(* says; and no pointer that is not wild leaves its line, however the calls   *)
(* overlap.  For any number of threads, any files, any number of edits.       *)
EXTENDS AuthService, TLAPS

-----------------------------------------------------------------------------
(* The inductive invariant.  Bounded: a pointer that is not wild points into  *)
(* its buffer or to its end.  Stage: how far strtok has come.                 *)

Bounded(p) == p \notin {Wild, None} => p.at <= Len(call[p.of].line) + 1

Stage(t) ==
  /\ Len(call[t].tokens) <= 3
  /\ call[t].pc \in {"scan", "load"} => Len(call[t].tokens) < 3 /\ call[t].line # <<>>
  /\ call[t].pc = "compare" => Len(call[t].tokens) = 3 /\ call[t].line # <<>>
  /\ call[t].pc = "scan" => call[t].ptr # None
  /\ call[t].pc = "load" => save # None
  /\ call[t].pc = "idle" => call[t].line = <<>>

Types ==
  /\ store \in Stores \cup {Missing} /\ edits \in 0 .. MaxEdits
  /\ configured \in BOOLEAN
  /\ call \in [Threads -> Calls]
  /\ save \in Pointers /\ Bounded(save)
  /\ \A t \in Threads : Bounded(call[t].ptr) /\ Stage(t)

\* A call has seen what the file is now.
UpToDate == \A t \in Threads : Active(t) => store \in call[t].seen

Hit(s, r, i) == Len(s[i]) >= 3 /\ s[i][1] = r.user /\ s[i][2] = r.pass

\* The text still to be read is s from after line k on, and no line up to n was
\* the one that is looked for.
Reading(text, r, s, k, n) ==
  /\ Len(text) = Len(s) - k
  /\ \A i \in 1 .. Len(text) : text[i] = s[k + i]
  /\ \A i \in 1 .. n : ~ Hit(s, r, i)

\* The field at which strtok stands after n of them, in the line of t.
Upto(t, n) == IF n < Len(call[t].line) THEN n ELSE Len(call[t].line)

Field(t, i) == IF i <= Len(call[t].line) THEN [of |-> t, at |-> i] ELSE None

\* The tokens are the first fields of the line.
Parsing(t) ==
  LET n == Len(call[t].tokens)
      p == [of |-> t, at |-> Upto(t, n) + 1]
  IN  /\ \A i \in 1 .. n : call[t].tokens[i] = Field(t, i)
      /\ \A a \in call[t].cut : a <= n
      /\ call[t].pc = "scan" => call[t].ptr = p
      /\ call[t].pc = "load" => save = p

Contents(t) == call[t].seen \ {Missing}

\* How far a call is that no other has overlapped.
Progress(t) ==
  /\ call[t].pc = "read" =>
       \E s \in Contents(t) : \E k \in 0 .. Len(s) : Reading(call[t].text, call[t].req, s, k, k)
  /\ call[t].pc \in {"scan", "load", "compare"} =>
       /\ Parsing(t)
       /\ \E s \in Contents(t) : \E k \in 1 .. Len(s) :
            /\ Reading(call[t].text, call[t].req, s, k, k - 1)
            /\ call[t].line = s[k]
  /\ call[t].pc = "done" => Right(t)

Undisturbed ==
  \A t \in Threads : Active(t) /\ call[t].alone =>
    Progress(t) /\ \A u \in Threads \ {t} : ~ Active(u)

Inv == Types /\ UpToDate /\ Undisturbed

-----------------------------------------------------------------------------
(* Lines, pointers and calls                                                  *)

\* A file is a sequence of lines, a line a sequence of fields.
LEMMA FileLines ==
  /\ Stores \subseteq Seq(Lines)
  /\ Lines \subseteq Seq(Fields)
<1>1. ASSUME NEW s \in Stores PROVE s \in Seq(Lines) /\ \A i \in 1 .. Len(s) : s[i] \in Seq(Fields)
  <2>1. s \in Seq(Seq(Fields))
    BY StoresAssumption
  <2>2. \A i \in 1 .. Len(s) : s[i] \in Lines /\ s[i] \in Seq(Fields)
    BY <2>1 DEF Lines
  <2>3. s = [i \in 1 .. Len(s) |-> s[i]] /\ Len(s) \in Nat
    BY <2>1
  <2>4. [i \in 1 .. Len(s) |-> s[i]] \in Seq(Lines)
    <3> DEFINE n == Len(s)
               f == [i \in 1 .. n |-> s[i]]
    <3>1. n \in Nat /\ \A i \in 1 .. n : s[i] \in Lines
      BY <2>2, <2>3
    <3> HIDE DEF n
    <3>2. f \in [1 .. n -> Lines]
      BY <3>1
    <3> QED
      BY <3>1, <3>2 DEF n
  <2> QED
    BY <2>2, <2>3, <2>4, Zenon
<1>2. ASSUME NEW l \in Lines PROVE l \in Seq(Fields)
  <2>1. PICK s \in Stores : l \in {s[i] : i \in 1 .. Len(s)}
    BY DEF Lines
  <2> QED
    BY <1>1, <2>1
<1> QED
  BY <1>1, <1>2

\* Lines have a length; the empty line of a call that reads none has it too.
LEMMA LineLength ==
  ASSUME NEW l \in Lines \cup {<<>>}
  PROVE  Len(l) \in Nat /\ \A i \in 1 .. Len(l) : l[i] \in Fields
<1>1. CASE l \in Lines
  <2>1. l \in Seq(Fields)
    BY <1>1, FileLines
  <2> QED
    BY <2>1
<1>2. CASE l = <<>>
  BY <1>2
<1> QED
  BY <1>1, <1>2

\* A pointer that is overwritten is wild or stays.
LEMMA OverwrittenIs ==
  ASSUME NEW t \in Threads, NEW p \in Pointers
  PROVE  /\ Overwritten(t, p) \in Pointers
         /\ Overwritten(t, p) = None <=> p = None
         /\ Overwritten(t, p) \notin {Wild, None} => Overwritten(t, p) = p /\ p.of # t
  BY PointersAssumption DEF Overwritten, Pointers

\* A thread outside validate.
LEMMA NoCallIs == NoCall \in Calls
<1>1. <<>> \in Seq(Lines) /\ <<>> \in Seq(Pointers)
  OBVIOUS
<1> QED
  BY <1>1 DEF NoCall, Calls, Pointers, Roles

-----------------------------------------------------------------------------
(* What the steps do                                                          *)

\* What t's steps leave alone of a call.
Same(u) ==
  /\ call'[u].req = call[u].req /\ call'[u].seen = call[u].seen
  /\ call'[u].alone = call[u].alone /\ call'[u].line = call[u].line

\* The calls that a step is not about, of which pointers may become wild.
Kept(u) ==
  /\ Same(u) /\ call'[u].pc = call[u].pc /\ Len(call'[u].tokens) = Len(call[u].tokens)
  /\ call'[u].ptr = None <=> call[u].ptr = None
  /\ call'[u].ptr \notin {Wild, None} => call'[u].ptr = call[u].ptr

Own(t) ==
  /\ call' \in [Threads -> Calls] /\ \A u \in Threads \ {t} : Kept(u)
  /\ UNCHANGED <<store, edits, configured>>

\* A step that changes t's call only.
LEMMA Replaced ==
  ASSUME call \in [Threads -> Calls], NEW t \in Threads, NEW v \in Calls,
         call' = [call EXCEPT ![t] = v], UNCHANGED <<store, edits, configured>>
  PROVE  Own(t) /\ call'[t] = v
<1>1. call' \in [Threads -> Calls] /\ call'[t] = v /\ \A u \in Threads \ {t} : call'[u] = call[u]
  OBVIOUS
<1> QED
  BY <1>1 DEF Own, Kept, Same

\* No other call points into t's buffer.
Freed(t) ==
  \A u \in Threads \ {t} : call'[u].ptr \notin {Wild, None} => call'[u].ptr.of # t

\* Overwriting t's buffer changes t's call and where the pointers into it point.
LEMMA OverwriteIs ==
  ASSUME call \in [Threads -> Calls], NEW t \in Threads, NEW v \in Calls, Overwrite(t, v),
         UNCHANGED <<store, edits, configured>>
  PROVE  Own(t) /\ Freed(t) /\ call'[t] = v /\ save' = Overwritten(t, save)
<1>1. save' = Overwritten(t, save) /\ call'[t] = v
  BY DEF Overwrite
<1>2. ASSUME NEW u \in Threads, u # t
      PROVE  /\ call'[u] \in Calls /\ Kept(u)
             /\ call'[u].ptr \notin {Wild, None} => call'[u].ptr.of # t
  <2> DEFINE ptr == Overwritten(t, call[u].ptr)
             tokens == [i \in DOMAIN call[u].tokens |-> Overwritten(t, call[u].tokens[i])]
             w == [call[u] EXCEPT !.ptr = ptr, !.tokens = tokens]
  <2>1. call[u] \in Calls /\ call[u].ptr \in Pointers /\ call[u].tokens \in Seq(Pointers)
    BY DEF Calls
  <2>2. call'[u] = w
    BY <1>2 DEF Overwrite
  <2>3. tokens \in Seq(Pointers) /\ Len(tokens) = Len(call[u].tokens)
    <3> DEFINE s == call[u].tokens
    <3>1. s \in Seq(Pointers) /\ DOMAIN s = 1 .. Len(s) /\ Len(s) \in Nat
      BY <2>1
    <3> HIDE DEF s
    <3>2. \A i \in 1 .. Len(s) : Overwritten(t, s[i]) \in Pointers
      BY <3>1, OverwrittenIs
    <3>3. [i \in 1 .. Len(s) |-> Overwritten(t, s[i])] \in Seq(Pointers)
      BY <3>1, <3>2
    <3>4. Len([i \in 1 .. Len(s) |-> Overwritten(t, s[i])]) = Len(s)
      BY <3>1
    <3> QED
      BY <3>1, <3>3, <3>4 DEF s
  <2>4. /\ ptr \in Pointers /\ (ptr = None <=> call[u].ptr = None)
        /\ ptr \notin {Wild, None} => ptr = call[u].ptr /\ ptr.of # t
    BY <2>1, OverwrittenIs
  <2> HIDE DEF ptr, tokens
  <2>5. /\ w \in Calls /\ w.ptr = ptr /\ w.tokens = tokens /\ w.req = call[u].req
        /\ w.seen = call[u].seen /\ w.alone = call[u].alone /\ w.line = call[u].line
        /\ w.pc = call[u].pc
    BY <2>1, <2>3, <2>4 DEF Calls
  <2> HIDE DEF w
  <2> QED
    BY <2>2, <2>3, <2>4, <2>5 DEF Kept, Same
<1>3. call' \in [Threads -> Calls]
  <2>1. DOMAIN call' = Threads /\ call' = [u \in Threads |-> call'[u]]
    BY DEF Overwrite
  <2> QED
    BY <1>1, <1>2, <2>1
<1> QED
  BY <1>1, <1>2, <1>3 DEF Own, Freed

\* fopen gives the whole file, or the call is at its end.
LEMMA OpenIs ==
  ASSUME Types, NEW t \in Threads, Open(t)
  PROVE  /\ Own(t) /\ Same(t) /\ save' = save /\ call[t].pc = "open"
         /\ call'[t].ptr = call[t].ptr /\ call'[t].tokens = call[t].tokens
         /\ \/ /\ store \in Stores
               /\ call'[t].pc = "read" /\ call'[t].text = store
            \/ /\ ~ configured \/ store = Missing
               /\ call'[t].pc = "done" /\ call'[t].verdict = "NONE"
<1>1. call \in [Threads -> Calls] /\ call[t] \in Calls /\ call[t].pc = "open"
      /\ save' = save /\ UNCHANGED <<store, edits, configured>>
  BY DEF Types, Open, file
<1>2. CASE configured /\ store # Missing
  <2> DEFINE v == [call[t] EXCEPT !.pc = "read", !.text = store]
  <2>1. store \in Stores /\ store \in Seq(Lines)
    BY <1>2, FileLines DEF Types
  <2>2. /\ v \in Calls /\ v.pc = "read" /\ v.text = store /\ v.ptr = call[t].ptr
        /\ v.tokens = call[t].tokens /\ v.req = call[t].req /\ v.seen = call[t].seen
        /\ v.alone = call[t].alone /\ v.line = call[t].line
    BY <1>1, <2>1 DEF Calls
  <2>3. call' = [call EXCEPT ![t] = v]
    BY <1>1, <1>2 DEF Open
  <2> HIDE DEF v
  <2>4. Own(t) /\ call'[t] = v
    BY <1>1, <2>2, <2>3, Replaced
  <2> QED
    BY <1>1, <2>1, <2>2, <2>4 DEF Same
<1>3. CASE ~ (configured /\ store # Missing)
  <2> DEFINE v == [call[t] EXCEPT !.pc = "done", !.verdict = "NONE"]
  <2>1. /\ v \in Calls /\ v.pc = "done" /\ v.verdict = "NONE" /\ v.ptr = call[t].ptr
        /\ v.tokens = call[t].tokens /\ v.req = call[t].req /\ v.seen = call[t].seen
        /\ v.alone = call[t].alone /\ v.line = call[t].line
    BY <1>1 DEF Calls, Roles
  <2>2. call' = [call EXCEPT ![t] = v]
    BY <1>1, <1>3 DEF Open
  <2> HIDE DEF v
  <2>3. Own(t) /\ call'[t] = v
    BY <1>1, <2>1, <2>2, Replaced
  <2>4. ~ configured \/ store = Missing
    BY <1>3
  <2> QED
    BY <1>1, <2>1, <2>3, <2>4 DEF Same
<1> QED
  BY <1>2, <1>3

\* The end of the file, or the next line with strtok at its beginning.
LEMMA ReadIs ==
  ASSUME Types, NEW t \in Threads, ReadLine(t)
  PROVE  /\ Own(t) /\ call[t].pc = "read" /\ call'[t].req = call[t].req
         /\ call'[t].seen = call[t].seen /\ call'[t].alone = call[t].alone
         /\ \/ /\ call[t].text = <<>> /\ save' = save /\ Same(t)
               /\ call'[t].pc = "done" /\ call'[t].verdict = "NONE"
               /\ call'[t].ptr = call[t].ptr /\ call'[t].tokens = call[t].tokens
            \/ /\ call[t].text # <<>> /\ save' = Overwritten(t, save) /\ Freed(t)
               /\ call'[t].text = Tail(call[t].text) /\ call'[t].line = call[t].text[1]
               /\ call'[t].cut = {} /\ call'[t].tokens = <<>>
               /\ \/ /\ call'[t].line = <<>> /\ call'[t].pc = "read" /\ call'[t].ptr = None
                  \/ /\ call'[t].line # <<>> /\ call'[t].pc = "scan"
                     /\ call'[t].ptr = [of |-> t, at |-> 1]
<1>1. call \in [Threads -> Calls] /\ call[t] \in Calls /\ call[t].pc = "read"
      /\ UNCHANGED <<store, edits, configured>> /\ call[t].text \in Seq(Lines)
  BY DEF Types, Calls, ReadLine, file
<1>2. CASE call[t].text = <<>>
  <2> DEFINE v == [call[t] EXCEPT !.pc = "done", !.verdict = "NONE"]
  <2>1. /\ v \in Calls /\ v.pc = "done" /\ v.verdict = "NONE" /\ v.ptr = call[t].ptr
        /\ v.tokens = call[t].tokens /\ v.req = call[t].req /\ v.seen = call[t].seen
        /\ v.alone = call[t].alone /\ v.line = call[t].line
    BY <1>1 DEF Calls, Roles
  <2>2. call' = [call EXCEPT ![t] = v] /\ save' = save
    BY <1>1, <1>2 DEF ReadLine
  <2> HIDE DEF v
  <2>3. Own(t) /\ call'[t] = v
    BY <1>1, <2>1, <2>2, Replaced
  <2> QED
    BY <1>1, <1>2, <2>1, <2>2, <2>3 DEF Same
<1>3. CASE call[t].text # <<>>
  <2> DEFINE line == Head(call[t].text)
             rest == Tail(call[t].text)
             pc == IF line = <<>> THEN "read" ELSE "scan"
             ptr == IF line = <<>> THEN None ELSE [of |-> t, at |-> 1]
             none == <<>>
             v == [call[t] EXCEPT !.text = rest, !.line = line, !.cut = {}, !.tokens = none,
                                  !.pc = pc, !.ptr = ptr]
  <2>1. line = call[t].text[1] /\ line \in Lines /\ rest \in Seq(Lines)
    BY <1>1, <1>3
  <2>2. Overwrite(t, v)
    BY <1>1, <1>3 DEF ReadLine
  <2>3. ptr \in Pointers /\ pc \in {"read", "scan"} /\ none \in Seq(Pointers)
    BY DEF Pointers, Places
  <2> HIDE DEF line, rest, pc, ptr, none
  <2>4. /\ v \in Calls /\ v.pc = pc /\ v.text = rest /\ v.line = line /\ v.cut = {}
        /\ v.tokens = none /\ v.ptr = ptr /\ v.req = call[t].req /\ v.seen = call[t].seen
        /\ v.alone = call[t].alone
    BY <1>1, <2>1, <2>3 DEF Calls
  <2> HIDE DEF v
  <2>5. Own(t) /\ Freed(t) /\ call'[t] = v /\ save' = Overwritten(t, save)
    BY <1>1, <2>2, <2>4, OverwriteIs
  <2> QED
    BY <1>1, <1>3, <2>1, <2>4, <2>5 DEF rest, pc, ptr, none
<1> QED
  BY <1>2, <1>3

\* strtok reads its static position.
LEMMA LoadIs ==
  ASSUME Types, NEW t \in Threads, LoadSave(t)
  PROVE  /\ Own(t) /\ Same(t) /\ save' = save /\ call[t].pc = "load" /\ call'[t].pc = "scan"
         /\ call'[t].ptr = save /\ call'[t].tokens = call[t].tokens
         /\ call'[t].text = call[t].text /\ call'[t].cut = call[t].cut
<1> DEFINE v == [call[t] EXCEPT !.pc = "scan", !.ptr = save]
<1>1. call \in [Threads -> Calls] /\ call[t] \in Calls /\ call[t].pc = "load"
      /\ save' = save /\ UNCHANGED <<store, edits, configured>>
  BY DEF Types, LoadSave, file
<1>2. call' = [call EXCEPT ![t] = v]
  BY <1>1 DEF LoadSave
<1>3. /\ v \in Calls /\ v.pc = "scan" /\ v.ptr = save /\ v.tokens = call[t].tokens
      /\ v.text = call[t].text /\ v.cut = call[t].cut /\ v.req = call[t].req
      /\ v.seen = call[t].seen /\ v.alone = call[t].alone /\ v.line = call[t].line
  BY <1>1 DEF Types, Calls
<1> HIDE DEF v
<1>4. Own(t) /\ call'[t] = v
  BY <1>1, <1>2, <1>3, Replaced
<1> QED
  BY <1>1, <1>3, <1>4 DEF Same

\* A scan takes the field it finds and moves strtok's position behind it, or finds
\* the end of the string.
LEMMA ScanIs ==
  ASSUME Types, NEW t \in Threads, Scan(t)
  PROVE  /\ Own(t) /\ Same(t) /\ call[t].pc = "scan" /\ call'[t].text = call[t].text
         /\ call'[t].ptr = None /\ call[t].ptr # None
         /\ call'[t].pc = IF Len(call[t].tokens) = 2 THEN "compare" ELSE "load"
         /\ \/ /\ call[t].ptr \in Places /\ call[t].ptr.at <= Len(call[call[t].ptr.of].line)
               /\ save' = After(call[t].ptr)
               /\ call'[t].tokens = Append(call[t].tokens, call[t].ptr)
               /\ call[t].ptr.of = t => call'[t].cut = call[t].cut \cup {call[t].ptr.at}
            \/ /\ save' = call[t].ptr /\ call'[t].cut = call[t].cut
               /\ \E x \in {Wild, None} :
                    /\ call'[t].tokens = Append(call[t].tokens, x)
                    /\ call[t].ptr # Wild =>
                         x = None /\ call[t].ptr.at > Len(call[call[t].ptr.of].line)
<1> DEFINE p == call[t].ptr
           pc == IF Len(call[t].tokens) = 3 - 1 THEN "compare" ELSE "load"
           parsed == [call EXCEPT ![t].ptr = None, ![t].pc = pc]
<1>1. /\ call \in [Threads -> Calls] /\ call[t] \in Calls /\ call[t].pc = "scan"
      /\ UNCHANGED <<store, edits, configured>> /\ p # None /\ p \in Pointers
      /\ call[t].tokens \in Seq(Pointers) /\ call[t].cut \in SUBSET (Nat \ {0})
  BY DEF Types, Calls, Scan, ScanUntil, Stage, file
<1>2. PICK token \in Tokens(p) :
        IF token = p /\ p # Wild
        THEN /\ save' = After(p)
             /\ call' = [parsed EXCEPT ![t].tokens = Append(@, token),
                                       ![p.of].cut = @ \cup {p.at}]
        ELSE /\ save' = p
             /\ call' = [parsed EXCEPT ![t].tokens = Append(@, token)]
  BY DEF Scan, ScanUntil
<1> HIDE DEF pc
<1>3. pc \in {"compare", "load"} /\ pc = IF Len(call[t].tokens) = 2 THEN "compare" ELSE "load"
  BY DEF pc
<1>4. \/ p = Wild /\ token \in {Wild, None}
      \/ p # Wild /\ p \in Places /\ p.at > Len(call[p.of].line) /\ token = None
      \/ p # Wild /\ p \in Places /\ ~ p.at > Len(call[p.of].line) /\ token = p
  BY <1>1, <1>2 DEF Tokens, Pointers
<1>5. CASE p # Wild /\ p \in Places /\ ~ p.at > Len(call[p.of].line) /\ token = p
  <2> DEFINE q == p.of
             k == p.at
             tokens == Append(call[t].tokens, p)
             v == [call[t] EXCEPT !.ptr = None, !.pc = pc, !.tokens = tokens]
             cut == call[q].cut \cup {k}
  <2>1. q \in Threads /\ k \in Nat \ {0} /\ call[q] \in Calls /\ Len(call[q].line) \in Nat
    <3>1. q \in Threads /\ k \in Nat \ {0}
      BY <1>5 DEF Places
    <3>2. call[q] \in Calls /\ call[q].line \in Lines \cup {<<>>}
      BY <1>1, <3>1 DEF Calls
    <3> QED
      BY <3>1, <3>2, LineLength
  <2>2. tokens \in Seq(Pointers) /\ cut \in SUBSET (Nat \ {0})
    BY <1>1, <1>5, <2>1 DEF Calls
  <2>3. call' = [parsed EXCEPT ![t].tokens = Append(@, p), ![q].cut = @ \cup {k}]
        /\ save' = After(p)
    BY <1>2, <1>5
  <2> HIDE DEF p, q, k
  <2>4. /\ v \in Calls /\ v.pc = pc /\ v.ptr = None /\ v.tokens = tokens
        /\ v.text = call[t].text /\ v.cut = call[t].cut /\ v.req = call[t].req
        /\ v.seen = call[t].seen /\ v.alone = call[t].alone /\ v.line = call[t].line
    <3> HIDE DEF tokens
    <3> QED
      BY <1>1, <1>3, <2>2 DEF Calls, Pointers
  <2>5. [parsed EXCEPT ![t].tokens = Append(@, p)] = [call EXCEPT ![t] = v]
    BY <1>1 DEF Calls
  <2>6. call' = [[call EXCEPT ![t] = v] EXCEPT ![q].cut = @ \cup {k}]
    <3> DEFINE base == [parsed EXCEPT ![t].tokens = Append(@, p)]
    <3> HIDE DEF parsed, tokens, v, cut
    <3>1. call' = [base EXCEPT ![q].cut = @ \cup {k}]
      BY <2>3, ZenonT(60)
    <3> HIDE DEF base
    <3>2. base = [call EXCEPT ![t] = v]
      BY <2>5, Zenon DEF base
    <3> QED
      BY <3>1, <3>2, Zenon
  <2> HIDE DEF v, tokens, parsed
  <2>7. ASSUME q = t
        PROVE  /\ Own(t) /\ Same(t) /\ call'[t].text = call[t].text /\ call'[t].ptr = None
               /\ call'[t].pc = pc /\ call'[t].tokens = tokens
               /\ q = t => call'[t].cut = call[t].cut \cup {k}
    <3> DEFINE w == [v EXCEPT !.cut = cut]
    <3>1. call' = [call EXCEPT ![t] = w]
      BY <1>1, <2>4, <2>6, <2>7
    <3>2. /\ w \in Calls /\ w.pc = pc /\ w.ptr = None /\ w.tokens = tokens
          /\ w.text = call[t].text /\ w.cut = cut /\ w.req = call[t].req
          /\ w.seen = call[t].seen /\ w.alone = call[t].alone /\ w.line = call[t].line
      <4> HIDE DEF cut
      <4> QED
        BY <2>2, <2>4 DEF Calls
    <3> HIDE DEF w
    <3>3. Own(t) /\ call'[t] = w
      BY <1>1, <3>1, <3>2, Replaced
    <3>4. /\ Same(t) /\ call'[t].text = call[t].text /\ call'[t].ptr = None
          /\ call'[t].cut = call[t].cut \cup {k} /\ call'[t].pc = pc
          /\ call'[t].tokens = tokens
      BY <2>7, <3>2, <3>3 DEF Same, cut
    <3> QED
      BY <3>3, <3>4
  <2>8. ASSUME q # t
        PROVE  /\ Own(t) /\ Same(t) /\ call'[t].text = call[t].text /\ call'[t].ptr = None
               /\ call'[t].pc = pc /\ call'[t].tokens = tokens
               /\ q = t => call'[t].cut = call[t].cut \cup {k}
    <3> DEFINE w == [call[q] EXCEPT !.cut = cut]
    <3>1. call' = [call EXCEPT ![t] = v, ![q] = w]
      BY <1>1, <2>1, <2>6, <2>8
    <3>2. /\ w \in Calls /\ w.pc = call[q].pc /\ w.ptr = call[q].ptr
          /\ w.tokens = call[q].tokens /\ w.req = call[q].req
          /\ w.seen = call[q].seen /\ w.alone = call[q].alone /\ w.line = call[q].line
      <4> HIDE DEF cut
      <4> QED
        BY <2>1, <2>2 DEF Calls
    <3> HIDE DEF w
    <3>3. /\ call' \in [Threads -> Calls] /\ call'[t] = v /\ call'[q] = w
          /\ \A u \in Threads \ {t, q} : call'[u] = call[u]
      BY <1>1, <2>1, <2>4, <2>8, <3>1, <3>2
    <3>4. Own(t)
      BY <1>1, <3>2, <3>3 DEF Own, Kept, Same
    <3>5. /\ Same(t) /\ call'[t].text = call[t].text /\ call'[t].ptr = None
          /\ call'[t].pc = pc /\ call'[t].tokens = tokens
      BY <2>4, <3>3 DEF Same
    <3> QED
      BY <2>8, <3>4, <3>5
  <2>9. /\ Own(t) /\ Same(t) /\ call'[t].text = call[t].text /\ call'[t].ptr = None
        /\ call'[t].pc = pc /\ call'[t].tokens = tokens
        /\ q = t => call'[t].cut = call[t].cut \cup {k}
    BY <2>7, <2>8
  <2>10. k <= Len(call[q].line)
    BY <1>5, <2>1 DEF k, q
  <2> HIDE DEF v
  <2> QED
    BY <1>1, <1>3, <1>5, <2>3, <2>9, <2>10 DEF p, q, k, tokens
<1>6. CASE token # p \/ p = Wild
  <2> DEFINE tokens == Append(call[t].tokens, token)
             v == [call[t] EXCEPT !.ptr = None, !.pc = pc, !.tokens = tokens]
  <2>1. token \in {Wild, None}
    BY <1>4, <1>6
  <2>2. tokens \in Seq(Pointers) /\ None \in Pointers
    BY <1>1, <2>1 DEF Pointers
  <2>3. call' = [parsed EXCEPT ![t].tokens = Append(@, token)] /\ save' = p
    BY <1>2, <1>6
  <2>4. call' = [call EXCEPT ![t] = v]
    BY <1>1, <2>3 DEF Calls
  <2>5. /\ v \in Calls /\ v.pc = pc /\ v.ptr = None /\ v.tokens = tokens
        /\ v.text = call[t].text /\ v.cut = call[t].cut /\ v.req = call[t].req
        /\ v.seen = call[t].seen /\ v.alone = call[t].alone /\ v.line = call[t].line
    <3> HIDE DEF tokens
    <3> QED
      BY <1>1, <1>3, <2>2 DEF Calls
  <2> HIDE DEF v, tokens, parsed
  <2>6. Own(t) /\ call'[t] = v
    BY <1>1, <2>4, <2>5, Replaced
  <2>7. p # Wild => token = None /\ p.at > Len(call[p.of].line)
    BY <1>4, <1>6
  <2> HIDE DEF p
  <2>8. /\ Same(t) /\ call'[t].text = call[t].text /\ call'[t].ptr = None
        /\ call'[t].cut = call[t].cut /\ call'[t].pc = pc /\ call'[t].tokens = tokens
    BY <2>5, <2>6 DEF Same
  <2> QED
    BY <1>1, <1>3, <2>1, <2>3, <2>6, <2>7, <2>8 DEF p, tokens
<1>7. \/ p # Wild /\ p \in Places /\ ~ p.at > Len(call[p.of].line) /\ token = p
      \/ token # p \/ p = Wild
  BY <1>1, <1>4
<1> QED
  BY <1>5, <1>6, <1>7, Zenon

\* The three tokens are compared, where they point.
LEMMA CompareIs ==
  ASSUME Types, NEW t \in Threads, Compare(t)
  PROVE  /\ Own(t) /\ Same(t) /\ save' = save /\ call[t].pc = "compare"
         /\ call'[t].ptr = call[t].ptr /\ call'[t].tokens = call[t].tokens
         /\ call'[t].text = call[t].text
         /\ \/ call'[t].pc = "read" /\ \E i \in 1 .. 3 : call[t].tokens[i] = None
            \/ /\ ~ \E i \in 1 .. 3 : call[t].tokens[i] = None
               /\ \E user \in Content(call[t].tokens[1]), pass \in Content(call[t].tokens[2]),
                     role \in Content(call[t].tokens[3]) :
                    \/ /\ call'[t].pc = "read"
                       /\ ~ (user = call[t].req.user /\ pass = call[t].req.pass)
                    \/ /\ call'[t].pc = "done" /\ call'[t].verdict = RoleOf(role)
                       /\ user = call[t].req.user /\ pass = call[t].req.pass
<1>1. /\ call \in [Threads -> Calls] /\ call[t] \in Calls /\ call[t].pc = "compare"
      /\ UNCHANGED <<store, edits, configured>> /\ save' = save
  BY DEF Types, Compare, file
<1>2. ASSUME call' = [call EXCEPT ![t].pc = "read"]
      PROVE  /\ Own(t) /\ Same(t) /\ call'[t].ptr = call[t].ptr /\ call'[t].text = call[t].text
             /\ call'[t].tokens = call[t].tokens /\ call'[t].pc = "read"
  <2> DEFINE v == [call[t] EXCEPT !.pc = "read"]
  <2>1. call' = [call EXCEPT ![t] = v]
    BY <1>1, <1>2
  <2>2. /\ v \in Calls /\ v.pc = "read" /\ v.ptr = call[t].ptr /\ v.tokens = call[t].tokens
        /\ v.text = call[t].text /\ v.req = call[t].req
        /\ v.seen = call[t].seen /\ v.alone = call[t].alone /\ v.line = call[t].line
    BY <1>1 DEF Calls
  <2> HIDE DEF v
  <2>3. Own(t) /\ call'[t] = v
    BY <1>1, <2>1, <2>2, Replaced
  <2> QED
    BY <2>2, <2>3 DEF Same
<1>3. CASE \E i \in 1 .. 3 : call[t].tokens[i] = None
  <2>1. call' = [call EXCEPT ![t].pc = "read"]
    BY <1>3 DEF Compare
  <2> QED
    BY <1>1, <1>2, <1>3, <2>1
<1>4. CASE ~ \E i \in 1 .. 3 : call[t].tokens[i] = None
  <2>1. PICK user \in Content(call[t].tokens[1]), pass \in Content(call[t].tokens[2]),
             role \in Content(call[t].tokens[3]) :
          call' = IF user = call[t].req.user /\ pass = call[t].req.pass
                  THEN [call EXCEPT ![t].pc = "done", ![t].verdict = RoleOf(role)]
                  ELSE [call EXCEPT ![t].pc = "read"]
    BY <1>4 DEF Compare
  <2>2. CASE ~ (user = call[t].req.user /\ pass = call[t].req.pass)
    <3>1. call' = [call EXCEPT ![t].pc = "read"]
      BY <2>1, <2>2
    <3> QED
      BY <1>1, <1>2, <1>4, <2>2, <3>1
  <2>3. CASE user = call[t].req.user /\ pass = call[t].req.pass
    <3> DEFINE verdict == RoleOf(role)
               v == [call[t] EXCEPT !.pc = "done", !.verdict = verdict]
    <3>1. call' = [call EXCEPT ![t] = v]
      BY <1>1, <2>1, <2>3
    <3>2. verdict \in Roles
      BY DEF RoleOf, Roles
    <3> HIDE DEF verdict
    <3>3. /\ v \in Calls /\ v.pc = "done" /\ v.ptr = call[t].ptr /\ v.tokens = call[t].tokens
          /\ v.text = call[t].text /\ v.req = call[t].req /\ v.verdict = verdict
          /\ v.seen = call[t].seen /\ v.alone = call[t].alone /\ v.line = call[t].line
      BY <1>1, <3>2 DEF Calls
    <3> HIDE DEF v
    <3>4. Own(t) /\ call'[t] = v
      BY <1>1, <3>1, <3>3, Replaced
    <3>5. /\ Own(t) /\ Same(t) /\ call'[t].ptr = call[t].ptr /\ call'[t].text = call[t].text
          /\ call'[t].tokens = call[t].tokens /\ call'[t].pc = "done"
          /\ call'[t].verdict = RoleOf(role)
      BY <3>3, <3>4 DEF Same, verdict
    <3> QED
      BY <1>1, <1>4, <2>3, <3>5
  <2> QED
    BY <2>2, <2>3
<1> QED
  BY <1>3, <1>4

\* The call is over, and nothing points into its buffer.
LEMMA ReturnIs ==
  ASSUME Types, NEW t \in Threads, Return(t)
  PROVE  /\ Own(t) /\ Freed(t) /\ call'[t] = NoCall /\ save' = Overwritten(t, save)
<1>1. call \in [Threads -> Calls] /\ UNCHANGED <<store, edits, configured>>
  BY DEF Types, Return, file
<1> QED
  BY <1>1, NoCallIs, OverwriteIs DEF Return

\* A new call ends the solitude of the others.
LEMMA CallIs ==
  ASSUME Types, NEW t \in Threads, NEW r \in Requests, Call(t, r)
  PROVE  /\ call' \in [Threads -> Calls] /\ UNCHANGED <<store, edits, configured, save>>
         /\ call[t].pc = "idle" /\ call'[t].pc = "open" /\ call'[t].seen = {store}
         /\ call'[t].line = <<>> /\ call'[t].tokens = <<>> /\ call'[t].ptr = None
         /\ call'[t].alone = (\A u \in Threads : ~ Active(u))
         /\ \A u \in Threads \ {t} :
              /\ call'[u].pc = call[u].pc /\ call'[u].ptr = call[u].ptr
              /\ call'[u].tokens = call[u].tokens /\ call'[u].line = call[u].line
              /\ call'[u].seen = call[u].seen
              /\ call'[u].alone = (call[u].alone /\ ~ Active(u))
<1> DEFINE alone == \A u \in Threads : ~ Active(u)
           now == {store}
           v == [NoCall EXCEPT !.pc = "open", !.req = r, !.alone = alone, !.seen = now]
           w(u) == [call[u] EXCEPT !.alone = @ /\ ~ Active(u)]
<1>1. /\ call \in [Threads -> Calls] /\ call[t].pc = "idle"
      /\ UNCHANGED <<store, edits, configured, save>>
      /\ call' = [u \in Threads |-> IF u = t THEN v ELSE w(u)]
  BY DEF Types, Call, Active, file
<1>2. now \in SUBSET (Stores \cup {Missing}) /\ alone \in BOOLEAN /\ NoCall \in Calls
  BY NoCallIs DEF Types
<1> HIDE DEF alone, now
<1>3. /\ v \in Calls /\ v.pc = "open" /\ v.seen = now /\ v.line = NoCall.line
      /\ v.tokens = NoCall.tokens /\ v.ptr = NoCall.ptr /\ v.alone = alone
  BY <1>2 DEF Calls
<1>4. NoCall.line = <<>> /\ NoCall.tokens = <<>> /\ NoCall.ptr = None
  BY DEF NoCall
<1>5. ASSUME NEW u \in Threads, u # t
      PROVE  /\ w(u) \in Calls /\ w(u).pc = call[u].pc /\ w(u).ptr = call[u].ptr
             /\ w(u).tokens = call[u].tokens /\ w(u).line = call[u].line
             /\ w(u).seen = call[u].seen /\ w(u).alone = (call[u].alone /\ ~ Active(u))
  <2> DEFINE b == call[u].alone /\ ~ Active(u)
  <2>1. call[u] \in Calls /\ b \in BOOLEAN /\ w(u) = [call[u] EXCEPT !.alone = b]
    BY <1>1 DEF Calls
  <2> HIDE DEF b
  <2>2. LET x == [call[u] EXCEPT !.alone = b]
        IN  /\ x \in Calls /\ x.pc = call[u].pc /\ x.ptr = call[u].ptr
            /\ x.tokens = call[u].tokens /\ x.line = call[u].line
            /\ x.seen = call[u].seen /\ x.alone = b
    BY <2>1 DEF Calls
  <2> QED
    BY <2>1, <2>2 DEF b
<1> HIDE DEF v, w
<1>6. call'[t] = v /\ \A u \in Threads \ {t} : call'[u] = w(u)
  BY <1>1
<1>7. call' \in [Threads -> Calls]
  BY <1>1, <1>3, <1>5
<1>8. call'[t].alone = (\A u \in Threads : ~ Active(u)) /\ call'[t].seen = {store}
  BY <1>3, <1>6 DEF alone, now
<1> QED
  BY <1>1, <1>3, <1>4, <1>5, <1>6, <1>7, <1>8

\* An edit of the file is seen by the calls that are under way.
LEMMA ReplaceIs ==
  ASSUME Types, NEW s \in Stores \cup {Missing}, Replace(s)
  PROVE  /\ call' \in [Threads -> Calls] /\ UNCHANGED <<configured, save>>
         /\ store' = s /\ edits' \in 0 .. MaxEdits
         /\ \A t \in Threads :
              /\ call'[t].pc = call[t].pc /\ call'[t].ptr = call[t].ptr
              /\ call'[t].tokens = call[t].tokens /\ call'[t].line = call[t].line
              /\ call'[t].text = call[t].text /\ call'[t].cut = call[t].cut
              /\ call'[t].req = call[t].req /\ call'[t].alone = call[t].alone
              /\ call'[t].verdict = call[t].verdict
              /\ Active(t) => call'[t].seen = call[t].seen \cup {s}
<1> DEFINE w(t) == [call[t] EXCEPT !.seen = @ \cup {s}]
<1>1. /\ call \in [Threads -> Calls] /\ UNCHANGED <<configured, save>>
      /\ store' = s /\ call' = [t \in Threads |-> IF Active(t) THEN w(t) ELSE call[t]]
  BY DEF Types, Replace
<1>2. edits' \in 0 .. MaxEdits
  BY EditsAssumption DEF Types, Replace
<1>3. ASSUME NEW t \in Threads
      PROVE  /\ w(t) \in Calls /\ w(t).pc = call[t].pc /\ w(t).ptr = call[t].ptr
             /\ w(t).tokens = call[t].tokens /\ w(t).line = call[t].line
             /\ w(t).text = call[t].text /\ w(t).cut = call[t].cut
             /\ w(t).req = call[t].req /\ w(t).alone = call[t].alone
             /\ w(t).verdict = call[t].verdict /\ w(t).seen = call[t].seen \cup {s}
  <2> DEFINE b == call[t].seen \cup {s}
  <2>1. call[t] \in Calls /\ b \in SUBSET (Stores \cup {Missing})
        /\ w(t) = [call[t] EXCEPT !.seen = b]
    BY <1>1 DEF Calls
  <2> HIDE DEF b, w
  <2> QED
    BY <2>1 DEF Calls, b
<1> HIDE DEF w
<1>4. \A t \in Threads : call'[t] = IF Active(t) THEN w(t) ELSE call[t]
  BY <1>1
<1>5. call' \in [Threads -> Calls]
  BY <1>1, <1>3
<1> QED
  BY <1>1, <1>2, <1>3, <1>4, <1>5

-----------------------------------------------------------------------------
(* Pointers stay inside their lines *)

\* What Bounded is about after a step.
Within(p) == p \notin {Wild, None} => p.at <= Len(call'[p.of].line) + 1

\* A pointer into a line that stays is still inside it.
LEMMA StillBounded ==
  ASSUME NEW p \in Pointers, Bounded(p),
         \A u \in Threads : p \in Places /\ p.of = u => call'[u].line = call[u].line
  PROVE  Within(p)
<1>1. p \notin {Wild, None} => p \in Places /\ p.of \in Threads
  BY DEF Pointers, Places
<1> QED
  BY <1>1 DEF Bounded, Within

\* What is left to show of a step of t's call: its position, pointer and stage.
LEMMA OwnTypes ==
  ASSUME Types, NEW t \in Threads, Own(t), save' \in Pointers, Within(save'),
         Within(call'[t].ptr), Same(t) \/ Freed(t), save # None => save' # None, Stage(t)'
  PROVE  Types'
<1>1. ASSUME NEW u \in Threads, u # t
      PROVE  Within(call'[u].ptr) /\ Stage(u)'
  <2>1. Kept(u) /\ Bounded(call[u].ptr) /\ Stage(u) /\ call[u].ptr \in Pointers
    BY <1>1 DEF Own, Types, Calls
  <2>2. ASSUME call'[u].ptr \notin {Wild, None}
        PROVE  Within(call'[u].ptr)
    <3>1. call'[u].ptr = call[u].ptr
      BY <2>1, <2>2 DEF Kept
    <3>2. ASSUME NEW x \in Threads, call[u].ptr.of = x
          PROVE  call'[x].line = call[x].line
      <4>1. CASE x = t
        <5>1. ~ Freed(t)
          BY <1>1, <2>2, <3>1, <3>2, <4>1 DEF Freed
        <5> QED
          BY <4>1, <5>1 DEF Same
      <4>2. CASE x # t
        BY <4>2 DEF Own, Kept, Same
      <4> QED
        BY <4>1, <4>2
    <3>3. Within(call[u].ptr)
      BY <2>1, <3>2, StillBounded
    <3> QED
      BY <3>1, <3>3, Zenon
  <2>3. ASSUME call'[u].ptr \in {Wild, None}
        PROVE  Within(call'[u].ptr)
    BY <2>3 DEF Within
  <2>4. Stage(u)'
    BY <2>1 DEF Stage, Kept, Same
  <2> QED
    BY <2>2, <2>3, <2>4
<1>2. /\ store' \in Stores \cup {Missing} /\ edits' \in 0 .. MaxEdits
      /\ configured' \in BOOLEAN /\ call' \in [Threads -> Calls] /\ save' \in Pointers
  BY DEF Own, Types
<1>3. Bounded(save)' /\ \A u \in Threads : Bounded(call[u].ptr)'
  BY <1>1 DEF Bounded, Within
<1>4. \A u \in Threads : Stage(u)'
  BY <1>1
<1> QED
  BY <1>2, <1>3, <1>4 DEF Types

\* With all lines as they were, what points into a line still does.
LEMMA SameBounded ==
  ASSUME Types, NEW t \in Threads, Own(t), Same(t), NEW p \in Pointers, Bounded(p)
  PROVE  Within(p)
<1>1. \A u \in Threads : call'[u].line = call[u].line
  BY DEF Own, Kept, Same
<1> QED
  BY <1>1, StillBounded

\* What has been moved away from t's buffer points into a line that stays.
LEMMA OverwrittenBounded ==
  ASSUME Types, NEW t \in Threads, Own(t), save' = Overwritten(t, save)
  PROVE  save' \in Pointers /\ Within(save') /\ (save # None => save' # None)
<1>1. /\ save \in Pointers /\ Bounded(save) /\ save' \in Pointers /\ (save' = None <=> save = None)
      /\ save' \notin {Wild, None} => save' = save /\ save.of # t
  BY OverwrittenIs DEF Types
<1>2. CASE save' \notin {Wild, None}
  <2>1. \A u \in Threads : save.of = u => call'[u].line = call[u].line
    BY <1>1, <1>2 DEF Own, Kept, Same
  <2>2. Within(save)
    BY <1>1, <2>1, StillBounded
  <2> QED
    BY <1>1, <1>2, <2>2
<1>3. CASE save' \in {Wild, None}
  BY <1>1, <1>3 DEF Within
<1> QED
  BY <1>2, <1>3

\* Every step of validate keeps the types.
LEMMA ValidateTypes ==
  ASSUME Types, NEW t \in Threads, Validate(t)
  PROVE  Types'
<1>1. /\ call \in [Threads -> Calls] /\ call[t] \in Calls /\ save \in Pointers /\ Bounded(save)
      /\ call[t].ptr \in Pointers /\ Bounded(call[t].ptr) /\ Stage(t)
      /\ call[t].tokens \in Seq(Pointers) /\ Len(call[t].tokens) \in Nat
  BY DEF Types, Calls
<1>2. CASE Open(t)
  <2>1. /\ Own(t) /\ Same(t) /\ save' = save /\ call'[t].ptr = call[t].ptr
        /\ call'[t].tokens = call[t].tokens /\ call'[t].pc \in {"read", "done"}
    BY <1>2, OpenIs
  <2>2. Within(save') /\ Within(call'[t].ptr)
    BY <1>1, <2>1, SameBounded
  <2>3. Stage(t)'
    BY <1>1, <2>1 DEF Stage
  <2> QED
    BY <1>1, <2>1, <2>2, <2>3, OwnTypes
<1>3. CASE ReadLine(t)
  <2>1. Own(t)
    BY <1>3, ReadIs
  <2>2. CASE call[t].text = <<>>
    <3>1. /\ Same(t) /\ save' = save /\ call'[t].ptr = call[t].ptr
          /\ call'[t].tokens = call[t].tokens /\ call'[t].pc = "done"
      BY <1>3, <2>2, ReadIs
    <3>2. Within(save') /\ Within(call'[t].ptr)
      BY <1>1, <2>1, <3>1, SameBounded
    <3>3. Stage(t)'
      BY <1>1, <3>1 DEF Stage
    <3> QED
      BY <1>1, <2>1, <3>1, <3>2, <3>3, OwnTypes
  <2>3. CASE call[t].text # <<>>
    <3>1. /\ save' = Overwritten(t, save) /\ Freed(t) /\ call'[t].tokens = <<>>
          /\ \/ call'[t].line = <<>> /\ call'[t].pc = "read" /\ call'[t].ptr = None
             \/ /\ call'[t].line # <<>> /\ call'[t].pc = "scan"
                /\ call'[t].ptr = [of |-> t, at |-> 1]
      BY <1>3, <2>3, ReadIs
    <3>2. save' \in Pointers /\ Within(save') /\ (save # None => save' # None)
      BY <2>1, <3>1, OverwrittenBounded
    <3>3. Len(call'[t].line) \in Nat
      <4>1. call'[t].line \in Lines \cup {<<>>}
        BY <2>1 DEF Own, Calls
      <4> QED
        BY <4>1, LineLength
    <3>4. Within(call'[t].ptr)
      BY <3>1, <3>3 DEF Within
    <3>5. [of |-> t, at |-> 1] # None
      <4>1. [of |-> t, at |-> 1] \in Places
        BY DEF Places
      <4> QED
        BY <4>1, PointersAssumption
    <3>6. Stage(t)'
      BY <3>1, <3>5 DEF Stage
    <3> QED
      BY <2>1, <3>1, <3>2, <3>4, <3>6, OwnTypes
  <2> QED
    BY <2>2, <2>3
<1>4. CASE LoadSave(t)
  <2>1. /\ Own(t) /\ Same(t) /\ save' = save /\ call'[t].ptr = save /\ call[t].pc = "load"
        /\ call'[t].tokens = call[t].tokens /\ call'[t].pc = "scan"
    BY <1>4, LoadIs
  <2>2. Within(save') /\ Within(call'[t].ptr)
    BY <1>1, <2>1, SameBounded
  <2>3. Stage(t)'
    BY <1>1, <2>1 DEF Stage, Same
  <2> QED
    BY <1>1, <2>1, <2>2, <2>3, OwnTypes
<1>5. CASE Scan(t)
  <2> DEFINE p == call[t].ptr
  <2>1. /\ Own(t) /\ Same(t) /\ call[t].pc = "scan" /\ call'[t].ptr = None /\ p # None
        /\ call'[t].pc = IF Len(call[t].tokens) = 2 THEN "compare" ELSE "load"
        /\ \E x \in Pointers : call'[t].tokens = Append(call[t].tokens, x)
        /\ \/ p \in Places /\ p.at <= Len(call[p.of].line) /\ save' = After(p)
           \/ save' = p
    BY <1>1, <1>5, ScanIs DEF Pointers
  <2>2. save' \in Pointers /\ Within(save') /\ save' # None
    <3>1. CASE save' = p
      BY <1>1, <2>1, <3>1, SameBounded
    <3>2. CASE p \in Places /\ p.at <= Len(call[p.of].line) /\ save' = After(p)
      <4>1. p.of \in Threads /\ p.at \in Nat \ {0}
        BY <3>2 DEF Places
      <4>2. Len(call[p.of].line) \in Nat
        <5>1. call[p.of].line \in Lines \cup {<<>>}
          BY <1>1, <4>1 DEF Calls
        <5> QED
          BY <5>1, LineLength
      <4> DEFINE n == IF p.at \in call[p.of].cut THEN Len(call[p.of].line) + 1 ELSE p.at + 1
      <4>3. save' = [p EXCEPT !.at = n]
        BY <3>2 DEF After
      <4>4. n \in Nat \ {0} /\ n <= Len(call[p.of].line) + 1
        <5> DEFINE end == Len(call[p.of].line)
                   cut == call[p.of].cut
                   at == p.at
        <5>1. end \in Nat /\ at \in Nat /\ at <= end
          BY <3>2, <4>1, <4>2
        <5>2. n = IF at \in cut THEN end + 1 ELSE at + 1
          OBVIOUS
        <5> HIDE DEF n, end, cut, at
        <5>3. n \in Nat \ {0} /\ n <= end + 1
          BY <5>1, <5>2
        <5> QED
          BY <5>3 DEF end
      <4> HIDE DEF n
      <4>5. save' \in Places /\ save'.of = p.of /\ save'.at = n
        BY <3>2, <4>3, <4>4 DEF Places
      <4>6. call'[p.of].line = call[p.of].line
        BY <2>1, <4>1 DEF Own, Kept, Same
      <4>7. save' # None /\ save' \in Pointers
        BY <4>5, PointersAssumption DEF Pointers
      <4> QED
        BY <4>4, <4>5, <4>6, <4>7 DEF Within
    <3> QED
      BY <2>1, <3>1, <3>2
  <2>3. Len(call'[t].tokens) = Len(call[t].tokens) + 1
    BY <1>1, <2>1
  <2>4. Stage(t)'
    <3>1. /\ Len(call[t].tokens) \in Nat /\ Len(call[t].tokens) < 3 /\ call[t].line # <<>>
          /\ call'[t].line = call[t].line
      BY <1>1, <2>1 DEF Stage, Same
    <3>2. call'[t].pc = IF Len(call[t].tokens) = 2 THEN "compare" ELSE "load"
      BY <2>1
    <3> HIDE DEF p
    <3>3. \/ call'[t].pc = "compare" /\ Len(call'[t].tokens) = 3
          \/ /\ call'[t].pc = "load" /\ Len(call'[t].tokens) < 3
             /\ Len(call'[t].tokens) <= 3
      <4> DEFINE m == Len(call'[t].tokens)
                 n == Len(call[t].tokens)
      <4>1. m = n + 1 /\ n \in Nat /\ n < 3
            /\ call'[t].pc = IF n = 2 THEN "compare" ELSE "load"
        BY <2>3, <3>1, <3>2
      <4> HIDE DEF m, n
      <4>2. \/ call'[t].pc = "compare" /\ m = 3
            \/ call'[t].pc = "load" /\ m < 3 /\ m <= 3
        BY <4>1
      <4> QED
        BY <4>2 DEF m
    <3>4. call'[t].line # <<>> /\ save' # None /\ 3 <= 3
      BY <2>2, <3>1
    <3>5. Len(call'[t].tokens) <= 3
      BY <3>3, <3>4
    <3>6. call'[t].pc = "compare" => Len(call'[t].tokens) = 3
      BY <3>3
    <3>7. call'[t].pc \in {"scan", "load"} => Len(call'[t].tokens) < 3
      BY <3>3
    <3>8. call'[t].pc \notin {"scan", "idle"}
      BY <3>3
    <3> QED
      BY <3>4, <3>5, <3>6, <3>7, <3>8 DEF Stage
  <2>5. Within(call'[t].ptr)
    BY <2>1 DEF Within
  <2> QED
    BY <2>1, <2>2, <2>4, <2>5, OwnTypes
<1>6. CASE Compare(t)
  <2>1. /\ Own(t) /\ Same(t) /\ save' = save /\ call'[t].ptr = call[t].ptr
        /\ call'[t].tokens = call[t].tokens /\ call'[t].pc \in {"read", "done"}
    BY <1>6, CompareIs
  <2>2. Within(save') /\ Within(call'[t].ptr)
    BY <1>1, <2>1, SameBounded
  <2>3. Stage(t)'
    BY <1>1, <2>1 DEF Stage
  <2> QED
    BY <1>1, <2>1, <2>2, <2>3, OwnTypes
<1>7. CASE Return(t)
  <2>1. Own(t) /\ Freed(t) /\ call'[t] = NoCall /\ save' = Overwritten(t, save)
    BY <1>7, ReturnIs
  <2>2. save' \in Pointers /\ Within(save') /\ (save # None => save' # None)
    BY <2>1, OverwrittenBounded
  <2>3. Within(call'[t].ptr) /\ Stage(t)'
    BY <2>1 DEF Within, Stage, NoCall
  <2> QED
    BY <2>1, <2>2, <2>3, OwnTypes
<1> QED
  BY <1>2, <1>3, <1>4, <1>5, <1>6, <1>7 DEF Validate

\* A step that leaves pointers, lines and stages as they are.
Still ==
  /\ call' \in [Threads -> Calls] /\ save' = save
  /\ \A u \in Threads : /\ call'[u].ptr = call[u].ptr /\ call'[u].line = call[u].line
                        /\ call'[u].tokens = call[u].tokens /\ call'[u].pc = call[u].pc

\* So does a step that changes only the file, or what calls know of it.
LEMMA StillTypes ==
  ASSUME Types, Still, store' \in Stores \cup {Missing}, edits' \in 0 .. MaxEdits,
         configured' \in BOOLEAN
  PROVE  Types'
<1>1. ASSUME NEW p \in Pointers, Bounded(p)
      PROVE  Within(p)
  BY <1>1, StillBounded DEF Still
<1>2. save' \in Pointers /\ Bounded(save)'
  BY <1>1 DEF Types, Still, Bounded, Within
<1>3. ASSUME NEW u \in Threads
      PROVE  Bounded(call[u].ptr)' /\ Stage(u)'
  <2>1. call[u].ptr \in Pointers /\ Bounded(call[u].ptr) /\ Stage(u)
    BY DEF Types, Calls
  <2>2. Within(call[u].ptr)
    BY <1>1, <2>1
  <2>3. Bounded(call[u].ptr)'
    BY <2>2 DEF Bounded, Within, Still
  <2>4. Stage(u)'
    BY <2>1 DEF Stage, Still
  <2> QED
    BY <2>3, <2>4
<1> QED
  BY <1>2, <1>3 DEF Types, Still

\* The types are inductive.
LEMMA TypesStep ==
  ASSUME Types, [Next]_vars
  PROVE  Types'
<1>1. ASSUME NEW s \in Stores \cup {Missing}, Replace(s)
      PROVE  Types'
  <2>1. Still /\ store' = s /\ edits' \in 0 .. MaxEdits /\ configured' = configured
    BY <1>1, ReplaceIs DEF Still
  <2> QED
    BY <2>1, StillTypes DEF Types
<1>2. CASE Destroy
  <2>1. Still /\ store' = store /\ edits' = edits /\ configured' = FALSE
    BY <1>2 DEF Destroy, file, Types, Still
  <2> QED
    BY <2>1, StillTypes DEF Types
<1>3. ASSUME NEW t \in Threads, NEW r \in Requests, Call(t, r)
      PROVE  Types'
  <2>1. /\ call' \in [Threads -> Calls] /\ UNCHANGED <<store, edits, configured, save>>
        /\ call[t].pc = "idle" /\ call'[t].pc = "open" /\ call'[t].line = <<>>
        /\ call'[t].tokens = <<>> /\ call'[t].ptr = None
        /\ \A u \in Threads \ {t} :
              /\ call'[u].pc = call[u].pc /\ call'[u].ptr = call[u].ptr
              /\ call'[u].tokens = call[u].tokens /\ call'[u].line = call[u].line
    BY <1>3, CallIs
  <2>2. \A u \in Threads : call'[u].line = call[u].line
    BY <2>1 DEF Types, Stage
  <2>3. ASSUME NEW p \in Pointers, Bounded(p)
        PROVE  Within(p)
    BY <2>2, <2>3, StillBounded
  <2>4. save' \in Pointers /\ Bounded(save)'
    BY <2>1, <2>3 DEF Types, Bounded, Within
  <2>5. ASSUME NEW u \in Threads
        PROVE  Bounded(call[u].ptr)' /\ Stage(u)'
    <3>1. CASE u = t
      BY <2>1, <3>1 DEF Bounded, Stage
    <3>2. CASE u # t
      <4>1. call[u].ptr \in Pointers /\ Bounded(call[u].ptr) /\ Stage(u)
        BY DEF Types, Calls
      <4>2. Within(call[u].ptr)
        BY <2>3, <4>1
      <4>3. Bounded(call[u].ptr)'
        BY <2>1, <3>2, <4>2 DEF Bounded, Within
      <4>4. Stage(u)'
        BY <2>1, <3>2, <4>1 DEF Stage
      <4> QED
        BY <4>3, <4>4
    <3> QED
      BY <3>1, <3>2
  <2>6. store' \in Stores \cup {Missing} /\ edits' \in 0 .. MaxEdits /\ configured' \in BOOLEAN
    BY <2>1 DEF Types
  <2> QED
    BY <2>1, <2>4, <2>5, <2>6 DEF Types
<1>4. CASE UNCHANGED vars
  <2>1. Still /\ UNCHANGED <<store, edits, configured>>
    BY <1>4 DEF vars, file, Types, Still
  <2> QED
    BY <2>1, StillTypes DEF Types
<1> QED
  BY <1>1, <1>2, <1>3, <1>4, ValidateTypes DEF Next

-----------------------------------------------------------------------------
(* A call that is alone                                                       *)

\* A validate's step keeps what the call is for.
LEMMA ValidateKeeps ==
  ASSUME Types, NEW t \in Threads, Validate(t)
  PROVE  /\ Own(t) /\ Active(t)
         /\ \/ call'[t].pc = "idle"
            \/ /\ call'[t].req = call[t].req /\ call'[t].seen = call[t].seen
               /\ call'[t].alone = call[t].alone
<1>1. CASE Open(t)
  BY <1>1, OpenIs DEF Active, Same
<1>2. CASE ReadLine(t)
  BY <1>2, ReadIs DEF Active
<1>3. CASE LoadSave(t)
  BY <1>3, LoadIs DEF Active, Same
<1>4. CASE Scan(t)
  <2>1. Own(t) /\ Same(t) /\ call[t].pc = "scan"
    BY <1>4, ScanIs
  <2> QED
    BY <2>1 DEF Active, Same
<1>5. CASE Compare(t)
  <2>1. Own(t) /\ Same(t) /\ call[t].pc = "compare"
    BY <1>5, CompareIs
  <2> QED
    BY <2>1 DEF Active, Same
<1>6. CASE Return(t)
  <2>1. Own(t) /\ call'[t] = NoCall
    BY <1>6, ReturnIs
  <2>2. call[t].pc = "done"
    BY <1>6 DEF Return
  <2>3. NoCall.pc = "idle"
    BY DEF NoCall
  <2> QED
    BY <2>1, <2>2, <2>3 DEF Active
<1> QED
  BY <1>1, <1>2, <1>3, <1>4, <1>5, <1>6 DEF Validate

\* An edit is put down with every call under way, and a new call sees the file.
LEMMA UpToDateStep ==
  ASSUME Types, UpToDate, [Next]_vars
  PROVE  UpToDate'
<1> SUFFICES ASSUME NEW t \in Threads, Active(t)'
             PROVE  store' \in call'[t].seen
  BY DEF UpToDate
<1>1. ASSUME NEW s \in Stores \cup {Missing}, Replace(s)
      PROVE  store' \in call'[t].seen
  BY <1>1, ReplaceIs DEF Active
<1>2. CASE Destroy
  BY <1>2 DEF Destroy, file, UpToDate, Active
<1>3. ASSUME NEW u \in Threads, NEW r \in Requests, Call(u, r)
      PROVE  store' \in call'[t].seen
  <2>1. /\ store' = store /\ call'[u].seen = {store}
        /\ \A x \in Threads \ {u} : call'[x].pc = call[x].pc /\ call'[x].seen = call[x].seen
    BY <1>3, CallIs
  <2> QED
    BY <2>1 DEF UpToDate, Active
<1>4. ASSUME NEW u \in Threads, Validate(u)
      PROVE  store' \in call'[t].seen
  <2>1. /\ Own(u) /\ Active(u)
        /\ call'[u].pc = "idle" \/ call'[u].seen = call[u].seen
    BY <1>4, ValidateKeeps
  <2>2. CASE t = u
    BY <2>1, <2>2 DEF Own, UpToDate, Active
  <2>3. CASE t # u
    BY <2>1, <2>3 DEF Own, Kept, Same, UpToDate, Active
  <2> QED
    BY <2>2, <2>3
<1>5. CASE UNCHANGED vars
  BY <1>5 DEF vars, file, UpToDate, Active
<1> QED
  BY <1>1, <1>2, <1>3, <1>4, <1>5 DEF Next

-----------------------------------------------------------------------------
(* What the file grants                                                       *)

\* No line fits: no role.
LEMMA GrantedNone ==
  ASSUME NEW s, NEW r, \A i \in 1 .. Len(s) : ~ Hit(s, r, i)
  PROVE  Granted(s, r) = "NONE"
  BY DEF Granted, Hit

\* The first line that fits decides.
LEMMA GrantedFirst ==
  ASSUME NEW s, NEW r, Len(s) \in Nat, NEW k \in 1 .. Len(s), Hit(s, r, k),
         \A i \in 1 .. k - 1 : ~ Hit(s, r, i)
  PROVE  Granted(s, r) = RoleOf(s[k][3])
<1> DEFINE hits == {i \in 1 .. Len(s) : /\ Len(s[i]) >= 3
                                        /\ s[i][1] = r.user /\ s[i][2] = r.pass}
           first == CHOOSE i \in hits : \A j \in hits : i <= j
<1>1. k \in hits /\ hits \subseteq 1 .. Len(s)
  BY DEF Hit
<1>2. \A j \in hits : k <= j
  BY <1>1 DEF Hit
<1>3. Granted(s, r) = RoleOf(s[first][3])
  BY <1>1 DEF Granted
<1> HIDE DEF hits
<1>4. first \in hits /\ \A j \in hits : first <= j
  BY <1>1, <1>2
<1> HIDE DEF first
<1>5. first = k
  BY <1>1, <1>2, <1>4
<1> QED
  BY <1>3, <1>5

\* The lines of a content.
LEMMA ContentLines ==
  ASSUME Types, NEW t \in Threads, NEW s \in Contents(t)
  PROVE  /\ s \in Stores /\ s \in Seq(Lines) /\ Len(s) \in Nat
         /\ \A i \in 1 .. Len(s) : s[i] \in Lines /\ Len(s[i]) \in Nat
<1>1. s \in Stores
  BY DEF Types, Calls, Contents
<1>2. s \in Seq(Lines)
  BY <1>1, FileLines
<1>3. \A i \in 1 .. Len(s) : s[i] \in Lines
  BY <1>2
<1>4. \A i \in 1 .. Len(s) : Len(s[i]) \in Nat
  BY <1>3, LineLength
<1> QED
  BY <1>1, <1>2, <1>3, <1>4

-----------------------------------------------------------------------------
(* The steps of a call that is alone *)

\* One lemma for the steps of others that may happen meanwhile: an edit of the file
\* and the end of the service.
LEMMA ProgressKept ==
  ASSUME NEW t \in Threads, Progress(t), save' = save, configured' \in {configured, FALSE},
         call'[t].pc = call[t].pc, call'[t].ptr = call[t].ptr,
         call'[t].tokens = call[t].tokens, call'[t].line = call[t].line,
         call'[t].text = call[t].text, call'[t].cut = call[t].cut,
         call'[t].req = call[t].req, call'[t].verdict = call[t].verdict,
         call[t].seen \subseteq call'[t].seen
  PROVE  Progress(t)'
<1>1. Contents(t) \subseteq Contents(t)'
  BY DEF Contents
<1>2. call[t].pc = "done" => Right(t)'
  <2> SUFFICES ASSUME call[t].pc = "done"
               PROVE  Right(t)'
    OBVIOUS
  <2>1. Right(t)
    BY DEF Progress
  <2> QED
    BY <2>1 DEF Right
<1>3. Parsing(t) => Parsing(t)'
  BY DEF Parsing, Upto, Field
<1>4. call[t].pc = "read" =>
        \E s \in Contents(t)' : \E k \in 0 .. Len(s) :
          Reading(call'[t].text, call'[t].req, s, k, k)
  BY <1>1 DEF Progress
<1>5. call[t].pc \in {"scan", "load", "compare"} =>
        \E s \in Contents(t)' : \E k \in 1 .. Len(s) :
          /\ Reading(call'[t].text, call'[t].req, s, k, k - 1)
          /\ call'[t].line = s[k]
  BY <1>1 DEF Progress
<1>6. call[t].pc \in {"scan", "load", "compare"} => Parsing(t)'
  BY <1>3 DEF Progress
<1> QED
  BY <1>2, <1>4, <1>5, <1>6 DEF Progress

\* The whole file is still to be read, or there is none.
LEMMA OpenProgress ==
  ASSUME Types, UpToDate, NEW t \in Threads, Open(t)
  PROVE  Progress(t)'
<1>1. /\ Own(t) /\ Same(t) /\ call[t].pc = "open" /\ store \in call[t].seen
      /\ \/ store \in Stores /\ call'[t].pc = "read" /\ call'[t].text = store
         \/ /\ ~ configured \/ store = Missing
            /\ call'[t].pc = "done" /\ call'[t].verdict = "NONE"
  BY OpenIs DEF UpToDate, Active
<1>2. CASE store \in Stores /\ call'[t].pc = "read" /\ call'[t].text = store
  <2>1. store \in Contents(t) /\ store \in Contents(t)'
    BY <1>1, <1>2, MissingAssumption DEF Contents, Same
  <2>2. Len(store) \in Nat
    BY <2>1, ContentLines
  <2>3. Reading(call'[t].text, call'[t].req, store, 0, 0)
    BY <1>2, <2>2 DEF Reading
  <2>4. 0 \in 0 .. Len(store)
    BY <2>2
  <2> QED
    BY <1>2, <2>1, <2>3, <2>4 DEF Progress
<1>3. CASE (~ configured \/ store = Missing) /\ call'[t].pc = "done" /\ call'[t].verdict = "NONE"
  <2>1. Right(t)'
    BY <1>1, <1>3 DEF Right, Own, Same
  <2> QED
    BY <1>3, <2>1 DEF Progress
<1> QED
  BY <1>1, <1>2, <1>3

\* The line read is the next of the content, or all have been read and none fits.
LEMMA ReadProgress ==
  ASSUME Types, NEW t \in Threads, ReadLine(t), Progress(t)
  PROVE  Progress(t)'
<1>1. /\ Own(t) /\ call[t].pc = "read" /\ call'[t].req = call[t].req
      /\ call'[t].seen = call[t].seen
  BY ReadIs
<1>2. PICK s \in Contents(t) : \E k \in 0 .. Len(s) : Reading(call[t].text, call[t].req, s, k, k)
  BY <1>1 DEF Progress
<1>3. PICK k \in 0 .. Len(s) : Reading(call[t].text, call[t].req, s, k, k)
  BY <1>2
<1>4. /\ s \in Seq(Lines) /\ Len(s) \in Nat /\ s # Missing /\ s \in Contents(t)'
      /\ \A i \in 1 .. Len(s) : Len(s[i]) \in Nat
  BY <1>1, ContentLines DEF Contents
<1>5. call[t].text \in Seq(Lines)
  BY DEF Types, Calls
<1> DEFINE text == call[t].text
           r == call[t].req
<1>6. CASE text = <<>>
  <2>1. call'[t].pc = "done" /\ call'[t].verdict = "NONE"
    BY <1>6, ReadIs
  <2>2. k = Len(s)
    BY <1>3, <1>4, <1>6 DEF Reading
  <2>3. Granted(s, r) = "NONE"
    BY <1>3, <2>2, GrantedNone DEF Reading
  <2>4. Right(t)'
    BY <1>1, <1>4, <2>1, <2>3 DEF Right, Contents
  <2> QED
    BY <2>1, <2>4 DEF Progress
<1>7. CASE text # <<>>
  <2>1. /\ call'[t].text = Tail(text) /\ call'[t].line = text[1]
        /\ call'[t].cut = {} /\ call'[t].tokens = <<>>
        /\ \/ /\ call'[t].line = <<>> /\ call'[t].pc = "read"
           \/ /\ call'[t].line # <<>> /\ call'[t].pc = "scan"
              /\ call'[t].ptr = [of |-> t, at |-> 1]
    BY <1>7, ReadIs
  <2>2. /\ Len(text) \in Nat \ {0} /\ Len(Tail(text)) = Len(text) - 1
        /\ \A i \in 1 .. Len(Tail(text)) : Tail(text)[i] = text[i + 1]
    BY <1>5, <1>7
  <2>3. /\ Len(text) = Len(s) - k
        /\ \A i \in 1 .. Len(text) : text[i] = s[k + i]
        /\ \A i \in 1 .. k : ~ Hit(s, r, i)
    BY <1>3 DEF Reading
  <2> DEFINE rest == Tail(text)
             n == Len(text)
  <2> HIDE DEF text, r
  <2>4. k + 1 \in 1 .. Len(s) /\ Len(rest) = Len(s) - (k + 1) /\ k \in Nat
        /\ \A i \in 1 .. Len(rest) : i + 1 \in 1 .. n
    BY <1>4, <2>2, <2>3
  <2>5. \A i \in 1 .. Len(rest) : rest[i] = s[(k + 1) + i]
    <3> SUFFICES ASSUME NEW i \in 1 .. Len(rest)
                 PROVE  rest[i] = s[(k + 1) + i]
      OBVIOUS
    <3>1. rest[i] = s[k + (i + 1)]
      BY <2>2, <2>3, <2>4
    <3>2. k + (i + 1) = (k + 1) + i
      BY <2>4
    <3> QED
      BY <3>1, <3>2
  <2>6. text[1] = s[k + 1]
    BY <2>2, <2>3
  <2> HIDE DEF rest, n
  <2>7. Reading(rest, r, s, k + 1, (k + 1) - 1)
    <3>1. (k + 1) - 1 = k
      BY <2>4
    <3> QED
      BY <2>3, <2>4, <2>5, <3>1 DEF Reading
  <2>8. CASE call'[t].line = <<>> /\ call'[t].pc = "read"
    <3>1. ~ Hit(s, r, k + 1)
      BY <2>1, <2>6, <2>8 DEF Hit
    <3>2. \A i \in 1 .. k + 1 : ~ Hit(s, r, i)
      BY <2>3, <2>4, <3>1
    <3>3. Reading(rest, r, s, k + 1, k + 1)
      BY <2>4, <2>5, <3>2 DEF Reading
    <3>4. k + 1 \in 0 .. Len(s)
      BY <1>4, <2>4
    <3>5. call'[t].text = rest /\ call'[t].req = r
      BY <1>1, <2>1 DEF rest, r
    <3> QED
      BY <1>4, <2>8, <3>3, <3>4, <3>5 DEF Progress
  <2>9. CASE call'[t].line # <<>> /\ call'[t].pc = "scan" /\ call'[t].ptr = [of |-> t, at |-> 1]
    <3>1. call'[t].text = rest /\ call'[t].req = r /\ call'[t].line = s[k + 1]
      BY <1>1, <2>1, <2>6 DEF rest, r
    <3>2. 0 < Len(call'[t].line)
      <4>1. call'[t].line \in Seq(Fields)
        <5>1. s[k + 1] \in Lines
          BY <1>4, <2>4
        <5> QED
          BY <3>1, <5>1, FileLines
      <4> QED
        BY <2>9, <4>1
    <3>3. Parsing(t)'
      BY <2>1, <2>9, <3>2 DEF Parsing, Upto
    <3> QED
      BY <1>4, <2>4, <2>7, <2>9, <3>1, <3>3 DEF Progress
  <2> QED
    BY <2>1, <2>8, <2>9
<1> QED
  BY <1>6, <1>7

\* strtok goes on where this call has stopped: no other has moved its position.
LEMMA LoadProgress ==
  ASSUME Types, NEW t \in Threads, LoadSave(t), Progress(t)
  PROVE  Progress(t)'
<1>1. /\ Same(t) /\ save' = save /\ call[t].pc = "load" /\ call'[t].pc = "scan"
      /\ call'[t].ptr = save /\ call'[t].tokens = call[t].tokens
      /\ call'[t].text = call[t].text /\ call'[t].cut = call[t].cut
      /\ call'[t].line = call[t].line
  BY LoadIs DEF Same
<1>2. Parsing(t)
  BY <1>1 DEF Progress
<1>3. Parsing(t)'
  BY <1>1, <1>2 DEF Parsing, Upto, Field
<1>4. \E s \in Contents(t)' : \E k \in 1 .. Len(s) :
        /\ Reading(call'[t].text, call'[t].req, s, k, k - 1)
        /\ call'[t].line = s[k]
  BY <1>1 DEF Progress, Same, Contents
<1> QED
  BY <1>1, <1>3, <1>4 DEF Progress

\* The next token is the next field of the line, or NULL behind the last.
LEMMA ScanProgress ==
  ASSUME Types, NEW t \in Threads, Scan(t), Progress(t)
  PROVE  Progress(t)'
<1>1. /\ Same(t) /\ call[t].pc = "scan" /\ call'[t].text = call[t].text
      /\ call'[t].pc = IF Len(call[t].tokens) = 2 THEN "compare" ELSE "load"
  BY ScanIs
<1>2. Parsing(t)
  BY <1>1 DEF Progress
<1> DEFINE n == Len(call[t].tokens)
           end == Len(call[t].line)
           p == call[t].ptr
<1>3. n \in Nat /\ end \in Nat /\ call[t].tokens \in Seq(Pointers) /\ call[t].line # <<>>
  <2>1. call[t].line \in Lines \cup {<<>>} /\ call[t].tokens \in Seq(Pointers) /\ Stage(t)
    BY DEF Types, Calls
  <2>2. end \in Nat
    BY <2>1, LineLength
  <2> QED
    BY <1>1, <2>1, <2>2 DEF Stage
<1>4. /\ p = [of |-> t, at |-> (IF n < end THEN n ELSE end) + 1]
      /\ \A i \in 1 .. n : call[t].tokens[i] = Field(t, i)
      /\ \A a \in call[t].cut : a <= n
  BY <1>1, <1>2 DEF Parsing, Upto
<1>5. p # Wild /\ p.of = t /\ p.at = (IF n < end THEN n ELSE end) + 1
  <2>1. p \in Places
    BY <1>3, <1>4 DEF Places
  <2> QED
    BY <1>4, <2>1, PointersAssumption
<1>6. \/ /\ p.at <= end /\ save' = After(p)
         /\ call'[t].tokens = Append(call[t].tokens, p)
         /\ call'[t].cut = call[t].cut \cup {p.at}
      \/ /\ p.at > end /\ save' = p /\ call'[t].cut = call[t].cut
         /\ call'[t].tokens = Append(call[t].tokens, None)
  BY <1>5, ScanIs
<1>7. /\ Len(call'[t].tokens) = n + 1 /\ call'[t].line = call[t].line
      /\ \A i \in 1 .. n : call'[t].tokens[i] = call[t].tokens[i]
      /\ call'[t].tokens[n + 1] = IF p.at <= end THEN p ELSE None
  <2>1. call'[t].line = call[t].line
    BY <1>1 DEF Same
  <2>2. PICK x : call'[t].tokens = Append(call[t].tokens, x) /\ x = IF p.at <= end THEN p ELSE None
    BY <1>3, <1>5, <1>6
  <2> HIDE DEF p
  <2> QED
    BY <1>3, <2>1, <2>2
<1>8. call'[t].tokens[n + 1] = Field(t, n + 1)
  <2>1. Field(t, n + 1) = IF n + 1 <= end THEN [of |-> t, at |-> n + 1] ELSE None
    BY DEF Field
  <2> HIDE DEF n, end, p
  <2> QED
    BY <1>3, <1>4, <1>5, <1>7, <2>1
<1>9. \A a \in call'[t].cut : a <= n + 1
  <2>1. p.at <= n + 1 /\ call[t].cut \subseteq Nat
    BY <1>3, <1>5 DEF Types, Calls
  <2> HIDE DEF n, end, p
  <2> QED
    BY <1>3, <1>4, <1>6, <2>1
<1>10. save' = [of |-> t, at |-> (IF n + 1 < end THEN n + 1 ELSE end) + 1]
  <2>1. CASE p.at <= end
    <3>1. p.at = n + 1 /\ p.at \notin call[t].cut
      <4> HIDE DEF n, end, p
      <4> QED
        BY <1>3, <1>4, <1>5, <2>1
    <3>2. save' = After(p)
      BY <1>3, <1>5, <1>6, <2>1
    <3>3. After(p) = [p EXCEPT !.at = n + 2]
      <4> HIDE DEF n, end, p
      <4>1. p.at \notin call[p.of].cut
        BY <1>5, <3>1
      <4>2. After(p) = [p EXCEPT !.at = p.at + 1]
        BY <4>1 DEF After
      <4>3. p.at + 1 = n + 2
        BY <1>3, <3>1
      <4> QED
        BY <4>2, <4>3
    <3>4. save' = [of |-> t, at |-> n + 2]
      BY <1>4, <3>2, <3>3
    <3>5. n + 2 = (IF n + 1 < end THEN n + 1 ELSE end) + 1
      <4> HIDE DEF n, end, p
      <4> QED
        BY <1>3, <2>1, <3>1
    <3> QED
      BY <3>4, <3>5
  <2>2. CASE ~ p.at <= end
    <3>1. save' = p
      BY <1>3, <1>5, <1>6, <2>2
    <3>2. (IF n < end THEN n ELSE end) + 1 = (IF n + 1 < end THEN n + 1 ELSE end) + 1
      <4> HIDE DEF n, end, p
      <4> QED
        BY <1>3, <1>5, <2>2
    <3> QED
      BY <1>4, <3>1, <3>2
  <2> QED
    BY <2>1, <2>2
<1>11. Parsing(t)'
  <2>1. \A i \in 1 .. n + 1 : call'[t].tokens[i] = Field(t, i)'
    <3>1. \A i : Field(t, i)' = Field(t, i)
      BY <1>7 DEF Field
    <3> HIDE DEF p
    <3>2. ASSUME NEW i \in 1 .. n + 1
          PROVE  call'[t].tokens[i] = Field(t, i)
      <4>1. i \in 1 .. n \/ i = n + 1
        <5> HIDE DEF n
        <5> QED
          BY <1>3
      <4> QED
        BY <1>4, <1>7, <1>8, <4>1
    <3> QED
      BY <3>1, <3>2
  <2>2. call'[t].pc # "scan"
    BY <1>1
  <2> HIDE DEF p
  <2> QED
    BY <1>7, <1>9, <1>10, <2>1, <2>2 DEF Parsing, Upto
<1>12. \E s \in Contents(t)' : \E k \in 1 .. Len(s) :
        /\ Reading(call'[t].text, call'[t].req, s, k, k - 1)
        /\ call'[t].line = s[k]
  BY <1>1 DEF Progress, Same, Contents
<1>13. call'[t].pc \in {"compare", "load"}
  BY <1>1
<1> QED
  BY <1>11, <1>12, <1>13 DEF Progress

\* A line that does not fit is passed over; the first that does is the answer.
LEMMA CompareProgress ==
  ASSUME Types, NEW t \in Threads, Compare(t), Progress(t)
  PROVE  Progress(t)'
<1> DEFINE line == call[t].line
           r == call[t].req
           tokens == call[t].tokens
<1>1. /\ Own(t) /\ Same(t) /\ call[t].pc = "compare" /\ call'[t].text = call[t].text
      /\ \/ call'[t].pc = "read" /\ \E i \in 1 .. 3 : tokens[i] = None
         \/ /\ ~ \E i \in 1 .. 3 : tokens[i] = None
            /\ \E user \in Content(tokens[1]), pass \in Content(tokens[2]),
                  role \in Content(tokens[3]) :
                 \/ /\ call'[t].pc = "read"
                    /\ ~ (user = r.user /\ pass = r.pass)
                 \/ /\ call'[t].pc = "done" /\ call'[t].verdict = RoleOf(role)
                    /\ user = r.user /\ pass = r.pass
  BY CompareIs
<1>2. PICK s \in Contents(t) : \E k \in 1 .. Len(s) :
        Reading(call[t].text, r, s, k, k - 1) /\ line = s[k]
  BY <1>1 DEF Progress
<1>3. PICK k \in 1 .. Len(s) : Reading(call[t].text, r, s, k, k - 1) /\ line = s[k]
  BY <1>2
<1>4. /\ Len(s) \in Nat /\ Len(line) \in Nat /\ s # Missing /\ s \in Contents(t)'
      /\ call'[t].req = r
  BY <1>1, <1>3, ContentLines DEF Contents, Same
<1>5. \A i \in 1 .. 3 : tokens[i] = IF i <= Len(line) THEN [of |-> t, at |-> i] ELSE None
  <2>1. Parsing(t) /\ Len(tokens) = 3
    BY <1>1 DEF Progress, Types, Stage
  <2> QED
    BY <2>1 DEF Parsing, Field
<1>6. \A i \in 1 .. 3 : [of |-> t, at |-> i] \in Places /\ [of |-> t, at |-> i] \notin {Wild, None}
  <2>1. \A i \in 1 .. 3 : [of |-> t, at |-> i] \in Places
    BY DEF Places
  <2> QED
    BY <2>1, PointersAssumption
<1>7. ASSUME call'[t].pc = "read", ~ Hit(s, r, k)
      PROVE  Progress(t)'
  <2>1. \A i \in 1 .. k : ~ Hit(s, r, i)
    BY <1>3, <1>4, <1>7 DEF Reading
  <2>2. Reading(call[t].text, r, s, k, k) /\ k \in 0 .. Len(s)
    BY <1>3, <1>4, <2>1 DEF Reading
  <2> QED
    BY <1>1, <1>4, <1>7, <2>2 DEF Progress
<1>8. CASE \E i \in 1 .. 3 : tokens[i] = None
  <2>1. ~ Len(line) >= 3
    BY <1>4, <1>5, <1>6, <1>8
  <2>2. ~ Hit(s, r, k)
    BY <1>3, <2>1 DEF Hit
  <2>3. call'[t].pc = "read"
    BY <1>1, <1>8
  <2> QED
    BY <1>7, <2>2, <2>3
<1>9. CASE ~ \E i \in 1 .. 3 : tokens[i] = None
  <2>1. Len(line) >= 3 /\ \A i \in 1 .. 3 : tokens[i] = [of |-> t, at |-> i]
    BY <1>4, <1>5, <1>9
  <2>2. \A i \in 1 .. 3 : Content(tokens[i]) = {line[i]}
    <3> SUFFICES ASSUME NEW i \in 1 .. 3
                 PROVE  Content(tokens[i]) = {line[i]}
      OBVIOUS
    <3>1. Content([of |-> t, at |-> i]) = {line[i]}
      BY <1>6 DEF Content
    <3> QED
      BY <2>1, <3>1
  <2>3. \/ call'[t].pc = "read" /\ ~ (line[1] = r.user /\ line[2] = r.pass)
        \/ /\ call'[t].pc = "done" /\ call'[t].verdict = RoleOf(line[3])
           /\ line[1] = r.user /\ line[2] = r.pass
    BY <1>1, <1>9, <2>2
  <2>4. CASE call'[t].pc = "read" /\ ~ (line[1] = r.user /\ line[2] = r.pass)
    <3>1. ~ Hit(s, r, k)
      BY <1>3, <2>4 DEF Hit
    <3> QED
      BY <1>7, <2>4, <3>1
  <2>5. CASE call'[t].pc = "done" /\ call'[t].verdict = RoleOf(line[3])
             /\ line[1] = r.user /\ line[2] = r.pass
    <3>1. Hit(s, r, k)
      BY <1>3, <2>1, <2>5 DEF Hit
    <3>2. Granted(s, r) = RoleOf(line[3])
      BY <1>3, <1>4, <3>1, GrantedFirst DEF Reading
    <3>3. Right(t)'
      BY <1>4, <2>5, <3>2 DEF Right, Contents
    <3> QED
      BY <2>5, <3>3 DEF Progress
  <2> QED
    BY <2>3, <2>4, <2>5
<1> QED
  BY <1>8, <1>9

\* Every step of a call that is alone keeps it on its way.
LEMMA ValidateProgress ==
  ASSUME Types, UpToDate, NEW t \in Threads, Validate(t), Progress(t), Active(t)'
  PROVE  Progress(t)'
<1>1. CASE Return(t)
  <2>1. call'[t] = NoCall /\ NoCall.pc = "idle"
    BY <1>1, ReturnIs DEF NoCall
  <2> QED
    BY <2>1 DEF Active
<1> QED
  BY <1>1, OpenProgress, ReadProgress, LoadProgress, ScanProgress, CompareProgress
  DEF Validate

-----------------------------------------------------------------------------
(* The others are idle while a call is alone *)

\* Another thread's only step is to call, which ends the solitude.
LEMMA UndisturbedStep ==
  ASSUME Types, UpToDate, Undisturbed, [Next]_vars
  PROVE  Undisturbed'
<1> SUFFICES ASSUME NEW t \in Threads, Active(t)', call'[t].alone
             PROVE  Progress(t)' /\ \A u \in Threads \ {t} : ~ Active(u)'
  BY DEF Undisturbed
<1>1. ASSUME NEW s \in Stores \cup {Missing}, Replace(s)
      PROVE  Progress(t)' /\ \A u \in Threads \ {t} : ~ Active(u)'
  <2>1. /\ UNCHANGED <<configured, save>>
        /\ \A u \in Threads :
              /\ call'[u].pc = call[u].pc /\ call'[u].ptr = call[u].ptr
              /\ call'[u].tokens = call[u].tokens /\ call'[u].line = call[u].line
              /\ call'[u].text = call[u].text /\ call'[u].cut = call[u].cut
              /\ call'[u].req = call[u].req /\ call'[u].alone = call[u].alone
              /\ call'[u].verdict = call[u].verdict
              /\ Active(u) => call'[u].seen = call[u].seen \cup {s}
    BY <1>1, ReplaceIs
  <2>2. Active(t) /\ Progress(t) /\ \A u \in Threads \ {t} : ~ Active(u)
    BY <2>1 DEF Undisturbed, Active
  <2>3. Progress(t)'
    BY <2>1, <2>2, ProgressKept
  <2> QED
    BY <2>1, <2>2, <2>3 DEF Active
<1>2. CASE UNCHANGED call /\ UNCHANGED save /\ configured' \in {configured, FALSE}
  <2>1. Progress(t) /\ \A u \in Threads \ {t} : ~ Active(u)
    BY <1>2 DEF Undisturbed, Active
  <2>2. Progress(t)'
    BY <1>2, <2>1, ProgressKept
  <2> QED
    BY <1>2, <2>1, <2>2 DEF Active
<1>3. ASSUME NEW u \in Threads, NEW r \in Requests, Call(u, r)
      PROVE  Progress(t)' /\ \A x \in Threads \ {t} : ~ Active(x)'
  <2>1. /\ call[u].pc = "idle" /\ call'[u].pc = "open"
        /\ call'[u].alone = (\A x \in Threads : ~ Active(x))
        /\ \A x \in Threads \ {u} :
             call'[x].pc = call[x].pc /\ call'[x].alone = (call[x].alone /\ ~ Active(x))
    BY <1>3, CallIs
  <2>2. t = u
    BY <2>1 DEF Active
  <2>3. Progress(t)'
    BY <2>1, <2>2 DEF Progress
  <2> QED
    BY <2>1, <2>2, <2>3 DEF Active
<1>4. ASSUME NEW u \in Threads, Validate(u)
      PROVE  Progress(t)' /\ \A x \in Threads \ {t} : ~ Active(x)'
  <2>1. /\ Own(u) /\ Active(u)
        /\ call'[u].pc = "idle" \/ call'[u].alone = call[u].alone
    BY <1>4, ValidateKeeps
  <2>2. \A x \in Threads \ {u} : call'[x].pc = call[x].pc /\ call'[x].alone = call[x].alone
    BY <2>1 DEF Own, Kept, Same
  <2>3. Active(t) /\ call[t].alone
    BY <2>1, <2>2 DEF Active
  <2>4. Progress(t) /\ \A x \in Threads \ {t} : ~ Active(x)
    BY <2>3 DEF Undisturbed
  <2>5. t = u
    BY <2>1, <2>4
  <2>6. Progress(t)'
    BY <1>4, <2>4, <2>5, ValidateProgress
  <2> QED
    BY <2>2, <2>4, <2>5, <2>6 DEF Active
<1>5. Destroy \/ UNCHANGED vars => UNCHANGED call /\ UNCHANGED save /\ configured' \in {configured, FALSE}
  BY DEF Destroy, vars, file
<1> QED
  BY <1>1, <1>2, <1>3, <1>4, <1>5 DEF Next

-----------------------------------------------------------------------------
(* The theorems *)

\* Nobody calls at first.
LEMMA InvInit == Init => Inv
<1> SUFFICES ASSUME Init PROVE Inv
  OBVIOUS
<1>1. call = [t \in Threads |-> NoCall] /\ save = None
  BY DEF Init
<1>2. /\ NoCall \in Calls /\ NoCall.pc = "idle" /\ NoCall.ptr = None /\ NoCall.tokens = <<>>
      /\ NoCall.line = <<>>
  BY NoCallIs DEF NoCall
<1> HIDE DEF NoCall
<1>3. call \in [Threads -> Calls]
  BY <1>1, <1>2
<1>4. \A t \in Threads : Bounded(call[t].ptr) /\ Stage(t)
  <2> SUFFICES ASSUME NEW t \in Threads
               PROVE  Bounded(call[t].ptr) /\ Stage(t)
    OBVIOUS
  <2>1. /\ call[t].pc = "idle" /\ call[t].ptr = None /\ Len(call[t].tokens) = 0
        /\ call[t].line = <<>>
    <3>1. call[t] = NoCall /\ Len(<<>>) = 0
      BY <1>1
    <3> QED
      BY <1>2, <3>1
  <2> QED
    BY <2>1 DEF Bounded, Stage
<1>5. Types
  BY <1>1, <1>3, <1>4, EditsAssumption DEF Types, Init, Bounded, Pointers
<1>6. UpToDate /\ Undisturbed
  BY <1>1, <1>2 DEF UpToDate, Undisturbed, Active
<1> QED
  BY <1>5, <1>6 DEF Inv

\* The invariant is inductive.
LEMMA InvStep == Inv /\ [Next]_vars => Inv'
  BY TypesStep, UpToDateStep, UndisturbedStep DEF Inv

\* The inductive invariant holds: pointers, what calls have seen, a call that is alone.
THEOREM Invariance == Spec => []Inv
  BY InvInit, InvStep, PTL DEF Spec

\* The inductive types are those the run checks, and more.
LEMMA TypesAreOK == Types => TypeOK
<1> SUFFICES ASSUME Types, NEW t \in Threads
             PROVE  /\ call[t] \in Calls
                    /\ Len(call[t].tokens) <= 3
                    /\ call[t].ptr \notin {Wild, None} =>
                         call[t].ptr.at <= Len(call[call[t].ptr.of].line) + 1
                    /\ call[t].pc = "compare" => call[t].line # <<>> /\ Len(call[t].tokens) = 3
  BY DEF Types, TypeOK
<1>1. call[t] \in Calls /\ Bounded(call[t].ptr) /\ Stage(t)
  BY DEF Types
<1> QED
  BY <1>1 DEF Bounded, Stage

\* File, position and calls stay in their types: no pointer that is not wild points
\* past the end of its line, for any number of threads and any files.
THEOREM TypeCorrect == Spec => []TypeOK
<1>1. Inv => TypeOK
  BY TypesAreOK DEF Inv
<1> QED
  BY <1>1, Invariance, PTL

\* auth_service_validate: a call that no other overlaps answers what the file says,
\* whatever the calls before it have left in strtok's position.
THEOREM UndisturbedRight == Spec => []UndisturbedVerdictIsRight
<1>1. Inv => UndisturbedVerdictIsRight
  BY DEF Inv, Undisturbed, Progress, UndisturbedVerdictIsRight, Active
<1> QED
  BY <1>1, Invariance, PTL
=============================================================================

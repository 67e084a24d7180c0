--------------------------- MODULE SessionFraming ---------------------------
(***************************************************************************)
(* How a session cuts the byte stream of its client into command lines:    *)
(* the receive loop of connection_handle_session with its three buffers    *)
(* (buf, carry, combined).  TCP may deliver the stream in any pieces; the  *)
(* loop takes a piece, puts what was left over in front of it, dispatches  *)
(* every complete line and keeps the rest.                                 *)
(*                                                                         *)
(* A byte is NL, CR, NUL or one of a few others; the one-byte line <<QUIT>> *)
(* stands for the line "QUIT".                                             *)
(***************************************************************************)
EXTENDS Integers, Sequences, FiniteSets

CONSTANTS
  Bytes, NL, CR, NUL, QUIT,
  BufSize,       \* sizeof(buf): a recv asks for at most BufSize - 1 bytes
  CarrySize,     \* sizeof(carry)
  CombinedSize,  \* sizeof(combined)
  MaxBytes       \* bytes of the stream considered

ASSUME SizesAssumption ==
  /\ BufSize \in Nat \ {0} /\ CarrySize \in Nat \ {0} /\ CombinedSize \in Nat
  /\ CarrySize + BufSize - 1 <= CombinedSize
ASSUME BytesAssumption == {NL, CR, NUL, QUIT} \subseteq Bytes

VARIABLES
  pc,         \* "recv", "split" or "closed"
  carry,      \* carry[0 .. carry_len-1]
  rest,       \* the string that p points at, inside combined
  used,       \* bytes of combined written by this recv, terminator included
  received,   \* the stream delivered so far
  dispatched  \* the lines handed to dispatch_command so far

vars == <<pc, carry, rest, used, received, dispatched>>

Text == Seq(Bytes)

\* Variant with a planted fault: recv is given the size of the wrong buffer.
ChunksCombined == UNION {[1 .. n -> Bytes] : n \in 1 .. CombinedSize - 1}

Chunks == UNION {[1 .. n -> Bytes] : n \in 1 .. BufSize - 1}

Has(s, b) == \E i \in 1 .. Len(s) : s[i] = b

TypeOK ==
  /\ pc \in {"recv", "split", "closed"}
  /\ carry \in Text /\ Len(carry) < CarrySize
  /\ rest \in Text /\ received \in Text
  /\ used \in Nat
  /\ dispatched \in Seq(Text)

Init ==
  /\ pc = "recv"
  /\ carry = <<>> /\ rest = <<>> /\ used = 0
  /\ received = <<>> /\ dispatched = <<>>

-----------------------------------------------------------------------------

\* combined, before its terminator.
Combined(left, chunk) == left \o chunk

\* n is where the C string in s ends: at its first NUL, or at the end of s.
IsCString(s, n) ==
  /\ \A i \in 1 .. n : s[i] # NUL
  /\ n < Len(s) => s[n + 1] = NUL

Recv(chunk) ==
  /\ pc = "recv"
  /\ Len(received) + Len(chunk) <= MaxBytes
  /\ received' = received \o chunk
  /\ used' = Len(Combined(carry, chunk)) + 1
  /\ \E n \in 0 .. Len(Combined(carry, chunk)) :
       /\ IsCString(Combined(carry, chunk), n)
       /\ rest' = SubSeq(Combined(carry, chunk), 1, n)
  /\ carry' = <<>>
  /\ pc' = "split"
  /\ UNCHANGED dispatched

\* dispatch_command strips one trailing CR.
Chomp(line) ==
  IF line # <<>> /\ line[Len(line)] = CR THEN SubSeq(line, 1, Len(line) - 1) ELSE line

\* strchr finds the first NL; the line before it is dispatched, and p moves
\* behind it.  After QUIT the session ends, whatever else was received.
Dispatch ==
  /\ pc = "split"
  /\ \E i \in 1 .. Len(rest) :
       /\ rest[i] = NL /\ \A j \in 1 .. i - 1 : rest[j] # NL
       /\ dispatched' = Append(dispatched, Chomp(SubSeq(rest, 1, i - 1)))
       /\ rest' = SubSeq(rest, i + 1, Len(rest))
       /\ pc' = IF Chomp(SubSeq(rest, 1, i - 1)) = <<QUIT>> THEN "closed" ELSE "split"
  /\ UNCHANGED <<carry, used, received>>

\* Variants with a planted fault: the length test is one too generous, one too
\* strict; the loop handles one line only.
SaveRestTooLong ==
  /\ pc = "split" /\ ~ Has(rest, NL)
  /\ carry' = IF Len(rest) <= CarrySize THEN rest ELSE <<>>
  /\ rest' = <<>> /\ pc' = "recv"
  /\ UNCHANGED <<used, received, dispatched>>
SaveRestShort ==
  /\ pc = "split" /\ ~ Has(rest, NL)
  /\ carry' = IF Len(rest) < CarrySize - 1 THEN rest ELSE <<>>
  /\ rest' = <<>> /\ pc' = "recv"
  /\ UNCHANGED <<used, received, dispatched>>
SaveRestEarly ==
  /\ pc = "split"
  /\ carry' = IF Len(rest) < CarrySize THEN rest ELSE <<>>
  /\ rest' = <<>> /\ pc' = "recv"
  /\ UNCHANGED <<used, received, dispatched>>

\* What follows the last NL is kept if it fits, and forgotten if it does not.
SaveRest ==
  /\ pc = "split" /\ ~ Has(rest, NL)
  /\ carry' = IF Len(rest) < CarrySize THEN rest ELSE <<>>
  /\ rest' = <<>>
  /\ pc' = "recv"
  /\ UNCHANGED <<used, received, dispatched>>

\* recv returns 0 or an error.
HangUp ==
  /\ pc = "recv" /\ pc' = "closed"
  /\ UNCHANGED <<carry, rest, used, received, dispatched>>

Next ==
  \/ \E chunk \in Chunks : Recv(chunk)
  \/ Dispatch \/ SaveRest \/ HangUp

Spec == Init /\ [][Next]_vars

-----------------------------------------------------------------------------
(* Safety *)

\* The buffers are never overrun, whatever the client sends: the left-over and
\* the new bytes, with their terminator, fit into combined.
NoOverrun == used <= CombinedSize

\* The reference: a stream cut at every NL, without regard to its delivery.
Ends(s) == {i \in 1 .. Len(s) : s[i] = NL}

Start(s, i) ==
  LET before == {j \in Ends(s) : j < i}
  IN  IF before = {} THEN 1 ELSE 1 + CHOOSE j \in before : \A k \in before : k <= j

Message(s, i) == SubSeq(s, Start(s, i), i - 1)

\* The message that ends at position i is the n-th.
Nth(s, i) == Cardinality({j \in Ends(s) : j <= i})

IsSuffix(s, t) == Len(s) <= Len(t) /\ s = SubSeq(t, Len(t) - Len(s) + 1, Len(t))

\* Without NUL bytes, and whatever the pieces the stream comes in: the n-th
\* line dispatched comes from the n-th message.  It is all of it when the
\* message is shorter than the carry buffer, and else a tail of it, so that one
\* message too long never spoils those after it.
LinesFollowMessages ==
  ~ Has(received, NUL) =>
    /\ Len(dispatched) <= Cardinality(Ends(received))
    /\ \A i \in Ends(received) : Nth(received, i) <= Len(dispatched) =>
         LET line == dispatched[Nth(received, i)]
             message == Message(received, i)
         IN  /\ IsSuffix(line, Chomp(message))
             /\ Len(message) < CarrySize => line = Chomp(message)

\* Nothing waits: when the session goes back to recv, every complete message
\* received has been dispatched, and what it keeps is the message in progress.
NothingWaits ==
  pc = "recv" /\ ~ Has(received, NUL) =>
    LET inProgress == Message(received, Len(received) + 1)
    IN  /\ Len(dispatched) = Cardinality(Ends(received))
        /\ Len(inProgress) < CarrySize => carry = inProgress

=============================================================================

----------------------------- MODULE AuthService -----------------------------
(***************************************************************************)
(* auth_service.c: credentials are looked up in a file that is read anew   *)
(* on every call.  Session threads and HTTP threads call it at will.  It   *)
(* takes lines apart with strtok, whose position in the string (save) is   *)
(* one variable of the C library for the whole process.                    *)
(*                                                                         *)
(* A line is the sequence of its fields (the non-empty pieces between      *)
(* colons); blank lines and comments are <<>>.                             *)
(***************************************************************************)
EXTENDS Integers, Sequences

CONSTANTS
  Threads,   \* the threads that validate credentials
  Stores,    \* contents the file can have: sequences of lines
  Requests,  \* records [user, pass]
  MaxEdits,  \* how often the file is changed in a run
  Missing,   \* there is no file
  Garbage,   \* a field equal to no other: what is left of a buffer
  Wild,      \* a pointer into a buffer that has been overwritten since, or is gone
  None       \* NULL

ASSUME EditsAssumption == MaxEdits \in Nat
ASSUME MissingAssumption == Missing \notin Stores
ASSUME RequestsAssumption == \A r \in Requests : r.user # Garbage /\ r.pass # Garbage

VARIABLES
  store,       \* the file: one of Stores, or Missing
  edits,       \* how often it has been changed
  configured,  \* g_auth_filepath is not empty
  save,        \* the position strtok goes on from
  call         \* call[t]: the validation thread t is in

file == <<store, edits>>
vars == <<file, configured, save, call>>

Roles == {"ENGINEER", "SUPERVISOR", "NONE"}

Lines == UNION {{s[i] : i \in 1 .. Len(s)} : s \in Stores}
Fields == UNION {{l[i] : i \in 1 .. Len(l)} : l \in Lines} \cup {Garbage}

ASSUME StoresAssumption == Stores \subseteq Seq(Seq(Fields))

\* A pointer to field at of the buffer of thread of; one past the last field is the
\* end of the string.  call[t].cut are the fields of t's buffer that end in a null
\* byte by now.
Places == [of : Threads, at : Nat \ {0}]
Pointers == Places \cup {Wild, None}

ASSUME PointersAssumption == Wild # None /\ {Wild, None} \cap Places = {}

\* call[t].seen is every content the file had since t's call began, and
\* call[t].alone says that no other call has overlapped it.
Calls == [pc : {"idle", "open", "read", "scan", "load", "compare", "done"},
          req : Requests \cup {None}, text : Seq(Lines), line : Lines \cup {<<>>}, cut : SUBSET (Nat \ {0}),
          ptr : Pointers, tokens : Seq(Pointers),
          verdict : Roles, alone : BOOLEAN, seen : SUBSET (Stores \cup {Missing})]

TypeOK ==
  /\ store \in Stores \cup {Missing} /\ edits \in 0 .. MaxEdits
  /\ configured \in BOOLEAN
  /\ save \in Pointers
  /\ \A t \in Threads :
       /\ call[t] \in Calls
       /\ Len(call[t].tokens) <= 3
       /\ call[t].ptr \notin {Wild, None} =>
            call[t].ptr.at <= Len(call[call[t].ptr.of].line) + 1
       /\ call[t].pc = "compare" => call[t].line # <<>> /\ Len(call[t].tokens) = 3

NoCall == [pc |-> "idle", req |-> None, text |-> <<>>, line |-> <<>>, cut |-> {}, ptr |-> None,
           tokens |-> <<>>, verdict |-> "NONE", alone |-> TRUE, seen |-> {}]

\* auth_service_init has run: a missing file has been written, unless it could
\* not be, which main does not look at.
Init ==
  /\ store \in Stores \cup {Missing} /\ edits = 0
  /\ configured = TRUE
  /\ save = None
  /\ call = [t \in Threads |-> NoCall]

-----------------------------------------------------------------------------
(* The rest of the world *)

Active(t) == call[t].pc # "idle"

\* The identity store is edited, or removed, while the server runs.
Replace(s) ==
  /\ edits < MaxEdits /\ edits' = edits + 1
  /\ s # store /\ store' = s
  /\ call' = [t \in Threads |-> IF Active(t) THEN [call[t] EXCEPT !.seen = @ \cup {s}]
                                ELSE call[t]]
  /\ UNCHANGED <<configured, save>>

\* auth_service_destroy, at the shutdown, whatever the sessions are doing.
Destroy ==
  /\ configured /\ configured' = FALSE
  /\ UNCHANGED <<file, save, call>>

-----------------------------------------------------------------------------
(* auth_service_validate *)

Call(t, r) ==
  /\ ~ Active(t)
  /\ LET alone == \A u \in Threads : ~ Active(u)
     IN  call' = [u \in Threads |->
           IF u = t THEN [NoCall EXCEPT !.pc = "open", !.req = r, !.alone = alone,
                                        !.seen = {store}]
           ELSE [call[u] EXCEPT !.alone = @ /\ ~ Active(u)]]
  /\ UNCHANGED <<file, configured, save>>

\* fopen.  The file is smaller than the stream's buffer: it is read in one go.
Open(t) ==
  /\ call[t].pc = "open"
  /\ call' = [call EXCEPT ![t] =
       IF configured /\ store # Missing
       THEN [@ EXCEPT !.pc = "read", !.text = store]
       ELSE [@ EXCEPT !.pc = "done", !.verdict = "NONE"]]
  /\ UNCHANGED <<file, configured, save>>

\* The buffer of t changes: what points into it points at something else now.
Overwritten(t, p) == IF p \notin {Wild, None} /\ p.of = t THEN Wild ELSE p

Overwrite(t, new) ==
  /\ save' = Overwritten(t, save)
  /\ call' = [u \in Threads |->
       IF u = t THEN new
       ELSE [call[u] EXCEPT !.ptr = Overwritten(t, @),
                            !.tokens = [i \in DOMAIN @ |-> Overwritten(t, @[i])]]]

\* Variant with a planted fault: the first strtok goes on from the last position.
ReadLineContinues(t) ==
  /\ call[t].pc = "read"
  /\ IF call[t].text = <<>>
     THEN /\ call' = [call EXCEPT ![t].pc = "done", ![t].verdict = "NONE"]
          /\ UNCHANGED save
     ELSE LET line == Head(call[t].text)
          IN  Overwrite(t, [call[t] EXCEPT
                !.text = Tail(@), !.line = line, !.cut = {}, !.tokens = <<>>,
                !.pc = IF line = <<>> THEN "read" ELSE IF save = None THEN "scan" ELSE "load",
                !.ptr = IF save = None THEN [of |-> t, at |-> 1] ELSE None])
  /\ UNCHANGED <<file, configured>>

\* fgets overwrites the buffer; blank lines and comments are passed over.
ReadLine(t) ==
  /\ call[t].pc = "read"
  /\ IF call[t].text = <<>>
     THEN /\ call' = [call EXCEPT ![t].pc = "done", ![t].verdict = "NONE"]
          /\ UNCHANGED save
     ELSE LET line == Head(call[t].text)
          IN  Overwrite(t, [call[t] EXCEPT
                !.text = Tail(@), !.line = line, !.cut = {}, !.tokens = <<>>,
                !.pc = IF line = <<>> THEN "read" ELSE "scan",
                !.ptr = IF line = <<>> THEN None ELSE [of |-> t, at |-> 1]])
  /\ UNCHANGED <<file, configured>>

\* strtok(NULL, ":") begins by reading where the last call has stopped.
LoadSave(t) ==
  /\ call[t].pc = "load"
  /\ call' = [call EXCEPT ![t].pc = "scan", ![t].ptr = save]
  /\ UNCHANGED <<file, configured, save>>

\* What a scan from p finds: the field there, or NULL at the end of the string;
\* either, when p is wild.
Tokens(p) ==
  IF p = Wild THEN {Wild, None}
  ELSE IF p.at > Len(call[p.of].line) THEN {None} ELSE {p}

\* Where the next call goes on after the field at p: behind its colon, which becomes
\* the end of the field; at the end of the string, if that has happened before.
After(p) ==
  [p EXCEPT !.at = IF @ \in call[p.of].cut THEN Len(call[p.of].line) + 1 ELSE @ + 1]

ScanUntil(t, n) ==
  /\ call[t].pc = "scan"
  /\ LET p == call[t].ptr
         parsed == [call EXCEPT
           ![t].ptr = None, ![t].pc = IF Len(call[t].tokens) = n - 1 THEN "compare" ELSE "load"]
     IN  \E token \in Tokens(p) :
           IF token = p /\ p # Wild
           THEN /\ save' = After(p)
                /\ call' = [parsed EXCEPT ![t].tokens = Append(@, token),
                                          ![p.of].cut = @ \cup {p.at}]
           ELSE /\ save' = p
                /\ call' = [parsed EXCEPT ![t].tokens = Append(@, token)]
  /\ UNCHANGED <<file, configured>>

\* The rest of strtok, for each of three fields.
Scan(t) == ScanUntil(t, 3)

\* What the buffer holds where a token points, when it is copied.
Content(p) == IF p = Wild THEN Fields ELSE {call[p.of].line[p.at]}

\* The role field decides only between engineers and everybody else.
RoleOf(f) == IF f = "ENGINEER" THEN "ENGINEER" ELSE "SUPERVISOR"

Compare(t) ==
  /\ call[t].pc = "compare"
  /\ LET Token(i) == call[t].tokens[i]
         Next == [call EXCEPT ![t].pc = "read"]
     IN  IF \E i \in 1 .. 3 : Token(i) = None THEN call' = Next
         ELSE \E user \in Content(Token(1)), pass \in Content(Token(2)), role \in Content(Token(3)) :
                call' = IF user = call[t].req.user /\ pass = call[t].req.pass
                        THEN [call EXCEPT ![t].pc = "done", ![t].verdict = RoleOf(role)]
                        ELSE Next
  /\ UNCHANGED <<file, configured, save>>

\* The buffer is gone with the frame it was in.
Return(t) ==
  /\ call[t].pc = "done"
  /\ Overwrite(t, NoCall)
  /\ UNCHANGED <<file, configured>>

Validate(t) == Open(t) \/ ReadLine(t) \/ LoadSave(t) \/ Scan(t) \/ Compare(t) \/ Return(t)

Next ==
  \/ \E s \in Stores \cup {Missing} : Replace(s)
  \/ Destroy
  \/ \E t \in Threads : Validate(t) \/ \E r \in Requests : Call(t, r)

Spec == Init /\ [][Next]_vars

-----------------------------------------------------------------------------
(* What a call should answer *)

\* The role on the first complete line of s with that user and password.
Granted(s, r) ==
  LET hits == {i \in 1 .. Len(s) : /\ Len(s[i]) >= 3
                                   /\ s[i][1] = r.user /\ s[i][2] = r.pass}
  IN  IF hits = {} THEN "NONE"
      ELSE RoleOf(s[CHOOSE i \in hits : \A j \in hits : i <= j][3])

\* The answer is right for a content the file had during the call; there is none
\* without a file, or once the service is destroyed.
Right(t) ==
  \/ \E s \in call[t].seen \ {Missing} : call[t].verdict = Granted(s, call[t].req)
  \/ call[t].verdict = "NONE" /\ (Missing \in call[t].seen \/ ~ configured)

\* A call that no other overlaps answers what the file says, and an edit of the
\* file is effective with the next call - whatever strtok's variable was left at by
\* the calls before it.
UndisturbedVerdictIsRight ==
  \A t \in Threads : call[t].pc = "done" /\ call[t].alone => Right(t)

\* auth_service.h: "Validate credentials against the external identity store ...
\* AUTH_ROLE_NONE (-1) if invalid credentials": every answer is right.
VerdictIsRight == \A t \in Threads : call[t].pc = "done" => Right(t)
=============================================================================

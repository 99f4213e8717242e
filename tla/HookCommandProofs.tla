-------------------------- MODULE HookCommandProofs -------------------------
(***************************************************************************)
(* Proofs about HookCommand for every number of hooks and sessions: no     *)
(* hook ends in silence, failure proofs are true, and hooks that were      *)
(* told "queued" can be read.                                              *)
(***************************************************************************)
EXTENDS HookCommand, SequenceTheorems, TLAPS

(***************************************************************************)
(* The inductive invariant.                                                *)
(***************************************************************************)

\* What the label of h's main thread says of its worker, of the result between
\* them and of the status.
Agrees(h) ==
  /\ main[h] = "start" => worker[h] = "none"
  /\ worker[h] = "ended" <=> result[h] # "none"
  /\ main[h] \in {"start", "join"} => status[h] = "none"
  /\ status[h] = "queued" => result[h] = "queued"
  /\ status[h] = "failed_open" => result[h] = "error"
  /\ main[h] \in {"after", "summarise", "truncate", "write", "inject"} =>
       status[h] = "queued"
  /\ main[h] = "prove" =>
       status[h] # "queued" /\ (status[h] = "none" => worker[h] = "none")
  /\ main[h] \in {"summarise", "truncate", "write"} =>
       input[h].kind = "precompact"

ThreadsAgree == \A h \in Hooks : Agrees(h)

\* A hook on its way out was to capture nothing, or has captured its event, or
\* has left a proof or failed to.
Accounted ==
  \A h \in Hooks :
    main[h] \in {"exit", "gone"} =>
      \/ input[h].kind = "ignored"
      \/ result[h] = "queued"
      \/ h \in unproved
      \/ \E p \in proofs : p[1] = h

\* The reason in a proof is what happened: no worker ever ran, or it failed.
ReasonsTrue ==
  \A p \in proofs :
    /\ p[2] = "unparsable" => worker[p[1]] = "none" /\ main[p[1]] # "start"
    /\ p[2] = "error" => result[p[1]] = "error"

\* The worker of h wrote all of its record; it failed, before or after.
Wrote(h)  == worker[h] = "unlock" \/ result[h] = "queued" \/ h \in late
Failed(h) == worker[h] = "error" \/ result[h] = "error"

\* The last line is that of a worker that failed, among others.
LastFailed == queue # <<>> /\ \E g \in queue[Len(queue)].who : Failed(g)

\* Who wrote what: a readable event is that of a worker that wrote all of it,
\* such an event is in the queue or an archive, and a line that is torn or not
\* terminated has bytes of a worker that failed.
LinesSound ==
  /\ open => LastFailed
  /\ \A h \in Parsed : Wrote(h)
  /\ \A h \in Hooks : Wrote(h) => h \in Captured
  /\ \A h \in late : Failed(h)
  /\ \A l \in Lines(queue) : l.torn => \E g \in l.who : Failed(g)

\* h has summarised its session after its own event was queued.
Summarised(h) ==
  /\ input[h].kind = "precompact"
  /\ result[h] = "queued"
  /\ \/ summary[h] = {}
     \/ h \in summary[h] \cup archived \cup (Captured \ Parsed)

\* h will not summarise again.
Leaving(h) == main[h] \in {"exit", "gone"}

\* A latest file, and what was injected from it, is a summary of its session.
SummariesSound ==
  /\ \A h \in Hooks : main[h] \in {"truncate", "write"} => Summarised(h)
  /\ \A s \in Sessions :
       latest[s] \notin {Nobody, "torn"} =>
         /\ SessionOf(latest[s]) = s
         /\ Summarised(latest[s])
         /\ Leaving(latest[s])
  /\ \A h \in Hooks :
       output[h] # Nobody =>
         /\ SessionOf(output[h]) = SessionOf(h)
         /\ Summarised(output[h])
         /\ Leaving(output[h])

CaptureInv ==
  TypeOK /\ ThreadsAgree /\ Accounted /\ ReasonsTrue /\ LinesSound /\ SummariesSound

----------------------------------------------------------------------------
(***************************************************************************)
(* Lines.                                                                  *)
(***************************************************************************)

LineType == [who : SUBSET Hooks, torn : BOOLEAN]

\* The lines of a file are its elements; the last one is one of them.
LEMMA LineOf ==
  ASSUME NEW q \in Seq(LineType)
  PROVE  /\ Len(q) \in Nat
         /\ \A k \in 1 .. Len(q) : q[k] \in LineType /\ q[k] \in Lines(q)
         /\ \A l \in Lines(q) : l \in LineType /\ \E k \in 1 .. Len(q) : l = q[k]
         /\ q # <<>> => Len(q) \in 1 .. Len(q)
BY LenProperties, ElementOfSeq, EmptySeq DEF Lines

\* One line is added at the end of a file that is terminated.
LEMMA AppendedLine ==
  ASSUME NEW q \in Seq(LineType), NEW x \in LineType
  PROVE  /\ Append(q, x) \in Seq(LineType)
         /\ Append(q, x) # <<>>
         /\ Append(q, x)[Len(Append(q, x))] = x
         /\ Lines(Append(q, x)) = Lines(q) \cup {x}
<1>. DEFINE r == Append(q, x)
<1>1. /\ r \in Seq(LineType) /\ Len(q) \in Nat
      /\ Len(r) = Len(q) + 1
      /\ \A k \in 1 .. Len(q) : r[k] = q[k]
      /\ r[Len(q) + 1] = x
  BY LenProperties, AppendProperties
<1>. HIDE DEF r
<1>2. \A k : k \in 1 .. Len(r) <=> k \in 1 .. Len(q) \/ k = Len(q) + 1
  BY <1>1
<1>3. Lines(r) = Lines(q) \cup {x}
  BY <1>1, <1>2 DEF Lines
<1>4. r # <<>> /\ r[Len(r)] = x
  BY <1>1, EmptySeq
<1>. QED
  BY <1>1, <1>3, <1>4 DEF r

Glued(q, x) == [q EXCEPT ![Len(q)] = x]

\* Bytes behind an unterminated line replace the last line by a longer one.
LEMMA GluedLine ==
  ASSUME NEW q \in Seq(LineType), q # <<>>, NEW x \in LineType
  PROVE  /\ Glued(q, x) \in Seq(LineType)
         /\ Glued(q, x) # <<>>
         /\ Glued(q, x)[Len(Glued(q, x))] = x
         /\ Lines(Glued(q, x)) \subseteq Lines(q) \cup {x}
         /\ Lines(q) \subseteq Lines(Glued(q, x)) \cup {q[Len(q)]}
         /\ x \in Lines(Glued(q, x))
<1>. DEFINE r == Glued(q, x)
<1>1. Len(q) \in 1 .. Len(q)
  BY LineOf
<1>2. /\ r \in Seq(LineType) /\ Len(r) = Len(q)
      /\ \A k \in 1 .. Len(q) : r[k] = IF k = Len(q) THEN x ELSE q[k]
  BY <1>1, ExceptSeq DEF Glued
<1>. HIDE DEF r
<1>3. r # <<>> /\ r[Len(r)] = x
  BY <1>1, <1>2, EmptySeq
<1>4. Lines(r) \subseteq Lines(q) \cup {x}
  BY <1>2 DEF Lines
<1>5. Lines(q) \subseteq Lines(r) \cup {q[Len(q)]}
  BY <1>2 DEF Lines
<1>6. x \in Lines(r)
  BY <1>1, <1>2 DEF Lines
<1>. QED
  BY <1>2, <1>3, <1>4, <1>5, <1>6 DEF r

\* What an append leaves: a last line with h in it, which is torn if the line
\* before was unterminated or the record is not whole.
LEMMA AppendEffect ==
  ASSUME TypeOK, LinesSound, NEW h \in Hooks, NEW whole \in BOOLEAN,
         queue' = Appended(h, whole), UNCHANGED archived
  PROVE  /\ queue' \in Seq(LineType)
         /\ queue' # <<>>
         /\ h \in queue'[Len(queue')].who
         /\ Captured' = Captured \cup {h}
         /\ Parsed' \subseteq Parsed \cup {h}
         /\ ~whole => Parsed' \subseteq Parsed
         /\ \A l \in Lines(queue') :
              \/ l \in Lines(queue)
              \/ ~whole /\ l.who = {h}
              \/ open /\ queue[Len(queue)].who \subseteq l.who
              \/ ~l.torn
<1>1. queue \in Seq(LineType)
  BY DEF TypeOK, LineType
<1>2. CASE open
  <2>. DEFINE last == queue[Len(queue)]
              x    == [who |-> last.who \cup {h}, torn |-> TRUE]
  <2>1. queue # <<>> /\ last \in LineType /\ last \in Lines(queue)
    BY <1>1, <1>2, LineOf DEF LinesSound, LastFailed
  <2>2. x \in LineType /\ x.torn /\ x.who = last.who \cup {h}
    BY <2>1 DEF LineType
  <2>3. queue' = Glued(queue, x)
    BY <1>1, <1>2, <2>1, LineOf DEF Appended, Glued
  <2>. HIDE DEF x
  <2>. HIDE DEF last
  <2>4. /\ queue' \in Seq(LineType) /\ queue' # <<>>
        /\ queue'[Len(queue')] = x
        /\ Lines(queue') \subseteq Lines(queue) \cup {x}
        /\ Lines(queue) \subseteq Lines(queue') \cup {last}
        /\ x \in Lines(queue')
    <3>1. queue # <<>> /\ x \in LineType
      BY <2>1, <2>2
    <3>2. /\ Glued(queue, x) \in Seq(LineType)
          /\ Glued(queue, x) # <<>>
          /\ Glued(queue, x)[Len(Glued(queue, x))] = x
          /\ Lines(Glued(queue, x)) \subseteq Lines(queue) \cup {x}
          /\ Lines(queue) \subseteq Lines(Glued(queue, x)) \cup {queue[Len(queue)]}
          /\ x \in Lines(Glued(queue, x))
      BY <1>1, <3>1, GluedLine
    <3>. QED
      BY <2>3, <3>2 DEF last
  <2>5. Captured' = Captured \cup {h}
    BY <2>1, <2>2, <2>4 DEF Captured
  <2>6. Parsed' \subseteq Parsed
    BY <2>2, <2>4 DEF Parsed
  <2>7. ASSUME NEW l \in Lines(queue'), l \notin Lines(queue)
        PROVE  queue[Len(queue)].who \subseteq l.who
    <3>1. l = x
      BY <2>4, <2>7
    <3>. QED
      BY <2>2, <3>1 DEF last
  <2>. QED
    BY <1>2, <2>2, <2>4, <2>5, <2>6, <2>7
<1>3. CASE ~open
  <2>. DEFINE x == [who |-> {h}, torn |-> ~whole]
  <2>1. x \in LineType /\ x.who = {h} /\ (x.torn <=> ~whole)
    BY DEF LineType
  <2>2. queue' = Append(queue, x)
    BY <1>3 DEF Appended
  <2>. HIDE DEF x
  <2>3. /\ queue' \in Seq(LineType) /\ queue' # <<>>
        /\ queue'[Len(queue')] = x
        /\ Lines(queue') = Lines(queue) \cup {x}
    BY <1>1, <2>1, <2>2, AppendedLine
  <2>4. Captured' = Captured \cup {h}
    BY <2>1, <2>3 DEF Captured
  <2>5. Parsed' = IF ~whole THEN Parsed ELSE Parsed \cup {h}
    BY <2>1, <2>3 DEF Parsed
  <2>6. ASSUME NEW l \in Lines(queue'), l \notin Lines(queue)
        PROVE  (l.torn /\ ~whole /\ l.who = {h}) \/ ~l.torn
    <3>1. l = x
      BY <2>3, <2>6
    <3>. QED
      BY <2>1, <3>1
  <2>. QED
    BY <1>3, <2>1, <2>3, <2>4, <2>5, <2>6
<1>. QED
  BY <1>2, <1>3

\* A rotation moves parsed lines from the front of the queue to an archive:
\* nobody's event is lost or becomes readable, and the last line stays if it
\* is not terminated.
LEMMA RotationEffect ==
  ASSUME TypeOK, RotationMoves
  PROVE  /\ queue' \in Seq(LineType)
         /\ archived \subseteq archived' /\ archived' \subseteq Hooks
         /\ Captured' = Captured
         /\ Parsed' = Parsed
         /\ Lines(queue') \subseteq Lines(queue)
         /\ open' \in BOOLEAN
         /\ open' => open /\ queue' # <<>>
                         /\ queue'[Len(queue')] = queue[Len(queue)]
<1>1. queue \in Seq(LineType) /\ archived \subseteq Hooks /\ Len(queue) \in Nat
  BY LenProperties DEF TypeOK, LineType
<1>2. PICK n \in 0 .. Len(queue) :
        /\ \A k \in 1 .. n : ~queue[k].torn
        /\ queue' = SubSeq(queue, n + 1, Len(queue))
        /\ archived' = archived \cup UNION {queue[k].who : k \in 1 .. n}
        /\ open' = (open /\ n < Len(queue))
  BY DEF RotationMoves
<1>3. \A k \in n + 1 .. Len(queue) : queue[k] \in LineType
  BY <1>1, <1>2, LineOf
<1>4. /\ queue' \in Seq(LineType)
      /\ Len(queue') = Len(queue) - n
      /\ \A k \in 1 .. Len(queue) - n : queue'[k] = queue[n + k]
  <2>1. /\ queue' \in Seq(LineType)
        /\ Len(queue') = IF n + 1 <= Len(queue) THEN Len(queue) - (n + 1) + 1 ELSE 0
        /\ \A k \in 1 .. Len(queue) - (n + 1) + 1 : queue'[k] = queue[n + 1 + k - 1]
    BY <1>1, <1>2, <1>3, SubSeqProperties
  <2>2. \A k \in 1 .. Len(queue) - n : n + 1 + k - 1 = n + k
    BY <1>1, <1>2
  <2>3. Len(queue) - (n + 1) + 1 = Len(queue) - n
    BY <1>1, <1>2
  <2>4. Len(queue') = Len(queue) - n
    BY <1>1, <1>2, <2>1
  <2>. QED
    BY <2>1, <2>2, <2>3, <2>4
<1>5. \A l \in Lines(queue') : l \in Lines(queue)
  <2>. SUFFICES ASSUME NEW k \in 1 .. Len(queue') PROVE queue'[k] \in Lines(queue)
    BY DEF Lines
  <2>1. n + k \in 1 .. Len(queue) /\ queue'[k] = queue[n + k]
    BY <1>1, <1>2, <1>4
  <2>. QED
    BY <1>1, <2>1, LineOf
<1>6. \A l \in Lines(queue) :
        l \in Lines(queue') \/ (~l.torn /\ \E k \in 1 .. n : l = queue[k])
  <2>. SUFFICES ASSUME NEW j \in 1 .. Len(queue)
                PROVE  \/ queue[j] \in Lines(queue')
                       \/ ~queue[j].torn /\ \E k \in 1 .. n : queue[j] = queue[k]
    BY DEF Lines
  <2>1. CASE j <= n
    BY <1>2, <2>1
  <2>2. CASE ~(j <= n)
    <3>1. j - n \in 1 .. Len(queue') /\ n + (j - n) = j
      BY <1>1, <1>2, <1>4, <2>2
    <3>2. queue'[j - n] = queue[j]
      BY <1>4, <3>1
    <3>3. queue'[j - n] \in Lines(queue')
      BY <1>4, <3>1, LineOf
    <3>. QED
      BY <3>2, <3>3
  <2>. QED
    BY <2>1, <2>2
<1>7. \A k \in 1 .. n : queue[k] \in LineType /\ queue[k] \in Lines(queue) /\ ~queue[k].torn
  <2>1. \A k \in 1 .. n : k \in 1 .. Len(queue)
    BY <1>1, <1>2
  <2>. QED
    BY <1>1, <1>2, <2>1, LineOf
<1>8. archived \subseteq archived' /\ archived' \subseteq Hooks
  BY <1>1, <1>2, <1>7 DEF LineType
<1>9. Captured' = Captured
  BY <1>2, <1>5, <1>6, <1>7 DEF Captured
<1>10. Parsed' = Parsed
  BY <1>2, <1>5, <1>6, <1>7 DEF Parsed
<1>11. ASSUME open'
       PROVE  open /\ queue' # <<>> /\ queue'[Len(queue')] = queue[Len(queue)]
  <2>2. open /\ n < Len(queue)
    BY <1>2, <1>11
  <2>3. Len(queue) - n \in 1 .. Len(queue) - n /\ n + (Len(queue) - n) = Len(queue)
    BY <1>1, <1>2, <2>2
  <2>4. queue'[Len(queue')] = queue[Len(queue)]
    BY <1>4, <2>3
  <2>5. queue' # <<>>
    BY <1>4, <2>3, EmptySeq
  <2>. QED
    BY <2>2, <2>4, <2>5
<1>12. open' \in BOOLEAN
  BY <1>2
<1>. QED
  BY <1>4, <1>5, <1>8, <1>9, <1>10, <1>11, <1>12

----------------------------------------------------------------------------
(***************************************************************************)
(* Type correctness and the lock.                                          *)
(***************************************************************************)

\* A hook's payload has a kind and a session.
LEMMA PayloadType ==
  ASSUME TypeOK, NEW h \in Hooks
  PROVE  SessionOf(h) \in Sessions /\ input[h].kind \in Kinds
<1>1. input[h] \in [kind : Kinds, session : Sessions]
  BY DEF TypeOK
<1>. QED
  BY <1>1 DEF SessionOf

\* Those whose events are in the queue or were archived are hooks.
LEMMA CapturedType ==
  ASSUME TypeOK
  PROVE  Captured \subseteq Hooks /\ Parsed \subseteq Hooks
         /\ \A s \in Sessions : SessionEvents(s) \subseteq Hooks
<1>1. queue \in Seq(LineType) /\ archived \subseteq Hooks
  BY DEF TypeOK, LineType
<1>2. \A l \in Lines(queue) : l.who \subseteq Hooks
  BY <1>1, LineOf DEF LineType
<1>. QED
  BY <1>1, <1>2 DEF Captured, Parsed, SessionEvents

\* At first every main thread is at its start and no file has content.
LEMMA TypeInit == Init => TypeOK
<1>. SUFFICES ASSUME Init PROVE TypeOK
  OBVIOUS
<1>1. input \in [Hooks -> [kind : Kinds, session : Sessions]]
  BY HookCommandAssumption DEF Init
<1>2. queue \in Seq(LineType)
  BY EmptySeq DEF Init
<1>3. \A h \in Hooks : lock # h
  BY HookCommandAssumption DEF Init
<1>. QED
  BY <1>1, <1>2, <1>3
  DEF Init, TypeOK, MainLabels, WorkerLabels, Alive, LineType

\* A main thread that goes on, with its worker where it was, agrees with the
\* lock as before.
LEMMA MainGoes ==
  ASSUME TypeOK, NEW h \in Hooks, NEW l \in MainLabels \ {"start", "gone"},
         Alive(h), Goto(h, l), UNCHANGED <<worker, lock>>
  PROVE  /\ main' \in [Hooks -> MainLabels]
         /\ \A g \in Hooks :
              Alive(g)' /\ worker'[g] \in {"append", "unlock", "error"} <=> lock' = g
<1>1. main' \in [Hooks -> MainLabels]
  BY DEF TypeOK, Goto
<1>2. \A g \in Hooks : Alive(g)' <=> Alive(g)
  BY DEF TypeOK, Goto, Alive
<1>. QED
  BY <1>1, <1>2 DEF TypeOK

\* The steps of a main thread keep the types; at its end the lock of its worker
\* is given back.
LEMMA TypeMain ==
  ASSUME TypeOK, ThreadsAgree, NEW h \in Hooks, Main(h)
  PROVE  TypeOK'
<1>. USE DEF threads, store, proof, context
<1>0. Nobody \notin Hooks /\ h \in Hooks
  BY HookCommandAssumption
<1>1. CASE Begin(h)
  <2>1. main[h] = "start" /\ worker[h] = "none"
    BY <1>1 DEF Begin, ThreadsAgree, Agrees
  <2>2. lock # h
    BY <2>1 DEF TypeOK
  <2>3. main' \in [Hooks -> MainLabels] /\ worker' \in [Hooks -> WorkerLabels]
    <3>1. PICK l \in {"exit", "prove", "join"} : Goto(h, l)
      BY <1>1 DEF Begin
    <3>2. main' \in [Hooks -> MainLabels]
      BY <3>1 DEF Goto, TypeOK, MainLabels
    <3>3. worker' = worker \/ worker' = [worker EXCEPT ![h] = "normalize"]
      BY <1>1 DEF Begin
    <3>4. worker' \in [Hooks -> WorkerLabels]
      BY <3>3 DEF TypeOK, WorkerLabels
    <3>. QED
      BY <3>2, <3>4
  <2>4. worker'[h] \in {"none", "normalize"} /\ \A g \in Hooks \ {h} : worker'[g] = worker[g] /\ main'[g] = main[g]
    BY <1>1, <2>1 DEF Begin, Goto, TypeOK
  <2>5. \A g \in Hooks :
          Alive(g)' /\ worker'[g] \in {"append", "unlock", "error"} <=> lock' = g
    <3>1. lock' = lock
      BY <1>1 DEF Begin
    <3>. QED
      BY <2>2, <2>4, <3>1 DEF TypeOK, Alive
  <2>. QED
    BY <1>1, <2>3, <2>5 DEF Begin, TypeOK
<1>2. CASE Join(h)
  <2>1. PICK l \in {"after", "prove"} : Goto(h, l)
    BY <1>2 DEF Join, Collect, TimeOut
  <2>2. Alive(h) /\ l \in MainLabels \ {"start", "gone"}
    BY <1>2 DEF Join, Alive, MainLabels
  <2>3. status' \in [Hooks -> {"none", "queued", "failed_open", "failed_open_timeout"}]
    BY <1>2 DEF Join, Collect, TimeOut, TypeOK
  <2>. QED
    BY <1>2, <2>1, <2>2, <2>3, MainGoes DEF Join, TypeOK
<1>3. CASE Prove(h)
  <2>1. Goto(h, "exit") /\ Alive(h) /\ "exit" \in MainLabels \ {"start", "gone"}
    BY <1>3 DEF Prove, Alive, MainLabels
  <2>2. status[h] # "queued" /\ status[h] \in {"none", "queued", "failed_open", "failed_open_timeout"}
    BY <1>3 DEF Prove, ThreadsAgree, Agrees, TypeOK
  <2>3. Reason(h) \in {"unparsable", "capture_timeout", "error"}
    BY <2>2 DEF Reason
  <2>4. proofs' \subseteq (Hooks \X {"unparsable", "capture_timeout", "error"}) /\ unproved' \subseteq Hooks
    BY <1>3, <2>3 DEF Prove, TypeOK
  <2>. QED
    BY <1>3, <2>1, <2>4, MainGoes DEF Prove, TypeOK
<1>4. CASE After(h)
  <2>1. PICK l \in {"summarise", "inject", "exit"} : Goto(h, l)
    BY <1>4 DEF After
  <2>2. Alive(h) /\ l \in MainLabels \ {"start", "gone"}
    BY <1>4 DEF After, Alive, MainLabels
  <2>. QED
    BY <1>4, <2>1, <2>2, MainGoes DEF After, TypeOK
<1>5. CASE Summarise(h)
  <2>1. Goto(h, "truncate") /\ Alive(h) /\ "truncate" \in MainLabels \ {"start", "gone"}
    BY <1>5 DEF Summarise, Alive, MainLabels
  <2>2. SessionEvents(SessionOf(h)) \subseteq Hooks
    BY CapturedType, PayloadType
  <2>3. summary' \in [Hooks -> SUBSET Hooks]
    BY <1>5, <2>2 DEF Summarise, TypeOK
  <2>. QED
    BY <1>5, <2>1, <2>3, MainGoes DEF Summarise, TypeOK
<1>6. CASE TruncateLatest(h)
  <2>1. Goto(h, "write") /\ Alive(h) /\ "write" \in MainLabels \ {"start", "gone"}
    BY <1>6 DEF TruncateLatest, Alive, MainLabels
  <2>2. latest' \in [Sessions -> Hooks \cup {Nobody, "torn"}]
    BY <1>6 DEF TruncateLatest, TypeOK
  <2>. QED
    BY <1>6, <2>1, <2>2, MainGoes DEF TruncateLatest, TypeOK
<1>7. CASE WriteLatest(h)
  <2>1. Goto(h, "exit") /\ Alive(h) /\ "exit" \in MainLabels \ {"start", "gone"}
    BY <1>7 DEF WriteLatest, Alive, MainLabels
  <2>2. latest' \in [Sessions -> Hooks \cup {Nobody, "torn"}]
    BY <1>7 DEF WriteLatest, TypeOK
  <2>. QED
    BY <1>7, <2>1, <2>2, MainGoes DEF WriteLatest, TypeOK
<1>8. CASE Inject(h)
  <2>1. Goto(h, "exit") /\ Alive(h) /\ "exit" \in MainLabels \ {"start", "gone"}
    BY <1>8 DEF Inject, Alive, MainLabels
  <2>2. output' \in [Hooks -> Hooks \cup {Nobody}]
    BY <1>8, PayloadType DEF Inject, TypeOK
  <2>. QED
    BY <1>8, <2>1, <2>2, MainGoes DEF Inject, TypeOK
<1>9. CASE Swallow(h)
  <2>1. Goto(h, "exit") /\ Alive(h) /\ "exit" \in MainLabels \ {"start", "gone"}
    BY <1>9 DEF Swallow, Alive, MainLabels
  <2>. QED
    BY <1>9, <2>1, MainGoes DEF Swallow, TypeOK
<1>10. CASE Exit(h)
  <2>1. main' \in [Hooks -> MainLabels] /\ lock' \in Hooks \cup {Rotation, Nobody}
    BY <1>10 DEF Exit, Goto, TypeOK, MainLabels
  <2>2. \A g \in Hooks :
          Alive(g)' /\ worker'[g] \in {"append", "unlock", "error"} <=> lock' = g
    <3>1. /\ main'[h] = "gone" /\ \A g \in Hooks \ {h} : main'[g] = main[g]
          /\ worker' = worker /\ lock' = IF lock = h THEN Nobody ELSE lock
      BY <1>10 DEF Exit, Goto, TypeOK
    <3>2. ~Alive(h)' /\ lock' # h
      BY <1>0, <3>1 DEF Alive
    <3>3. ASSUME NEW g \in Hooks \ {h}
          PROVE  (Alive(g)' <=> Alive(g)) /\ (lock' = g <=> lock = g)
      BY <1>0, <3>1 DEF Alive
    <3>. QED
      BY <3>1, <3>2, <3>3 DEF TypeOK
  <2>. QED
    BY <1>10, <2>1, <2>2 DEF Exit, TypeOK
<1>. QED
  BY <1>1, <1>2, <1>3, <1>4, <1>5, <1>6, <1>7, <1>8, <1>9, <1>10 DEF Main

\* The steps of a worker keep the types; it is inside the locked section
\* exactly while it holds the lock.
LEMMA TypeWorker ==
  ASSUME TypeOK, LinesSound, NEW h \in Hooks, Worker(h)
  PROVE  TypeOK'
<1>. USE DEF threads, store, proof, context
<1>0. Nobody \notin Hooks
  BY HookCommandAssumption
<1>1. CASE Normalize(h)
  <2>1. worker' \in [Hooks -> WorkerLabels] /\ result' \in [Hooks -> {"none", "queued", "error"}]
    <3>1. CASE Step(h, "normalize", "ended") /\ Put(h, "error")
      BY <3>1 DEF Step, Put, TypeOK, WorkerLabels
    <3>2. CASE Step(h, "normalize", "lock") /\ UNCHANGED result
      BY <3>2 DEF Step, TypeOK, WorkerLabels
    <3>. QED
      BY <1>1, <3>1, <3>2 DEF Normalize
  <2>2. \A g \in Hooks :
          Alive(g)' /\ worker'[g] \in {"append", "unlock", "error"} <=> lock' = g
    BY <1>1 DEF Normalize, Step, TypeOK, Alive
  <2>. QED
    BY <1>1, <2>1, <2>2 DEF Normalize, TypeOK
<1>2. CASE TakeLock(h)
  <2>1. worker' \in [Hooks -> WorkerLabels]
    BY <1>2 DEF TakeLock, Step, TypeOK, WorkerLabels
  <2>2. \A g \in Hooks :
          Alive(g)' /\ worker'[g] \in {"append", "unlock", "error"} <=> lock' = g
    BY <1>0, <1>2 DEF TakeLock, Step, TypeOK, Alive
  <2>. QED
    BY <1>2, <2>1, <2>2 DEF TakeLock, TypeOK
<1>3. CASE AppendRecord(h)
  <2>1. worker' \in [Hooks -> WorkerLabels]
    BY <1>3 DEF AppendRecord, Step, TypeOK, WorkerLabels
  <2>2. \A g \in Hooks :
          Alive(g)' /\ worker'[g] \in {"append", "unlock", "error"} <=> lock' = g
    BY <1>3 DEF AppendRecord, Step, TypeOK, Alive
  <2>3. queue' \in Seq(LineType)
    BY <1>3, AppendEffect DEF AppendRecord
  <2>. QED
    BY <1>3, <2>1, <2>2, <2>3 DEF AppendRecord, TypeOK, LineType
<1>4. CASE AppendError(h)
  <2>1. worker' \in [Hooks -> WorkerLabels]
    BY <1>4 DEF AppendError, Step, TypeOK, WorkerLabels
  <2>2. \A g \in Hooks :
          Alive(g)' /\ worker'[g] \in {"append", "unlock", "error"} <=> lock' = g
    BY <1>4 DEF AppendError, Step, TypeOK, Alive
  <2>3. queue' \in Seq(LineType) /\ open' \in BOOLEAN
    BY <1>4, AppendEffect, HookCommandAssumption DEF AppendError, TypeOK, LineType
  <2>. QED
    BY <1>4, <2>1, <2>2, <2>3 DEF AppendError, TypeOK, LineType
<1>5. CASE Unlock(h)
  <2>1. worker' \in [Hooks -> WorkerLabels] /\ result' \in [Hooks -> {"none", "queued", "error"}]
    BY <1>5 DEF Unlock, Step, Put, TypeOK, WorkerLabels
  <2>2. lock = h /\ lock' = Nobody /\ worker'[h] = "ended"
        /\ \A g \in Hooks \ {h} : worker'[g] = worker[g]
    BY <1>5 DEF Unlock, Step, TypeOK
  <2>3. \A g \in Hooks :
          Alive(g)' /\ worker'[g] \in {"append", "unlock", "error"} <=> lock' = g
    BY <1>0, <1>5, <2>2 DEF Unlock, TypeOK, Alive
  <2>. QED
    BY <1>5, <2>1, <2>2, <2>3 DEF Unlock, TypeOK
<1>. QED
  BY <1>1, <1>2, <1>3, <1>4, <1>5 DEF Worker

\* So do the steps of a rotation, which is not a hook.
LEMMA TypeRotation ==
  ASSUME TypeOK, RotationTakes \/ RotationMoves \/ RotationEnds
  PROVE  TypeOK'
<1>. USE DEF threads, store, proof, context
<1>0. Nobody \notin Hooks /\ Rotation \notin Hooks
  BY HookCommandAssumption
<1>1. CASE RotationTakes
  BY <1>0, <1>1 DEF RotationTakes, TypeOK, Alive
<1>2. CASE RotationMoves
  <2>1. queue' \in Seq(LineType) /\ archived' \subseteq Hooks
    BY <1>2, RotationEffect
  <2>. QED
    BY <1>2, <2>1 DEF RotationMoves, TypeOK, Alive, LineType
<1>3. CASE RotationEnds
  BY <1>0, <1>3 DEF RotationEnds, TypeOK, Alive
<1>. QED
  BY <1>1, <1>2, <1>3

----------------------------------------------------------------------------
(***************************************************************************)
(* The threads of a hook.                                                  *)
(***************************************************************************)

\* A step of one hook leaves the threads of the others where they are.
LEMMA OthersStay ==
  ASSUME TypeOK, NEW h \in Hooks, Main(h) \/ Worker(h)
  PROVE  /\ input' = input
         /\ \A g \in Hooks \ {h} :
              /\ main'[g] = main[g] /\ worker'[g] = worker[g]
              /\ result'[g] = result[g] /\ status'[g] = status[g]
              /\ summary'[g] = summary[g] /\ output'[g] = output[g]
<1>. USE DEF TypeOK, Goto, Step, Put, threads, store, proof, context
<1>1. CASE Main(h)
  <2>1. CASE Begin(h)
    BY <2>1 DEF Begin
  <2>2. CASE Join(h)
    BY <2>2 DEF Join, Collect, TimeOut
  <2>3. CASE Prove(h)
    BY <2>3 DEF Prove
  <2>4. CASE After(h) \/ Summarise(h) \/ TruncateLatest(h)
    BY <2>4 DEF After, Summarise, TruncateLatest
  <2>5. CASE WriteLatest(h) \/ Inject(h) \/ Swallow(h) \/ Exit(h)
    BY <2>5 DEF WriteLatest, Inject, Swallow, Exit
  <2>. QED
    BY <1>1, <2>1, <2>2, <2>3, <2>4, <2>5 DEF Main
<1>2. CASE Worker(h)
  <2>1. CASE Normalize(h) \/ TakeLock(h)
    BY <2>1 DEF Normalize, TakeLock
  <2>2. CASE AppendRecord(h) \/ AppendError(h)
    BY <2>2 DEF AppendRecord, AppendError
  <2>3. CASE Unlock(h)
    BY <2>3 DEF Unlock
  <2>. QED
    BY <1>2, <2>1, <2>2, <2>3 DEF Worker
<1>. QED
  BY <1>1, <1>2

\* The main thread of h moves on.
LEMMA MainAgrees ==
  ASSUME TypeOK, NEW h \in Hooks, Agrees(h), Main(h)
  PROVE  Agrees(h)'
<1>. USE DEF Agrees, TypeOK, Goto, threads, store, proof, context
<1>1. CASE Begin(h)
  BY <1>1 DEF Begin
<1>2. CASE Join(h)
  <2>1. CASE Collect(h)
    BY <1>2, <2>1 DEF Join, Collect
  <2>2. CASE TimeOut(h, "prove")
    BY <1>2, <2>2 DEF Join, TimeOut
  <2>. QED
    BY <1>2, <2>1, <2>2 DEF Join
<1>3. CASE Prove(h)
  BY <1>3 DEF Prove
<1>4. CASE After(h)
  BY <1>4 DEF After
<1>5. CASE Summarise(h) \/ TruncateLatest(h)
  BY <1>5 DEF Summarise, TruncateLatest
<1>6. CASE WriteLatest(h) \/ Inject(h)
  BY <1>6 DEF WriteLatest, Inject
<1>7. CASE Swallow(h) \/ Exit(h)
  BY <1>7 DEF Swallow, Exit
<1>. QED
  BY <1>1, <1>2, <1>3, <1>4, <1>5, <1>6, <1>7 DEF Main

\* The worker of h moves on: the main thread may already have given up on it.
LEMMA WorkerAgrees ==
  ASSUME TypeOK, NEW h \in Hooks, Agrees(h), Worker(h)
  PROVE  Agrees(h)'
<1>. USE DEF Agrees, TypeOK, Step, Put, threads, store, proof, context
<1>1. CASE Normalize(h)
  BY <1>1 DEF Normalize, Alive
<1>2. CASE TakeLock(h)
  BY <1>2 DEF TakeLock, Alive
<1>3. CASE AppendRecord(h) \/ AppendError(h)
  BY <1>3 DEF AppendRecord, AppendError, Alive
<1>4. CASE Unlock(h)
  BY <1>4 DEF Unlock, Alive
<1>. QED
  BY <1>1, <1>2, <1>3, <1>4 DEF Worker

\* Every step keeps the threads of each hook in agreement.
LEMMA ThreadsStep ==
  ASSUME TypeOK, ThreadsAgree, NEW h \in Hooks, Main(h) \/ Worker(h)
  PROVE  ThreadsAgree'
<1>1. \A g \in Hooks : Agrees(g)
  BY DEF ThreadsAgree
<1>2. Agrees(h)'
  BY <1>1, MainAgrees, WorkerAgrees
<1>3. \A g \in Hooks \ {h} : Agrees(g)'
  BY <1>1, OthersStay DEF Agrees
<1>. QED
  BY <1>2, <1>3 DEF ThreadsAgree

\* Once there is a result it stays, as does a worker that never ran.
LEMMA ResultStays ==
  ASSUME TypeOK, ThreadsAgree, NEW h \in Hooks, Main(h) \/ Worker(h), NEW g \in Hooks
  PROVE  /\ result[g] # "none" => result'[g] = result[g]
         /\ worker[g] = "none" /\ main[g] # "start" =>
              worker'[g] = "none" /\ main'[g] # "start"
<1>1. CASE g # h
  BY <1>1, OthersStay
<1>2. CASE g = h
  <2>. USE DEF TypeOK, Goto, Step, Put, threads, store, proof, context
  <2>1. CASE Main(h)
    <3>1. result' = result
      BY <2>1 DEF Main, Begin, Join, Prove, After, Summarise, TruncateLatest,
                  WriteLatest, Inject, Swallow, Exit
    <3>2. CASE Begin(h)
      BY <1>2, <3>1, <3>2 DEF Begin
    <3>3. CASE ~Begin(h)
      <4>1. worker' = worker
        BY <2>1, <3>3 DEF Main, Join, Prove, After, Summarise, TruncateLatest,
                  WriteLatest, Inject, Swallow, Exit
      <4>2. \E l \in MainLabels \ {"start"} : Goto(h, l)
        BY <2>1, <3>3 DEF Main, Join, Collect, TimeOut, Prove, After, Summarise,
                  TruncateLatest, WriteLatest, Inject, Swallow, Exit, MainLabels
      <4>3. main'[h] # "start"
        BY <4>2
      <4>. QED
        BY <1>2, <3>1, <4>1, <4>3
    <3>. QED
      BY <3>2, <3>3
  <2>2. CASE Worker(h)
    <3>1. worker[h] \notin {"none", "ended"}
      BY <2>2 DEF Worker, Normalize, TakeLock, AppendRecord, AppendError, Unlock
    <3>2. result[h] = "none"
      BY <3>1 DEF ThreadsAgree, Agrees
    <3>. QED
      BY <1>2, <3>1, <3>2
  <2>. QED
    BY <2>1, <2>2
<1>. QED
  BY <1>1, <1>2

----------------------------------------------------------------------------
(***************************************************************************)
(* No hook ends in silence, and no proof lies.                             *)
(***************************************************************************)

\* Proofs and notes of failed proofs only grow.
LEMMA ProofsGrow ==
  ASSUME NEW h \in Hooks, Main(h) \/ Worker(h)
  PROVE  proofs \subseteq proofs' /\ unproved \subseteq unproved'
BY DEF Main, Begin, Join, Prove, After, Summarise, TruncateLatest, WriteLatest,
       Inject, Swallow, Exit, Worker, Normalize, TakeLock, AppendRecord,
       AppendError, Unlock, threads, store, proof, context

\* Every way out of the main thread accounts for the event.
LEMMA AccountedStep ==
  ASSUME TypeOK, ThreadsAgree, Accounted, NEW h \in Hooks, Main(h) \/ Worker(h)
  PROVE  Accounted'
<1>. DEFINE Settled(g) == \/ input[g].kind = "ignored"
                          \/ result[g] = "queued"
                          \/ g \in unproved
                          \/ \E p \in proofs : p[1] = g
<1>1. ASSUME NEW g \in Hooks, Settled(g)
      PROVE  Settled(g)'
  BY <1>1, OthersStay, ResultStays, ProofsGrow
<1>2. \A g \in Hooks \ {h} : main'[g] = main[g]
  BY OthersStay
<1>3. ASSUME main'[h] \in {"exit", "gone"}, main[h] \notin {"exit", "gone"}
      PROVE  Settled(h)'
  <2>. USE DEF TypeOK, Goto
  <2>1. Main(h)
    BY <1>3 DEF Worker, Normalize, TakeLock, AppendRecord, AppendError, Unlock
  <2>2. CASE Begin(h)
    BY <1>3, <2>2 DEF Begin
  <2>3. CASE Prove(h)
    <3>1. h \in unproved' \/ <<h, Reason(h)>> \in proofs'
      BY <2>3 DEF Prove
    <3>. QED
      BY <3>1
  <2>4. CASE After(h) \/ Inject(h) \/ WriteLatest(h) \/ Swallow(h)
    <3>1. status[h] = "queued"
      BY <2>4 DEF After, Inject, WriteLatest, Swallow, ThreadsAgree, Agrees
    <3>2. result[h] = "queued"
      BY <3>1 DEF ThreadsAgree, Agrees
    <3>. QED
      BY <1>1, <3>2
  <2>5. CASE Join(h) \/ Summarise(h) \/ TruncateLatest(h) \/ Exit(h)
    BY <1>3, <2>5 DEF Join, Collect, TimeOut, Summarise, TruncateLatest, Exit
  <2>. QED
    BY <2>1, <2>2, <2>3, <2>4, <2>5 DEF Main
<1>4. \A g \in Hooks : main[g] \in {"exit", "gone"} => Settled(g)
  BY DEF Accounted
<1>. HIDE DEF Settled
<1>5. \A g \in Hooks : main'[g] \in {"exit", "gone"} => Settled(g)'
  BY <1>1, <1>2, <1>3, <1>4
<1>. QED
  BY <1>5 DEF Accounted, Settled

\* The reason noted is what happened, and it stays so: a worker that never ran
\* never will, a result is final.
LEMMA ReasonsStep ==
  ASSUME TypeOK, ThreadsAgree, ReasonsTrue, NEW h \in Hooks, Main(h) \/ Worker(h)
  PROVE  ReasonsTrue'
<1>1. ASSUME NEW p \in proofs
      PROVE  /\ p[2] = "unparsable" => worker'[p[1]] = "none" /\ main'[p[1]] # "start"
             /\ p[2] = "error" => result'[p[1]] = "error"
  <2>1. p[1] \in Hooks
    BY DEF TypeOK
  <2>2. /\ p[2] = "unparsable" => worker[p[1]] = "none" /\ main[p[1]] # "start"
        /\ p[2] = "error" => result[p[1]] = "error"
    BY DEF ReasonsTrue
  <2>. QED
    BY <2>1, <2>2, ResultStays
<1>2. CASE proofs' = proofs
  BY <1>1, <1>2 DEF ReasonsTrue
<1>3. CASE Prove(h)
  <2>1. main[h] = "prove" /\ status[h] # "queued"
    BY <1>3 DEF Prove, ThreadsAgree, Agrees
  <2>2. status[h] \in {"none", "failed_open", "failed_open_timeout"}
    BY <2>1 DEF TypeOK
  <2>3. /\ Reason(h) = "unparsable" => status[h] = "none"
        /\ Reason(h) = "error" => status[h] = "failed_open"
    BY <2>2 DEF Reason
  <2>4. /\ Reason(h) = "unparsable" => worker[h] = "none"
        /\ Reason(h) = "error" => result[h] = "error"
    BY <2>1, <2>3 DEF ThreadsAgree, Agrees
  <2>5. /\ Reason(h) = "unparsable" => worker'[h] = "none" /\ main'[h] # "start"
        /\ Reason(h) = "error" => result'[h] = "error"
    BY <2>1, <2>4, ResultStays
  <2>6. \A p \in proofs' : p \in proofs \/ p = <<h, Reason(h)>>
    BY <1>3 DEF Prove
  <2>. QED
    BY <1>1, <2>5, <2>6 DEF ReasonsTrue
<1>4. Prove(h) \/ proofs' = proofs
  BY DEF Main, Begin, Join, After, Summarise, TruncateLatest, WriteLatest,
       Inject, Swallow, Exit, Worker, Normalize, TakeLock, AppendRecord,
       AppendError, Unlock, threads, store, proof, context
<1>. QED
  BY <1>2, <1>3, <1>4

----------------------------------------------------------------------------
(***************************************************************************)
(* Who wrote what.                                                         *)
(***************************************************************************)

\* Which hooks' captures raised after their record was there is remembered.
LEMMA LateGrows ==
  ASSUME NEW h \in Hooks, Main(h) \/ Worker(h)
  PROVE  /\ late \subseteq late' /\ late' \subseteq late \cup {h}
         /\ late' = late \/ AppendError(h) \/ Unlock(h)
BY DEF Main, Begin, Join, Prove, After, Summarise, TruncateLatest, WriteLatest,
       Inject, Swallow, Exit, Worker, Normalize, TakeLock, AppendRecord,
       AppendError, Unlock, threads, store, proof, context

\* The worker of h appends all of its record, whether or not it raises then.
AppendsAll(h) ==
  /\ AppendRecord(h) \/ (AppendError(h) /\ h \in late')
  /\ queue' = Appended(h, TRUE)
  /\ archived' = archived

\* Having written or failed is final, and only a whole append is a write.
LEMMA WrittenStays ==
  ASSUME TypeOK, ThreadsAgree, NEW h \in Hooks, Main(h) \/ Worker(h), NEW g \in Hooks
  PROVE  /\ Wrote(g) => Wrote(g)'
         /\ Failed(g) => Failed(g)'
         /\ Wrote(g)' => Wrote(g) \/ (g = h /\ AppendsAll(h))
<1>. USE DEF Wrote, Failed
<1>0. /\ late \subseteq late' /\ late' \subseteq late \cup {h}
      /\ late' = late \/ AppendError(h) \/ Unlock(h)
  BY LateGrows
<1>1. CASE g # h
  BY <1>0, <1>1, OthersStay
<1>2. CASE g = h /\ Main(h)
  <2>1. result' = result
    BY <1>2 DEF Main, Begin, Join, Prove, After, Summarise, TruncateLatest,
                WriteLatest, Inject, Swallow, Exit
  <2>4. late' = late
    BY <1>2 DEF Main, Begin, Join, Prove, After, Summarise, TruncateLatest,
                WriteLatest, Inject, Swallow, Exit, store
  <2>2. CASE Begin(h)
    <3>1. worker[h] = "none" /\ (worker'[h] = "none" \/ worker'[h] = "normalize")
      BY <2>2 DEF Begin, ThreadsAgree, Agrees, TypeOK
    <3>. QED
      BY <1>2, <2>1, <2>4, <3>1
  <2>3. CASE ~Begin(h)
    <3>1. worker' = worker
      BY <1>2, <2>3 DEF Main, Join, Prove, After, Summarise, TruncateLatest,
                WriteLatest, Inject, Swallow, Exit
    <3>. QED
      BY <2>1, <2>4, <3>1
  <2>. QED
    BY <2>2, <2>3
<1>3. CASE g = h /\ Worker(h)
  <2>. USE DEF Step, Put, TypeOK
  <2>1. CASE Normalize(h)
    <3>1. worker[h] = "normalize" /\ worker'[h] \in {"ended", "lock"}
      BY <2>1 DEF Normalize
    <3>2. result[h] = "none" /\ (result'[h] = "none" \/ result'[h] = "error")
      BY <2>1, <3>1 DEF Normalize, ThreadsAgree, Agrees
    <3>3. late' = late
      BY <2>1 DEF Normalize, store
    <3>. QED
      BY <1>3, <3>1, <3>2, <3>3
  <2>2. CASE TakeLock(h)
    BY <1>3, <2>2 DEF TakeLock
  <2>3. CASE AppendRecord(h)
    BY <1>0, <1>3, <2>3 DEF AppendRecord, AppendsAll
  <2>5. CASE AppendError(h)
    <3>1. /\ worker[h] = "append" /\ worker'[h] = "error" /\ result' = result
          /\ archived' = archived
      BY <2>5 DEF AppendError
    <3>2. late' = late \/ (queue' = Appended(h, TRUE) /\ h \in late')
      BY <2>5 DEF AppendError
    <3>. QED
      BY <1>0, <1>3, <2>5, <3>1, <3>2 DEF AppendsAll
  <2>4. CASE Unlock(h)
    <3>1. result[h] = "none"
      BY <2>4 DEF Unlock, ThreadsAgree, Agrees
    <3>2. \/ /\ worker[h] = "unlock" /\ worker'[h] = "ended"
             /\ result'[h] = "queued" \/ h \in late'
          \/ /\ worker[h] = "error" /\ worker'[h] = "ended" /\ result'[h] = "error"
             /\ late' = late
      BY <2>4 DEF Unlock
    <3>. QED
      BY <1>0, <1>3, <3>1, <3>2
  <2>. QED
    BY <1>3, <2>1, <2>2, <2>3, <2>4, <2>5 DEF Worker
<1>. QED
  BY <1>1, <1>2, <1>3

\* All a hook does to the files: one append of all of its record or of a part;
\* where that leaves the last line without a newline, the worker has failed.
LEMMA QueueStep ==
  ASSUME TypeOK, NEW h \in Hooks, Main(h) \/ Worker(h)
  PROVE  \/ UNCHANGED <<queue, open, archived>>
         \/ AppendsAll(h) /\ (open' => Failed(h)')
         \/ /\ AppendError(h) /\ queue' = Appended(h, FALSE) /\ archived' = archived
            /\ Failed(h)'
<1>1. CASE AppendError(h)
  <2>1. Failed(h)' /\ archived' = archived
    BY <1>1 DEF AppendError, Step, TypeOK, Failed
  <2>. QED
    BY <1>1, <2>1 DEF AppendError, AppendsAll
<1>2. CASE AppendRecord(h)
  BY <1>2 DEF AppendRecord, AppendsAll
<1>3. CASE ~AppendError(h) /\ ~AppendRecord(h)
  BY <1>3 DEF Main, Begin, Join, Prove, After, Summarise, TruncateLatest,
       WriteLatest, Inject, Swallow, Exit, Worker, Normalize, TakeLock, Unlock,
       store
<1>. QED
  BY <1>1, <1>2, <1>3

\* A capture that raised has failed, and one that has failed stays so.
LEMMA LateStep ==
  ASSUME TypeOK, ThreadsAgree, \A g \in late : Failed(g),
         NEW h \in Hooks, Main(h) \/ Worker(h)
  PROVE  \A g \in late' : Failed(g)'
<1>1. late \subseteq Hooks
  BY DEF TypeOK
<1>2. \A g \in late : Failed(g)'
  BY <1>1, WrittenStays
<1>3. ASSUME late' # late
      PROVE  Failed(h)'
  <2>1. CASE AppendError(h)
    BY <2>1 DEF AppendError, Step, TypeOK, Failed
  <2>2. CASE Unlock(h)
    BY <1>3, <2>2 DEF Unlock, Put, TypeOK, Failed
  <2>. QED
    BY <1>3, <2>1, <2>2, LateGrows
<1>4. late' \subseteq late \cup {h}
  BY LateGrows
<1>. QED
  BY <1>2, <1>3, <1>4

\* Every step keeps the queue accounted for.
LEMMA LinesStep ==
  ASSUME TypeOK, ThreadsAgree, LinesSound, NEW h \in Hooks, Main(h) \/ Worker(h)
  PROVE  /\ LinesSound'
         /\ archived' = archived
         /\ Captured \subseteq Captured'
         /\ \A g \in Parsed' : g \in Parsed \/ result[g] = "none"
<1>0. /\ queue \in Seq(LineType)
      /\ Captured \subseteq Hooks /\ Parsed \subseteq Hooks
      /\ \A l \in Lines(queue) : l.who \subseteq Hooks
  <2>1. queue \in Seq(LineType)
    BY DEF TypeOK, LineType
  <2>2. \A l \in Lines(queue) : l \in LineType
    BY <2>1, LineOf
  <2>3. \A l \in Lines(queue) : l.who \subseteq Hooks
    BY <2>2 DEF LineType
  <2>. QED
    BY <2>1, <2>3, CapturedType
<1>1. /\ open => LastFailed
      /\ \A g \in Parsed : Wrote(g)
      /\ \A g \in Hooks : Wrote(g) => g \in Captured
      /\ \A l \in Lines(queue) : l.torn => \E g \in l.who : Failed(g)
  BY DEF LinesSound
<1>5. \A g \in late' : Failed(g)'
  BY LateStep DEF LinesSound
<1>6. open => /\ queue # <<>> /\ queue[Len(queue)].who \subseteq Hooks
              /\ \E g \in queue[Len(queue)].who : Failed(g)'
  <2>1. queue # <<>> => queue[Len(queue)] \in Lines(queue)
    BY <1>0, LineOf
  <2>. QED
    BY <1>0, <1>1, <2>1, WrittenStays DEF LastFailed
<1>2. CASE UNCHANGED <<queue, open, archived>>
  <2>1. Captured' = Captured /\ Parsed' = Parsed /\ Lines(queue') = Lines(queue)
    BY <1>2 DEF Captured, Parsed
  <2>2. \A g \in Hooks : Wrote(g)' => Wrote(g) \/ (g = h /\ AppendsAll(h))
    BY WrittenStays
  <2>3. AppendsAll(h) => h \in Captured'
    BY AppendEffect DEF AppendsAll
  <2>4. \A g \in Parsed : Wrote(g)'
    BY <1>0, <1>1, WrittenStays
  <2>5. \A g \in Hooks : Wrote(g)' => g \in Captured
    BY <1>1, <2>1, <2>2, <2>3
  <2>6. \A l \in Lines(queue) : l.torn => \E g \in l.who : Failed(g)'
    BY <1>0, <1>1, WrittenStays
  <2>7. open' => LastFailed'
    BY <1>2, <1>6 DEF LastFailed
  <2>8. LinesSound'
    BY <1>5, <2>1, <2>4, <2>5, <2>6, <2>7 DEF LinesSound
  <2>. QED
    BY <1>2, <2>1, <2>8
<1>3. CASE AppendsAll(h) /\ (open' => Failed(h)')
  <2>1. /\ worker[h] = "append"
        /\ queue' = Appended(h, TRUE) /\ archived' = archived
    BY <1>3 DEF AppendsAll, AppendRecord, AppendError, Step
  <2>2. /\ queue' # <<>> /\ h \in queue'[Len(queue')].who
        /\ Captured' = Captured \cup {h}
        /\ Parsed' \subseteq Parsed \cup {h}
        /\ \A l \in Lines(queue') :
             \/ l \in Lines(queue)
             \/ open /\ queue[Len(queue)].who \subseteq l.who
             \/ ~l.torn
    BY <2>1, AppendEffect
  <2>3. Wrote(h)'
    <3>1. CASE AppendRecord(h)
      BY <3>1 DEF AppendRecord, Step, TypeOK, Wrote
    <3>2. CASE h \in late'
      BY <3>2 DEF Wrote
    <3>. QED
      BY <1>3, <3>1, <3>2 DEF AppendsAll
  <2>4. \A g \in Parsed' : Wrote(g)'
    BY <1>0, <1>1, <2>2, <2>3, WrittenStays
  <2>5. \A g \in Hooks : Wrote(g)' => g \in Captured'
    BY <1>1, <2>2, WrittenStays
  <2>6. \A l \in Lines(queue') : l.torn => \E g \in l.who : Failed(g)'
    BY <1>0, <1>1, <1>6, <2>2, WrittenStays
  <2>7. open' => LastFailed'
    BY <1>3, <2>2 DEF LastFailed
  <2>8. LinesSound'
    BY <1>5, <2>4, <2>5, <2>6, <2>7 DEF LinesSound
  <2>9. result[h] = "none"
    BY <2>1 DEF ThreadsAgree, Agrees
  <2>. QED
    BY <2>1, <2>2, <2>8, <2>9
<1>4. CASE /\ AppendError(h) /\ queue' = Appended(h, FALSE) /\ archived' = archived
           /\ Failed(h)'
  <2>2. /\ queue' # <<>> /\ h \in queue'[Len(queue')].who
        /\ Captured' = Captured \cup {h}
        /\ Parsed' \subseteq Parsed
        /\ \A l \in Lines(queue') :
             \/ l \in Lines(queue)
             \/ l.who = {h}
             \/ open /\ queue[Len(queue)].who \subseteq l.who
             \/ ~l.torn
    BY <1>4, AppendEffect
  <2>3. \A g \in Parsed' : Wrote(g)'
    BY <1>0, <1>1, <2>2, WrittenStays
  <2>4. \A g \in Hooks : Wrote(g)' => g \in Captured'
    BY <1>1, <2>2, WrittenStays
  <2>5. \A l \in Lines(queue') : l.torn => \E g \in l.who : Failed(g)'
    BY <1>0, <1>1, <1>4, <1>6, <2>2, WrittenStays
  <2>6. open' => LastFailed'
    BY <1>4, <2>2 DEF LastFailed
  <2>7. LinesSound'
    BY <1>5, <2>3, <2>4, <2>5, <2>6 DEF LinesSound
  <2>. QED
    BY <1>4, <2>2, <2>7
<1>. QED
  BY <1>2, <1>3, <1>4, QueueStep

----------------------------------------------------------------------------
(***************************************************************************)
(* Summaries.                                                              *)
(***************************************************************************)

\* A summary that had the event of its own hook goes on having it: neither the
\* appends of other hooks nor a rotation make an event unreadable.
LEMMA SummarisedStays ==
  ASSUME NEW g \in Hooks, Summarised(g), input' = input, result'[g] = result[g],
         summary'[g] = summary[g], archived \subseteq archived',
         Captured \subseteq Captured', \A f \in Parsed' : f \in Parsed \/ result[f] = "none"
  PROVE  Summarised(g)'
BY DEF Summarised

\* A hook on its way out stays there and summarises no more.
LEMMA LeavingStays ==
  ASSUME TypeOK, NEW h \in Hooks, Main(h) \/ Worker(h), NEW g \in Hooks, Leaving(g)
  PROVE  Leaving(g)' /\ summary'[g] = summary[g]
<1>1. CASE g # h
  BY <1>1, OthersStay DEF Leaving
<1>2. CASE g = h /\ Worker(h)
  BY <1>2 DEF Leaving, Worker, Normalize, TakeLock, AppendRecord, AppendError,
              Unlock, context
<1>3. CASE g = h /\ Main(h)
  <2>1. Exit(h)
    BY <1>3 DEF Leaving, Main, Begin, Join, Prove, After, Summarise,
                TruncateLatest, WriteLatest, Inject, Swallow
  <2>. QED
    BY <1>3, <2>1 DEF Exit, Leaving, Goto, TypeOK, context
<1>. QED
  BY <1>1, <1>2, <1>3

\* Every step of a hook keeps the summaries sound: one is taken after the hook's
\* own event was queued, and what is injected was written by such a hook.
LEMMA SummariesStep ==
  ASSUME TypeOK, ThreadsAgree, LinesSound, SummariesSound,
         NEW h \in Hooks, Main(h) \/ Worker(h)
  PROVE  SummariesSound'
<1>1. ASSUME NEW g \in Hooks, Summarised(g), summary'[g] = summary[g]
      PROVE  Summarised(g)'
  <2>1. result'[g] = result[g]
    BY <1>1, ResultStays DEF Summarised
  <2>2. input' = input
    BY OthersStay
  <2>. QED
    BY <1>1, <2>1, <2>2, LinesStep, SummarisedStays
<1>2. \A g \in Hooks : SessionOf(g)' = SessionOf(g)
  BY OthersStay DEF SessionOf
<1>3. ASSUME NEW g \in Hooks, main'[g] \in {"truncate", "write"}
      PROVE  Summarised(g)'
  <2>1. CASE g = h /\ Summarise(h)
    <3>1. main[h] = "summarise" /\ status[h] = "queued" /\ result[h] = "queued"
          /\ input[h].kind = "precompact"
      BY <2>1 DEF Summarise, ThreadsAgree, Agrees
    <3>2. h \in Captured
      BY <3>1 DEF LinesSound, Wrote, Failed
    <3>3. h \in archived \/ h \in SessionEvents(SessionOf(h)) \/ h \notin Parsed
      BY DEF Parsed, SessionEvents
    <3>4. UNCHANGED <<input, result, queue, archived>>
      BY <2>1 DEF Summarise, threads, store
    <3>5. summary'[h] = {} \/ summary'[h] = SessionEvents(SessionOf(h))
      BY <2>1 DEF Summarise, TypeOK
    <3>6. Captured' = Captured /\ Parsed' = Parsed
      BY <3>4 DEF Captured, Parsed
    <3>. QED
      BY <2>1, <3>1, <3>2, <3>3, <3>4, <3>5, <3>6 DEF Summarised
  <2>2. CASE ~(g = h /\ Summarise(h))
    <3>1. main[g] \in {"truncate", "write"} /\ summary'[g] = summary[g]
      <4>1. CASE g # h
        BY <1>3, <4>1, OthersStay
      <4>2. CASE g = h /\ Worker(h)
        BY <1>3, <4>2 DEF Worker, Normalize, TakeLock, AppendRecord, AppendError,
                          Unlock, context
      <4>3. CASE g = h /\ Main(h)
        <5>. USE DEF TypeOK, Goto
        <5>1. ~Begin(h)
          BY <1>3, <4>3 DEF Begin
        <5>2. ~Join(h) /\ ~Prove(h)
          BY <1>3, <4>3 DEF Join, Collect, TimeOut, Prove
        <5>3. ~After(h) /\ ~WriteLatest(h) /\ ~Inject(h)
          BY <1>3, <4>3 DEF After, WriteLatest, Inject
        <5>4. ~Swallow(h) /\ ~Exit(h)
          BY <1>3, <4>3 DEF Swallow, Exit
        <5>5. TruncateLatest(h)
          BY <2>2, <4>3, <5>1, <5>2, <5>3, <5>4 DEF Main
        <5>. QED
          BY <4>3, <5>5 DEF TruncateLatest
      <4>. QED
        BY <4>1, <4>2, <4>3
    <3>2. Summarised(g)
      BY <3>1 DEF SummariesSound
    <3>. QED
      BY <1>1, <3>1, <3>2
  <2>. QED
    BY <2>1, <2>2
<1>. DEFINE Good(p, s) == SessionOf(p) = s /\ Summarised(p) /\ Leaving(p)
<1>4. ASSUME NEW p \in Hooks, NEW s, Good(p, s)
      PROVE  Good(p, s)'
  BY <1>1, <1>2, <1>4, LeavingStays
<1>5. ASSUME NEW s \in Sessions, latest'[s] \notin {Nobody, "torn"}
      PROVE  Good(latest[s], s)'
  <2>1. CASE latest'[s] = latest[s]
    <3>1. latest[s] \in Hooks /\ Good(latest[s], s)
      BY <1>5, <2>1 DEF SummariesSound, TypeOK
    <3>. QED
      BY <1>4, <2>1, <3>1
  <2>2. CASE latest'[s] # latest[s]
    <3>1. WriteLatest(h)
      <4>1. TruncateLatest(h) \/ WriteLatest(h)
        BY <2>2 DEF Main, Begin, Join, Prove, After, Summarise, Inject, Swallow,
             Exit, Worker, Normalize, TakeLock, AppendRecord, AppendError, Unlock,
             context
      <4>2. ~TruncateLatest(h)
        BY <1>5, <2>2 DEF TruncateLatest, TypeOK
      <4>. QED
        BY <4>1, <4>2
    <3>2. s = SessionOf(h) /\ latest'[s] = h
      BY <1>5, <2>2, <3>1 DEF WriteLatest, TypeOK
    <3>3. Summarised(h)'
      <4>1. Summarised(h) /\ summary'[h] = summary[h]
        BY <3>1 DEF WriteLatest, SummariesSound
      <4>. QED
        BY <1>1, <4>1
    <3>4. Leaving(h)'
      BY <3>1 DEF WriteLatest, Leaving, Goto, TypeOK
    <3>. QED
      BY <1>2, <3>2, <3>3, <3>4
  <2>. QED
    BY <2>1, <2>2
<1>6. ASSUME NEW g \in Hooks, output'[g] # Nobody
      PROVE  Good(output[g], SessionOf(g))'
  <2>1. CASE output'[g] = output[g]
    <3>1. output[g] \in Hooks /\ Good(output[g], SessionOf(g))
      BY <1>6, <2>1 DEF SummariesSound, TypeOK
    <3>. QED
      BY <1>2, <1>4, <2>1, <3>1
  <2>2. CASE output'[g] # output[g]
    <3>1. Inject(h) /\ g = h
      <4>1. g = h
        BY <2>2, OthersStay
      <4>. QED
        BY <2>2, <4>1 DEF Main, Begin, Join, Prove, After, Summarise,
             TruncateLatest, WriteLatest, Swallow, Exit, Worker, Normalize,
             TakeLock, AppendRecord, AppendError, Unlock, context
    <3>2. SessionOf(h) \in Sessions
      BY PayloadType
    <3>3. /\ output'[h] = latest[SessionOf(h)]
          /\ latest[SessionOf(h)] \notin {Nobody, "torn"}
      BY <1>6, <2>2, <3>1 DEF Inject, TypeOK
    <3>4. PICK p \in Hooks : p = latest[SessionOf(h)]
      BY <3>2, <3>3 DEF TypeOK
    <3>5. Good(p, SessionOf(h))
      BY <3>2, <3>3, <3>4 DEF SummariesSound
    <3>6. SessionOf(p)' = SessionOf(h) /\ Summarised(p)' /\ Leaving(p)'
      BY <1>1, <1>2, <3>5, LeavingStays
    <3>7. output'[g] = p /\ SessionOf(g)' = SessionOf(h)
      BY <1>2, <3>1, <3>3, <3>4
    <3>. QED
      BY <3>6, <3>7
  <2>. QED
    BY <2>1, <2>2
<1>. QED
  BY <1>3, <1>5, <1>6 DEF SummariesSound

----------------------------------------------------------------------------
(***************************************************************************)
(* The theorems.                                                           *)
(***************************************************************************)

\* A rotation touches no thread and makes no event unreadable.
LEMMA RotationStep ==
  ASSUME CaptureInv, RotationTakes \/ RotationMoves \/ RotationEnds
  PROVE  CaptureInv'
<1>. USE DEF CaptureInv
<1>1. UNCHANGED <<input, main, worker, result, status, late, proofs, unproved,
                  summary, latest, output>>
  BY DEF RotationTakes, RotationMoves, RotationEnds, threads, proof, context
<1>2. /\ archived \subseteq archived'
      /\ Captured' = Captured
      /\ Parsed' = Parsed
      /\ Lines(queue') \subseteq Lines(queue)
      /\ open' => open /\ queue' # <<>>
                      /\ queue'[Len(queue')] = queue[Len(queue)]
  <2>1. CASE RotationMoves
    BY <2>1, RotationEffect
  <2>2. CASE RotationTakes \/ RotationEnds
    BY <2>2 DEF RotationTakes, RotationEnds, Captured, Parsed, LinesSound, LastFailed
  <2>. QED
    BY <2>1, <2>2
<1>3. TypeOK'
  BY TypeRotation
<1>4. ThreadsAgree' /\ Accounted' /\ ReasonsTrue'
  BY <1>1 DEF ThreadsAgree, Agrees, Accounted, ReasonsTrue
<1>5. LinesSound'
  BY <1>1, <1>2 DEF LinesSound, LastFailed, Wrote, Failed
<1>6. \A g \in Hooks : Summarised(g) => Summarised(g)'
  BY <1>1, <1>2, SummarisedStays
<1>7. SummariesSound'
  <2>1. \A s \in Sessions : latest[s] \notin {Nobody, "torn"} => latest[s] \in Hooks
    BY DEF TypeOK
  <2>2. \A h \in Hooks : output[h] # Nobody => output[h] \in Hooks
    BY DEF TypeOK
  <2>3. \A h \in Hooks : main'[h] \in {"truncate", "write"} => Summarised(h)'
    BY <1>1, <1>6 DEF SummariesSound
  <2>4. ASSUME NEW s \in Sessions, latest[s] \notin {Nobody, "torn"}
        PROVE  SessionOf(latest[s])' = s /\ Summarised(latest[s])' /\ Leaving(latest[s])'
    <3>1. SessionOf(latest[s]) = s /\ Summarised(latest[s]) /\ Leaving(latest[s])
      BY <2>4 DEF SummariesSound
    <3>2. PICK p \in Hooks : p = latest[s]
      BY <2>1, <2>4
    <3>3. SessionOf(p)' = s /\ Summarised(p)' /\ Leaving(p)'
      BY <1>1, <1>6, <3>1, <3>2 DEF SessionOf, Leaving
    <3>. QED
      BY <1>1, <3>2, <3>3
  <2>5. ASSUME NEW h \in Hooks, output[h] # Nobody
        PROVE  /\ SessionOf(output[h])' = SessionOf(h)'
               /\ Summarised(output[h])' /\ Leaving(output[h])'
    <3>1. SessionOf(output[h]) = SessionOf(h) /\ Summarised(output[h]) /\ Leaving(output[h])
      BY <2>5 DEF SummariesSound
    <3>2. PICK p \in Hooks : p = output[h]
      BY <2>2, <2>5
    <3>3. SessionOf(p)' = SessionOf(h)' /\ Summarised(p)' /\ Leaving(p)'
      BY <1>1, <1>6, <3>1, <3>2 DEF SessionOf, Leaving
    <3>. QED
      BY <1>1, <3>2, <3>3
  <2>. QED
    BY <1>1, <2>3, <2>4, <2>5 DEF SummariesSound
<1>. QED
  BY <1>3, <1>4, <1>5, <1>7

\* The initial state has the invariant.
LEMMA CaptureInit == Init => CaptureInv
<1>. SUFFICES ASSUME Init PROVE CaptureInv
  OBVIOUS
<1>1. ThreadsAgree /\ Accounted /\ ReasonsTrue
  BY DEF Init, ThreadsAgree, Agrees, Accounted, ReasonsTrue
<1>2. Lines(queue) = {}
  BY EmptySeq DEF Init, Lines
<1>3. LinesSound
  BY <1>2, HookCommandAssumption DEF Init, LinesSound, LastFailed, Wrote, Failed, Parsed
<1>4. SummariesSound
  BY DEF Init, SummariesSound
<1>. QED
  BY <1>1, <1>3, <1>4, TypeInit DEF CaptureInv

\* Every step keeps it.
LEMMA CaptureNext == CaptureInv /\ [Next]_vars => CaptureInv'
<1>. SUFFICES ASSUME CaptureInv, [Next]_vars PROVE CaptureInv'
  OBVIOUS
<1>1. ASSUME NEW h \in Hooks, Main(h) \/ Worker(h)
      PROVE  CaptureInv'
  <2>1. TypeOK'
    BY <1>1, TypeMain, TypeWorker DEF CaptureInv
  <2>2. ThreadsAgree' /\ Accounted' /\ ReasonsTrue'
    BY <1>1, ThreadsStep, AccountedStep, ReasonsStep DEF CaptureInv
  <2>3. LinesSound' /\ SummariesSound'
    BY <1>1, LinesStep, SummariesStep DEF CaptureInv
  <2>. QED
    BY <2>1, <2>2, <2>3 DEF CaptureInv
<1>2. CASE RotationTakes \/ RotationMoves \/ RotationEnds
  BY <1>2, RotationStep
<1>3. CASE UNCHANGED vars
  BY SMTT(30), <1>3
  DEF vars, threads, store, proof, context, CaptureInv, TypeOK, Alive,
      ThreadsAgree, Agrees, Accounted, ReasonsTrue, LinesSound, LastFailed, Wrote,
      Failed, SummariesSound,
      Summarised, Leaving, SessionOf, Captured, Parsed
<1>. QED
  BY <1>1, <1>2, <1>3 DEF Next

\* The inductive invariant holds in every reachable state.
LEMMA AlwaysCaptureInv == Spec => []CaptureInv
BY CaptureInit, CaptureNext, PTL DEF Spec

\* For any number of hooks and sessions every variable keeps its type, and a
\* hook that holds the queue lock is alive and its worker inside the locked
\* section: a hook that Codex stopped waiting for never leaves the lock behind.
THEOREM TypeCorrect == Spec => []TypeOK
<1>1. CaptureInv => TypeOK
  BY DEF CaptureInv
<1>. QED
  BY <1>1, AlwaysCaptureInv, PTL

\* No hook ends in silence, wherever its worker was when the timeout struck:
\* the event is in the queue or archived, or a proof says why not, or writing
\* that proof failed.
THEOREM NoHookIsSilent == Spec => []NothingSilent
<1>1. CaptureInv => NothingSilent
  BY DEF CaptureInv, Accounted, LinesSound, Wrote, Failed, NothingSilent
<1>. QED
  BY <1>1, AlwaysCaptureInv, PTL

\* A failure proof beside a record that a reader accepts is that of a timeout,
\* or of an append or unlock that raised when the whole record was written.
THEOREM ProofsNeverLie == Spec => []ProofsTrue
<1>1. CaptureInv => ProofsTrue
  <2>. SUFFICES ASSUME CaptureInv, NEW p \in proofs, p[1] \in Parsed,
                       p[2] # "capture_timeout"
                PROVE  p[2] = "error" /\ p[1] \in late
    BY DEF ProofsTrue
  <2>1. p[1] \in Hooks /\ p[2] \in {"unparsable", "error"}
    BY DEF CaptureInv, TypeOK
  <2>2. /\ p[2] = "unparsable" => worker[p[1]] = "none"
        /\ p[2] = "error" => result[p[1]] = "error"
    BY DEF CaptureInv, ReasonsTrue
  <2>3. worker[p[1]] # "unlock" /\ result[p[1]] # "queued"
    BY <2>1, <2>2 DEF CaptureInv, ThreadsAgree, Agrees
  <2>4. p[1] \in late
    BY <2>3 DEF CaptureInv, LinesSound, Wrote
  <2>5. worker[p[1]] # "none"
    BY <2>1, <2>4 DEF CaptureInv, LinesSound, Failed, ThreadsAgree, Agrees
  <2>. QED
    BY <2>1, <2>2, <2>4, <2>5
<1>. QED
  BY <1>1, AlwaysCaptureInv, PTL

\* What a hook injects is the summary of a hook of its own session that was
\* taken after that hook's own event was queued, whatever a rotation did to the
\* queue meanwhile and whoever else wrote the same file.
THEOREM InjectedIsSummary == Spec => []InjectedSummary
<1>1. CaptureInv => InjectedSummary
  <2>. SUFFICES ASSUME CaptureInv, NEW h \in Hooks, output[h] # Nobody
                PROVE  /\ SessionOf(output[h]) = SessionOf(h)
                       /\ input[output[h]].kind = "precompact"
                       /\ output[h] \in Captured
                       /\ \/ summary[output[h]] = {}
                          \/ output[h] \in summary[output[h]] \cup archived
                                              \cup (Captured \ Parsed)
    BY DEF InjectedSummary
  <2>1. output[h] \in Hooks
    BY DEF CaptureInv, TypeOK
  <2>2. SessionOf(output[h]) = SessionOf(h) /\ Summarised(output[h])
    BY DEF CaptureInv, SummariesSound
  <2>3. output[h] \in Captured
    BY <2>1, <2>2 DEF CaptureInv, LinesSound, Wrote, Failed, Summarised
  <2>. QED
    BY <2>2, <2>3 DEF Summarised
<1>. QED
  BY <1>1, AlwaysCaptureInv, PTL

\* The event of a hook that was told "queued" is readable, unless a failed
\* append of another hook is in the same line.
THEOREM QueuedIsReadable == Spec => []QueuedReadable
<1>1. CaptureInv => QueuedReadable
  <2>. SUFFICES ASSUME CaptureInv, NEW h \in Hooks, status[h] = "queued", h \notin Parsed
                PROVE  \E l \in Lines(queue) :
                         h \in l.who /\ \E g \in l.who \ {h} : status[g] # "queued"
    BY DEF QueuedReadable
  <2>1. result[h] = "queued" /\ worker[h] = "ended"
    BY DEF CaptureInv, ThreadsAgree, Agrees
  <2>2. h \in Captured
    BY <2>1 DEF CaptureInv, LinesSound, Wrote, Failed
  <2>3. PICK l \in Lines(queue) : h \in l.who /\ l.torn
    BY <2>2 DEF Captured, Parsed
  <2>4. PICK g \in l.who : worker[g] = "error" \/ result[g] = "error"
    BY <2>3 DEF CaptureInv, LinesSound, Wrote, Failed
  <2>5. g \in Hooks
    <3>1. queue \in Seq(LineType)
      BY DEF CaptureInv, TypeOK, LineType
    <3>2. l.who \subseteq Hooks
      BY <3>1, LineOf DEF LineType
    <3>. QED
      BY <3>2
  <2>6. g # h
    BY <2>1, <2>4
  <2>7. status[g] # "queued"
    BY <2>4, <2>5 DEF CaptureInv, ThreadsAgree, Agrees
  <2>. QED
    BY <2>3, <2>6, <2>7
<1>. QED
  BY <1>1, AlwaysCaptureInv, PTL
=============================================================================

--------------------------- MODULE SessionProofs ----------------------------
(***************************************************************************)
(* Proof that a confirmed report of the session state is true, whatever    *)
(* goes on while it is made.                                               *)
(*   1. In a serial deployment the store always has the first events       *)
(*      captured, as far as they parse: queue, tail and merge keep the     *)
(*      order of capture, and a run stores the lines in turn.              *)
(*   2. What a report makes of such a store is what the reference calls    *)
(*      current.                                                           *)
(*   3. A report that finds no backlog, and that no rotation disturbed,    *)
(*      reads a store that has all that was captured when it looked.       *)
(* And that of the others: what is said of replicated hosts.               *)
(***************************************************************************)
EXTENDS SessionState, HostFreshness, HookQueueProofs, FiniteSetTheorems,
        WellFoundedInduction

(***************************************************************************)
(* The store is a prefix of what was captured.                             *)
(***************************************************************************)

\* Each record of s is one of the first n events, and each event before it is
\* in the base or stands before it in s.
Backed(n, base, s) ==
  \A k \in 1 .. Len(s) :
    /\ s[k] \in 1 .. n
    /\ \A f \in 1 .. s[k] - 1 : f \in base \/ \E j \in 1 .. k - 1 : s[j] = f

\* The queue path has what comes after the tail.
Moved == rot.phase = "archived" \/ Someone("markArchived")

\* What comes before the queue path: the store and, once moved, the tail.
Base == StoredEvents \cup (IF Moved THEN Records(Bytes(rest)) ELSE {})

\* No event in the queue, the tail or the merge comes before one that was
\* captured earlier, unless that is stored.
FilesBacked ==
  /\ Backed(captured, Base, Bytes(queue))
  /\ Moved => Backed(captured, StoredEvents, Bytes(rest))
  /\ \A p \in Procs :
       /\ pc[p] \in {"prepare", "zeroMark", "archive"} =>
            Backed(captured, StoredEvents, Bytes(rest))
       /\ pc[p] = "mergeWrite" => Backed(captured, StoredEvents, merged)
       /\ pc[p] = "dropMerged" => Backed(captured, StoredEvents, Bytes(queue))

\* A run stores the lines in turn.
LinesRead ==
  \A i \in Ingesters :
    pc[i] = "read" =>
      \A k \in 1 .. reader[i].pos : Bytes(queue)[k] \in StoredEvents \cup Malformed

\* What was captured before a stored event is stored, if it parses.
StoredInTurn ==
  \A e \in StoredEvents :
    /\ e \in Capturable \ Malformed
    /\ \A f \in 1 .. e - 1 : f \in StoredEvents \cup Malformed

\* The inductive invariant of the order of capture.
InTurn == FilesBacked /\ LinesRead /\ StoredInTurn

\* An empty file is backed.
LEMMA BackedEmpty ==
  ASSUME NEW n, NEW base
  PROVE  Backed(n, base, <<>>)
BY NoRecords DEF Backed

\* It stays so with more events and a larger base.
LEMMA BackedMore ==
  ASSUME NEW n \in Nat, NEW m \in Nat, n <= m, NEW base, NEW more,
         base \subseteq more, NEW s, Backed(n, base, s)
  PROVE  Backed(m, more, s)
BY DEF Backed

\* The next event is appended to a file while all others are in it or stored.
LEMMA BackedAppend ==
  ASSUME NEW n \in Nat, NEW base, NEW s \in Seq(Nat), Backed(n, base, s),
         1 .. n \subseteq base \cup Records(s)
  PROVE  Backed(n + 1, base, Append(s, n + 1))
<1>. DEFINE t == Append(s, n + 1)
<1>1. /\ Len(s) \in Nat
      /\ Len(t) = Len(s) + 1
      /\ \A k \in 1 .. Len(s) : t[k] = s[k]
      /\ t[Len(s) + 1] = n + 1
  BY LenProperties, AppendProperties
<1>. HIDE DEF t
<1>2. ASSUME NEW k \in 1 .. Len(s)
      PROVE  /\ t[k] \in 1 .. n + 1
             /\ \A f \in 1 .. t[k] - 1 : f \in base \/ \E j \in 1 .. k - 1 : t[j] = f
  <2>1. s[k] \in 1 .. n
    BY DEF Backed
  <2>2. ASSUME NEW f \in 1 .. s[k] - 1
        PROVE  f \in base \/ \E j \in 1 .. k - 1 : s[j] = f
    BY DEF Backed
  <2>3. \A j \in 1 .. k - 1 : t[j] = s[j]
    BY <1>1
  <2>4. \A j \in 1 .. k - 1 : s[j] = t[j]
    BY <2>3
  <2>5. t[k] = s[k]
    BY <1>1
  <2>6. t[k] \in 1 .. n + 1
    BY <2>1, <2>5
  <2>. QED
    BY <2>2, <2>4, <2>5, <2>6
<1>3. ASSUME NEW f \in 1 .. n
      PROVE  f \in base \/ \E j \in 1 .. Len(s) : t[j] = f
  BY <1>1 DEF Records
<1>4. \A k \in 1 .. Len(t) : k \in 1 .. Len(s) \/ k = Len(s) + 1
  BY <1>1
<1>5. /\ t[Len(s) + 1] \in 1 .. n + 1
      /\ \A f \in 1 .. t[Len(s) + 1] - 1 :
           f \in base \/ \E j \in 1 .. (Len(s) + 1) - 1 : t[j] = f
  BY <1>1, <1>3
<1>6. Backed(n + 1, base, t)
  BY <1>2, <1>4, <1>5 DEF Backed
<1>. QED
  BY <1>6 DEF t

\* A file is backed by the one it is put behind.
LEMMA BackedConcat ==
  ASSUME NEW n \in Nat, NEW base, NEW s \in Seq(Nat), NEW t \in Seq(Nat),
         Backed(n, base, s), Backed(n, base \cup Records(s), t)
  PROVE  Backed(n, base, s \o t)
<1>. DEFINE u == s \o t
<1>1. /\ Len(s) \in Nat /\ Len(t) \in Nat
      /\ Len(u) = Len(s) + Len(t)
      /\ \A k \in 1 .. Len(s) + Len(t) :
           u[k] = IF k <= Len(s) THEN s[k] ELSE t[k - Len(s)]
  BY LenProperties, ConcatProperties
<1>. HIDE DEF u
<1>2. ASSUME NEW k \in 1 .. Len(u), k <= Len(s)
      PROVE  /\ u[k] \in 1 .. n
             /\ \A f \in 1 .. u[k] - 1 : f \in base \/ \E j \in 1 .. k - 1 : u[j] = f
  <2>1. k \in 1 .. Len(s) /\ u[k] = s[k] /\ \A j \in 1 .. k - 1 : u[j] = s[j]
    BY <1>1, <1>2
  <2>2. s[k] \in 1 .. n
        /\ \A f \in 1 .. s[k] - 1 : f \in base \/ \E j \in 1 .. k - 1 : s[j] = f
    BY <2>1 DEF Backed
  <2>. QED
    BY <2>1, <2>2
<1>3. ASSUME NEW k \in 1 .. Len(u), ~(k <= Len(s))
      PROVE  /\ u[k] \in 1 .. n
             /\ \A f \in 1 .. u[k] - 1 : f \in base \/ \E j \in 1 .. k - 1 : u[j] = f
  <2>. DEFINE m == k - Len(s)
  <2>1. m \in 1 .. Len(t) /\ u[k] = t[m]
    BY <1>1, <1>3
  <2>2. /\ t[m] \in 1 .. n
        /\ \A f \in 1 .. t[m] - 1 :
             f \in base \cup Records(s) \/ \E j \in 1 .. m - 1 : t[j] = f
    BY <2>1 DEF Backed
  <2>3. \A j \in 1 .. Len(s) : j \in 1 .. k - 1 /\ u[j] = s[j]
    BY <1>1, <1>3
  <2>4. \A j \in 1 .. m - 1 : Len(s) + j \in 1 .. k - 1 /\ u[Len(s) + j] = t[j]
    <3>. SUFFICES ASSUME NEW j \in 1 .. m - 1
                  PROVE  Len(s) + j \in 1 .. k - 1 /\ u[Len(s) + j] = t[j]
      OBVIOUS
    <3>1. /\ Len(s) + j \in 1 .. Len(s) + Len(t) /\ ~(Len(s) + j <= Len(s))
          /\ (Len(s) + j) - Len(s) = j /\ Len(s) + j \in 1 .. k - 1
      BY <1>1, <1>3, <2>1
    <3>2. u[Len(s) + j] = t[(Len(s) + j) - Len(s)]
      BY <1>1, <3>1
    <3>. QED
      BY <3>1, <3>2
  <2>. HIDE DEF m
  <2>5. \A f \in Records(s) : \E j \in 1 .. k - 1 : u[j] = f
    BY <2>3 DEF Records
  <2>6. \A f : (\E j \in 1 .. m - 1 : t[j] = f) => \E j \in 1 .. k - 1 : u[j] = f
    BY <2>4
  <2>7. \A f \in 1 .. t[m] - 1 : f \in base \/ \E j \in 1 .. k - 1 : u[j] = f
    BY <2>2, <2>5, <2>6
  <2>. QED
    BY <2>1, <2>2, <2>7
<1>4. Backed(n, base, u)
  BY <1>2, <1>3 DEF Backed
<1>. QED
  BY <1>4 DEF u

\* The lines of a file behind the first c.
LEMMA LinesOfTail ==
  ASSUME NEW s \in Seq(Nat), NEW c \in Nat, c <= Len(s)
  PROVE  LET t == SubSeq(s, c + 1, Len(s))
         IN  /\ t \in Seq(Nat)
             /\ Len(t) = Len(s) - c
             /\ \A k \in 1 .. Len(t) : c + k \in 1 .. Len(s) /\ t[k] = s[c + k]
<1>. DEFINE t == SubSeq(s, c + 1, Len(s))
<1>1. Len(s) \in Nat /\ \A k \in c + 1 .. Len(s) : s[k] \in Nat
  BY LenProperties, ElementOfSeq
<1>2. /\ t \in Seq(Nat)
      /\ Len(t) = IF c + 1 <= Len(s) THEN Len(s) - (c + 1) + 1 ELSE 0
      /\ \A k \in 1 .. Len(s) - (c + 1) + 1 : t[k] = s[c + 1 + k - 1]
  <2>. DEFINE first == c + 1
              last == Len(s)
  <2>1. first \in Int /\ last \in Int /\ \A k \in first .. last : s[k] \in Nat
    BY <1>1
  <2>. HIDE DEF first, last
  <2>2. /\ SubSeq(s, first, last) \in Seq(Nat)
        /\ Len(SubSeq(s, first, last)) = IF first <= last THEN last - first + 1 ELSE 0
        /\ \A k \in 1 .. last - first + 1 : SubSeq(s, first, last)[k] = s[first + k - 1]
    BY <2>1, SubSeqProperties
  <2>. QED
    BY <2>2 DEF first, last
<1>. HIDE DEF t
<1>3. Len(t) = Len(s) - c
  BY <1>1, <1>2
<1>4. ASSUME NEW k \in 1 .. Len(t)
      PROVE  c + k \in 1 .. Len(s) /\ t[k] = s[c + k]
  <2>1. c + k \in 1 .. Len(s) /\ c + 1 + k - 1 = c + k
    BY <1>1, <1>3
  <2>. QED
    BY <1>1, <1>2, <1>3, <2>1
<1>5. /\ t \in Seq(Nat)
      /\ Len(t) = Len(s) - c
      /\ \A k \in 1 .. Len(t) : c + k \in 1 .. Len(s) /\ t[k] = s[c + k]
  BY <1>2, <1>3, <1>4
<1>. QED
  BY <1>5 DEF t

\* The rest of a file is backed if what is cut off is in the base.
LEMMA BackedTail ==
  ASSUME NEW n \in Nat, NEW base, NEW s \in Seq(Nat), NEW c \in Nat, c <= Len(s),
         Backed(n, base, s), \A k \in 1 .. c : s[k] \in base
  PROVE  Backed(n, base, SubSeq(s, c + 1, Len(s)))
<1>. DEFINE t == SubSeq(s, c + 1, Len(s))
<1>1. Len(s) \in Nat
  BY LenProperties
<1>2. /\ Len(t) = Len(s) - c
      /\ \A k \in 1 .. Len(t) : c + k \in 1 .. Len(s) /\ t[k] = s[c + k]
  BY LinesOfTail
<1>. HIDE DEF t
<1>3. Len(t) = Len(s) - c
  BY <1>2
<1>4. ASSUME NEW k \in 1 .. Len(t)
      PROVE  c + k \in 1 .. Len(s) /\ t[k] = s[c + k]
  BY <1>2
<1>5. ASSUME NEW k \in 1 .. Len(t)
      PROVE  /\ t[k] \in 1 .. n
             /\ \A f \in 1 .. t[k] - 1 : f \in base \/ \E j \in 1 .. k - 1 : t[j] = f
  <2>1. c + k \in 1 .. Len(s) /\ t[k] = s[c + k]
    BY <1>4
  <2>. DEFINE m == c + k
  <2>2. m \in 1 .. Len(s) /\ t[k] = s[m]
    BY <2>1
  <2>3. /\ s[m] \in 1 .. n
        /\ \A f \in 1 .. s[m] - 1 : f \in base \/ \E j \in 1 .. m - 1 : s[j] = f
    BY <2>2 DEF Backed
  <2>4. ASSUME NEW f, f \notin base, NEW j \in 1 .. m - 1, s[j] = f
        PROVE  \E i \in 1 .. k - 1 : t[i] = f
    <3>1. ~(j <= c)
      BY <2>4
    <3>2. j - c \in 1 .. k - 1 /\ j - c \in 1 .. Len(t) /\ c + (j - c) = j
      BY <1>1, <1>3, <2>1, <3>1
    <3>3. t[j - c] = s[j]
      BY <1>4, <3>2
    <3>. QED
      BY <2>4, <3>2, <3>3
  <2>. HIDE DEF m
  <2>. QED
    BY <2>2, <2>3, <2>4
<1>6. Backed(n, base, t)
  BY <1>5 DEF Backed
<1>. QED
  BY <1>6 DEF t

\* So is what recovery leaves of a queue, if the archive is in the base.
LEMMA BackedStrip ==
  ASSUME NEW n \in Nat, NEW base, NEW s \in Seq(Nat), NEW a \in Seq(Nat),
         Backed(n, base, s), Records(a) \subseteq base
  PROVE  Backed(n, base, StripArchived(s, a))
<1>1. CASE a # <<>> /\ StartsWith(s, a)
  <2>1. Len(a) \in Nat /\ Len(a) <= Len(s) /\ SubSeq(s, 1, Len(a)) = a
    BY <1>1, LenProperties DEF StartsWith
  <2>2. ASSUME NEW k \in 1 .. Len(a)
        PROVE  s[k] \in base
    <3>1. Len(s) \in Nat /\ \A j \in 1 .. Len(a) : s[j] \in Nat
      BY <2>1, LenProperties, ElementOfSeq
    <3>2. \A j \in 1 .. Len(a) - 1 + 1 : SubSeq(s, 1, Len(a))[j] = s[1 + j - 1]
      BY <2>1, <3>1, SubSeqProperties
    <3>3. a[k] = s[k]
      BY <2>1, <3>2
    <3>. QED
      BY <3>3 DEF Records
  <2>3. StripArchived(s, a) = SubSeq(s, Len(a) + 1, Len(s))
    BY <1>1 DEF StripArchived
  <2>. QED
    BY <2>1, <2>2, <2>3, BackedTail
<1>2. CASE ~(a # <<>> /\ StartsWith(s, a))
  BY <1>2 DEF StripArchived
<1>. QED
  BY <1>1, <1>2

\* What is backed by a base has all its records among the first events.
LEMMA BackedRecords ==
  ASSUME NEW n, NEW base, NEW s, Backed(n, base, s)
  PROVE  Records(s) \subseteq 1 .. n
BY DEF Backed, Records

\* The labels between the cut and the move: the tail is there, the queue too.
Cutting == {"prepare", "zeroMark", "archive"}

\* A step that leaves the files and the store alone, and brings no process to
\* a label that promises more.
LEMMA SameFiles ==
  ASSUME InTurn, UNCHANGED <<captured, queue, rest, merged, stored>>,
         Moved' <=> Moved,
         \A p \in Procs :
           /\ pc'[p] \in Cutting => pc[p] \in Cutting
           /\ pc'[p] \in {"mergeWrite", "dropMerged"} => pc'[p] = pc[p],
         \A i \in Ingesters :
           pc'[i] = "read" =>
             reader'[i].pos = 0 \/ (pc[i] = "read" /\ reader'[i] = reader[i])
  PROVE  InTurn'
<1>1. StoredEvents' = StoredEvents /\ Base' = Base
  BY DEF StoredEvents, Base
<1>2. FilesBacked'
  BY <1>1 DEF InTurn, FilesBacked, Cutting
<1>3. LinesRead'
  <2>. SUFFICES ASSUME NEW i \in Ingesters, pc'[i] = "read", NEW k \in 1 .. reader'[i].pos
                PROVE  Bytes(queue)[k] \in StoredEvents \cup Malformed
    BY <1>1 DEF LinesRead
  <2>1. pc[i] = "read" /\ reader'[i] = reader[i]
    OBVIOUS
  <2>. QED
    BY <2>1 DEF InTurn, LinesRead
<1>4. StoredInTurn'
  BY <1>1 DEF InTurn, StoredInTurn, Capturable
<1>. QED
  BY <1>2, <1>3, <1>4 DEF InTurn

\* While the lock holder is inside a rotation or its recovery, nobody reads.
LEMMA NobodyReads ==
  ASSUME Durability, NEW p \in Procs, pc[p] \in Locked, pc[p] \in Labels,
         p \in Rotators \/ pc[p] # "prepare", NEW l, Goto(p, l), l # "read"
  PROVE  \A i \in Ingesters : pc'[i] # "read"
<1>1. /\ pc'[p] = l
      /\ \A q \in Procs : q # p => pc[q] \in Outside /\ pc'[q] = pc[q]
  BY HolderStep DEF Durability
<1>2. CASE p \in Rotators
  BY <1>1, <1>2, HookQueueAssumption, LabelKinds DEF Durability, Apart, Procs
<1>3. CASE p \in Ingesters
  <2>1. rot.phase # "none"
    BY <1>3, HookQueueAssumption
    DEF Durability, PhaseOfLabel, Locked, RecoverLabels, RotateLabels
  <2>. QED
    BY <1>1, <1>3, <2>1 DEF Durability, ReadersSound, Procs
<1>. QED
  BY <1>2, <1>3 DEF Procs

\* A step of the lock holder after which what it has put into the files is
\* backed.
LEMMA HolderFiles ==
  ASSUME Durability, InTurn, NEW p \in Procs, pc[p] \in Locked, pc[p] \in Labels,
         p \in Rotators \/ pc[p] # "prepare", NEW l, Goto(p, l), l # "read", UNCHANGED <<captured, stored>>,
         Backed(captured, Base, Bytes(queue))',
         (Moved => Backed(captured, StoredEvents, Bytes(rest)))',
         l \in Cutting => Backed(captured, StoredEvents, Bytes(rest))',
         l = "mergeWrite" => Backed(captured, StoredEvents, merged)',
         l = "dropMerged" => Backed(captured, StoredEvents, Bytes(queue))'
  PROVE  InTurn'
<1>1. /\ pc'[p] = l
      /\ \A q \in Procs : q # p => pc[q] \in Outside /\ pc'[q] = pc[q]
  BY HolderStep DEF Durability
<1>2. FilesBacked'
  BY <1>1 DEF FilesBacked, Cutting, Outside
<1>3. LinesRead'
  BY NobodyReads DEF LinesRead
<1>4. StoredInTurn'
  BY DEF InTurn, StoredInTurn, Capturable, StoredEvents
<1>. QED
  BY <1>2, <1>3, <1>4 DEF InTurn

\* The types that the steps below rely on.
LEMMA FileTypes ==
  ASSUME Durability
  PROVE  /\ captured \in Nat
         /\ Bytes(queue) \in Seq(Nat) /\ Len(Bytes(queue)) \in Nat
         /\ Bytes(rest) \in Seq(Nat) /\ Len(Bytes(rest)) \in Nat
         /\ merged \in Seq(Nat) /\ LastArchive \in Seq(Nat)
<1>1. /\ captured \in Nat /\ merged \in Seq(Nat)
      /\ Bytes(queue) \in Seq(Nat) /\ Bytes(rest) \in Seq(Nat)
      /\ LastArchive \in Seq(Nat)
  BY BytesType, LastArchiveType, HookQueueAssumption DEF Durability, TypeOK
<1>. QED
  BY <1>1, LenProperties

----------------------------------------------------------------------------
(***************************************************************************)
(* Recovery.                                                               *)
(***************************************************************************)

\* Recovery keeps the events in turn: it puts the tail before what was
\* appended meanwhile, and strips only what the store or the tail has.
LEMMA InTurnRecover ==
  ASSUME Durability, InTurn, NEW p \in Procs, Recover(p)
  PROVE  InTurn'
<1>. USE DEF At
<1>0. TypeOK /\ PhaseOfLabel /\ TailOfRotation /\ pc \in [Procs -> Labels]
  BY DEF Durability, TypeOK
<1>1. ASSUME pc[p] \in {"restoreMark", "dropRest", "merge", "mergeWrite", "dropMerged",
                        "clearState"},
             NEW l, Goto(p, l)
      PROVE  /\ pc[p] \in Locked /\ pc[p] \in Labels
             /\ pc'[p] = l
             /\ \A q \in Procs : q # p => pc[q] \in Outside /\ pc'[q] = pc[q]
  <2>1. pc[p] \in Labels \cap Locked
    BY <1>1, LabelKinds
  <2>. QED
    BY <1>0, <1>1, <2>1, HolderStep
<1>2. CASE LockRecovery(p)
  <2>1. /\ UNCHANGED <<captured, queue, rest, rot, merged, stored, reader>>
        /\ pc[p] = "recover"
        /\ \E l : /\ Goto(p, l)
                  /\ l \in {"open", "rotate", "restoreMark", "merge"}
    BY <1>2 DEF LockRecovery, AfterRecovery, files, db
  <2>2. /\ pc'[p] \in {"open", "rotate", "restoreMark", "merge"}
        /\ \A q \in Procs : q # p => pc'[q] = pc[q]
    BY <1>0, <2>1 DEF Goto
  <2>3. Moved' <=> Moved
    BY <2>1, <2>2 DEF Moved, Someone
  <2>. QED
    BY <2>1, <2>2, <2>3, SameFiles DEF Cutting, Procs
<1>3. CASE RestoreMark(p) \/ NothingToMerge(p)
  <2>1. /\ UNCHANGED <<captured, queue, rest, rot, merged, stored, reader>>
        /\ pc[p] \in {"restoreMark", "merge"}
        /\ \E l : Goto(p, l) /\ l \in {"dropRest", "clearState"}
    BY <1>3 DEF RestoreMark, NothingToMerge, files, db
  <2>2. /\ pc'[p] \in {"dropRest", "clearState"}
        /\ \A q \in Procs : q # p => pc'[q] = pc[q]
    BY <1>1, <2>1
  <2>3. Moved' <=> Moved
    BY <2>1, <2>2 DEF Moved, Someone
  <2>. QED
    BY <2>1, <2>2, <2>3, SameFiles DEF Cutting, Procs
<1>4. CASE DropRest(p)
  <2>1. /\ UNCHANGED <<captured, queue, rot, merged, stored>>
        /\ pc[p] = "dropRest" /\ Goto(p, "clearState")
        /\ rot.phase = "prepared"
    BY <1>0, <1>4 DEF DropRest, db, PhaseOfLabel
  <2>2. ~Moved /\ ~Moved'
    BY <1>1, <2>1 DEF Moved, Someone, Outside
  <2>3. Base' = Base
    BY <2>1, <2>2 DEF Base, StoredEvents
  <2>. QED
    BY <1>1, <2>1, <2>2, <2>3, HolderFiles DEF InTurn, FilesBacked, Cutting
<1>5. CASE MergeTruncate(p)
  <2>1. /\ UNCHANGED <<captured, rest, rot, stored>>
        /\ pc[p] = "merge" /\ Goto(p, "mergeWrite")
        /\ rot.phase = "archived" /\ rest # NoFile /\ queue # NoFile
        /\ merged' = rest \o StripArchived(queue, LastArchive)
        /\ queue' = <<>>
    BY <1>0, <1>5 DEF MergeTruncate, db, PhaseOfLabel
  <2>2. Moved /\ Moved' /\ StoredEvents' = StoredEvents
    BY <2>1 DEF Moved, StoredEvents
  <2>3. Bytes(rest) = rest /\ Bytes(queue) = queue /\ Bytes(queue') = <<>>
    BY <2>1, NoRecords, EmptySeq, BytesOfFile DEF Bytes
  <2>4. /\ captured \in Nat /\ queue \in Seq(Nat) /\ rest \in Seq(Nat)
        /\ LastArchive \in Seq(Nat)
    BY <2>3, FileTypes
  <2>5. /\ Backed(captured, StoredEvents, rest)
        /\ Backed(captured, StoredEvents \cup Records(rest), queue)
    BY <2>2, <2>3 DEF InTurn, FilesBacked, Base
  <2>6. Records(LastArchive) \subseteq StoredEvents \cup Records(rest)
    BY <2>1, <2>3 DEF Durability, ArchiveCovered
  <2>7. Backed(captured, StoredEvents \cup Records(rest), StripArchived(queue, LastArchive))
    BY <2>4, <2>5, <2>6, BackedStrip
  <2>8. StripArchived(queue, LastArchive) \in Seq(Nat)
    BY <2>4, StripArchivedType
  <2>9. Backed(captured, StoredEvents, merged')
    BY <2>1, <2>4, <2>5, <2>7, <2>8, BackedConcat
  <2>10. Backed(captured, Base, Bytes(queue))'
    BY <2>3, BackedEmpty
  <2>11. Backed(captured', StoredEvents', merged') /\ Backed(captured', StoredEvents', Bytes(rest'))
    BY <2>1, <2>2, <2>3, <2>5, <2>9
  <2>. QED
    BY <1>1, <2>1, <2>10, <2>11, HolderFiles DEF Cutting
<1>6. CASE MergeWrite(p)
  <2>1. /\ UNCHANGED <<captured, rest, rot, stored, merged>>
        /\ pc[p] = "mergeWrite" /\ Goto(p, "dropMerged")
        /\ rot.phase = "archived" /\ queue' = merged
    BY <1>0, <1>6 DEF MergeWrite, db, PhaseOfLabel
  <2>2. Moved /\ Moved' /\ StoredEvents' = StoredEvents
    BY <2>1 DEF Moved, StoredEvents
  <2>3. captured \in Nat /\ merged \in Seq(Nat) /\ Bytes(queue') = merged
    BY <2>1, FileTypes, BytesOfFile
  <2>4. /\ Backed(captured, StoredEvents, merged)
        /\ Backed(captured, StoredEvents, Bytes(rest))
    BY <2>1, <2>2 DEF InTurn, FilesBacked
  <2>5. StoredEvents \subseteq Base'
    BY <2>2 DEF Base
  <2>6. Backed(captured, Base', merged)
    BY <2>3, <2>4, <2>5, BackedMore
  <2>7. /\ Backed(captured', Base', Bytes(queue'))
        /\ Backed(captured', StoredEvents', Bytes(queue'))
        /\ Backed(captured', StoredEvents', Bytes(rest'))
    BY <2>1, <2>2, <2>3, <2>4, <2>6
  <2>. QED
    BY <1>1, <2>1, <2>7, HolderFiles DEF Cutting
<1>7. CASE DropMerged(p)
  <2>1. /\ UNCHANGED <<captured, queue, rot, stored, merged>>
        /\ pc[p] = "dropMerged" /\ Goto(p, "clearState")
        /\ rest' = NoFile
    BY <1>7 DEF DropMerged, db
  <2>2. captured \in Nat /\ StoredEvents' = StoredEvents /\ Bytes(rest') = <<>>
    BY <2>1, FileTypes, NoRecords DEF StoredEvents
  <2>3. Backed(captured, StoredEvents, Bytes(queue))
    BY <2>1 DEF InTurn, FilesBacked
  <2>4. StoredEvents \subseteq Base'
    BY <2>2 DEF Base
  <2>5. Backed(captured, Base', Bytes(queue))
    BY <2>2, <2>3, <2>4, BackedMore
  <2>6. Backed(captured', StoredEvents', Bytes(rest')) /\ Backed(captured', Base', Bytes(queue'))
    BY <2>1, <2>2, <2>5, BackedEmpty
  <2>. QED
    BY <1>1, <2>1, <2>6, HolderFiles DEF Cutting
<1>8. CASE MoveRest(p)
  <2>1. /\ UNCHANGED <<captured, rot, stored, merged>>
        /\ pc[p] = "merge" /\ Goto(p, "clearState")
        /\ rot.phase = "archived" /\ queue' = rest /\ rest' = NoFile
    BY <1>0, <1>8 DEF MoveRest, db, PhaseOfLabel
  <2>2. /\ captured \in Nat /\ StoredEvents' = StoredEvents
        /\ Bytes(rest') = <<>> /\ Bytes(queue') = Bytes(rest)
    BY <2>1, FileTypes, NoRecords DEF StoredEvents
  <2>3. Backed(captured, StoredEvents, Bytes(rest))
    BY <2>1 DEF InTurn, FilesBacked, Moved
  <2>4. StoredEvents \subseteq Base'
    BY <2>2 DEF Base
  <2>5. Backed(captured, Base', Bytes(rest))
    BY <2>2, <2>3, <2>4, BackedMore
  <2>6. Backed(captured', StoredEvents', Bytes(rest')) /\ Backed(captured', Base', Bytes(queue'))
    BY <2>1, <2>2, <2>5, BackedEmpty
  <2>. QED
    BY <1>1, <2>1, <2>6, HolderFiles DEF Cutting
<1>9. CASE ClearState(p)
  <2>1. /\ UNCHANGED <<captured, queue, rest, stored, merged>>
        /\ pc[p] = "clearState" /\ Goto(p, AfterRecovery(p))
        /\ rot' = NoRotation
        /\ rot.phase = "archived" => rest = NoFile
    BY <1>0, <1>9 DEF ClearState, db, TailOfRotation
  <2>2. AfterRecovery(p) \in {"open", "rotate"}
    BY DEF AfterRecovery
  <2>3. ~Moved' /\ ~Someone("markArchived")
    BY <1>1, <2>1, <2>2 DEF Moved, Someone, NoRotation, Outside
  <2>4. Base' = Base
    BY <2>1, <2>3, NoRecords DEF Base, StoredEvents, Moved
  <2>. QED
    BY <1>1, <2>1, <2>2, <2>3, <2>4, HolderFiles DEF InTurn, FilesBacked, Cutting
<1>. QED
  BY <1>2, <1>3, <1>4, <1>5, <1>6, <1>7, <1>8, <1>9 DEF Recover

----------------------------------------------------------------------------
(***************************************************************************)
(* Rotation, hooks and failures.                                           *)
(***************************************************************************)

\* A rotation cuts off what is stored, and the tail replaces the queue.
LEMMA InTurnRotate ==
  ASSUME Serial, Durability, InTurn, NEW r \in Rotators, RotateStart(r) \/ Rotate(r)
  PROVE  InTurn'
<1>. USE DEF At
<1>0. /\ r \in Procs /\ pc \in [Procs -> Labels] /\ TypeOK
      /\ PhaseOfLabel /\ TailOfRotation
  BY DEF Durability, TypeOK, Procs
<1>1. ASSUME pc[r] \in {"prepare", "zeroMark", "archive", "markArchived", "restore",
                        "clear"},
             NEW l, Goto(r, l)
      PROVE  /\ pc[r] \in Locked /\ pc[r] \in Labels
             /\ pc'[r] = l
             /\ \A q \in Procs : q # r => pc[q] \in Outside /\ pc'[q] = pc[q]
  <2>1. pc[r] \in Labels \cap Locked
    BY <1>1, LabelKinds
  <2>. QED
    BY <1>0, <1>1, <2>1, HolderStep
<1>2. CASE RotateStart(r) \/ RotateSkip(r) \/ RotatePrune(r)
  <2>1. /\ UNCHANGED <<captured, queue, rest, rot, merged, stored, reader>>
        /\ pc[r] \in {"idle", "rotate", "prune"}
        /\ \E l \in {"idle", "recover", "rotate"} : Goto(r, l)
    BY <1>0, <1>2, HookQueueAssumption
    DEF RotateStart, RotateSkip, RotatePrune, Entry, AfterRecovery, files, db
  <2>2. /\ pc'[r] \in {"idle", "recover", "rotate"}
        /\ \A q \in Procs : q # r => pc'[q] = pc[q]
    BY <1>0, <2>1 DEF Goto
  <2>3. Moved' <=> Moved
    BY <2>1, <2>2 DEF Moved, Someone
  <2>. QED
    BY <2>1, <2>2, <2>3, SameFiles DEF Cutting, Procs
<1>3. CASE RotateCut(r)
  <2>1. /\ UNCHANGED <<captured, queue, rot, stored, merged>>
        /\ pc[r] = "rotate" /\ Goto(r, "prepare") /\ lock = NoProc /\ mark > 0
        /\ Len(Bytes(queue)) > MaxSize
        /\ cut' = Lesser(mark, Len(queue)) /\ rest' = SubSeq(queue, cut' + 1, Len(queue))
    BY <1>3 DEF RotateCut, db
  <2>2. /\ pc'[r] = "prepare"
        /\ \A q \in Procs : pc[q] \in Outside
        /\ \A q \in Procs : q # r => pc'[q] = pc[q]
    BY <1>0, <2>1, FreeStep DEF Goto
  <2>3. /\ ~Moved /\ ~Moved' /\ Base = StoredEvents /\ Base' = StoredEvents
        /\ StoredEvents' = StoredEvents
    BY <2>1, <2>2 DEF Durability, MarksSound, Moved, Someone, Outside, Base, StoredEvents
  <2>4. queue \in Seq(Nat)
    BY <1>0, <2>1, HookQueueAssumption, EmptySeq DEF Bytes, TypeOK
  <2>5. queue # NoFile /\ Bytes(queue) = queue /\ Len(queue) \in Nat
    BY <2>4, BytesOfFile, LenProperties
  <2>6. cut' \in Nat /\ cut' <= Len(queue) /\ cut' <= mark
    BY <1>0, <2>1, <2>5, LesserBounds DEF TypeOK
  <2>7. \A k \in 1 .. cut' : queue[k] \in StoredEvents
    BY <1>0, <2>5, <2>6 DEF Durability, MarksSound, Processed, TypeOK
  <2>8. Backed(captured, StoredEvents, queue)
    BY <2>3, <2>5 DEF InTurn, FilesBacked
  <2>9. captured \in Nat
    BY FileTypes
  <2>10. Backed(captured, StoredEvents, rest')
    BY <2>1, <2>4, <2>6, <2>7, <2>8, <2>9, BackedTail
  <2>11. Bytes(rest') = rest'
    BY <2>1, <2>4, <2>6, LinesOfTail, BytesOfFile
  <2>12. FilesBacked'
    BY <2>1, <2>2, <2>3, <2>5, <2>8, <2>10, <2>11 DEF FilesBacked, Outside
  <2>13. LinesRead'
    <3>1. \A i \in Ingesters : pc'[i] = "idle"
      BY <2>1, <2>2, HookQueueAssumption DEF Durability, Apart, Procs
    <3>. QED
      BY <3>1 DEF LinesRead
  <2>14. StoredInTurn'
    BY <2>1, <2>3 DEF InTurn, StoredInTurn, Capturable
  <2>. QED
    BY <2>12, <2>13, <2>14 DEF InTurn
<1>4. CASE RotatePrepare(r) \/ RotateZeroMark(r) \/ RotateMarkArchived(r)
  <2>1. /\ UNCHANGED <<captured, queue, rest, merged, stored, reader>>
        /\ pc[r] \in {"prepare", "zeroMark", "markArchived"}
        /\ \E l \in {"zeroMark", "archive", "restore"} : Goto(r, l)
    BY <1>4 DEF RotatePrepare, RotateZeroMark, RotateMarkArchived, db
  <2>2. /\ pc'[r] \in {"zeroMark", "archive", "restore"}
        /\ \A q \in Procs : q # r => pc[q] \in Outside /\ pc'[q] = pc[q]
    BY <1>1, <2>1
  <2>3. Moved' <=> Moved
    <3>1. CASE RotatePrepare(r) \/ RotateZeroMark(r)
      <4>1. pc[r] \in {"prepare", "zeroMark"} /\ rot.phase # "archived" /\ rot'.phase # "archived"
        BY <1>0, <3>1 DEF RotatePrepare, RotateZeroMark, PhaseOfLabel
      <4>. QED
        BY <2>2, <4>1 DEF Moved, Someone, Outside
    <3>2. CASE RotateMarkArchived(r)
      BY <1>0, <3>2 DEF RotateMarkArchived, Moved, Someone
    <3>. QED
      BY <1>4, <3>1, <3>2
  <2>4. pc'[r] \in Cutting => pc[r] \in Cutting
    BY <1>0, <1>4 DEF RotatePrepare, RotateZeroMark, RotateMarkArchived, Cutting, Goto
  <2>. QED
    BY <2>1, <2>2, <2>3, <2>4, SameFiles, HookQueueAssumption DEF Procs
<1>5. CASE RotateArchive(r)
  <2>1. /\ UNCHANGED <<captured, rest, rot, merged, stored>>
        /\ pc[r] = "archive" /\ Goto(r, "markArchived")
        /\ queue' = NoFile
    BY <1>5 DEF RotateArchive, db
  <2>2. Bytes(queue') = <<>> /\ StoredEvents' = StoredEvents
    BY <2>1, NoRecords DEF StoredEvents
  <2>3. Backed(captured, StoredEvents, Bytes(rest))
    BY <1>0, <2>1 DEF InTurn, FilesBacked
  <2>4. Backed(captured', StoredEvents', Bytes(rest')) /\ Backed(captured', Base', Bytes(queue'))
    BY <2>1, <2>2, <2>3, BackedEmpty
  <2>. QED
    BY <1>0, <1>1, <2>1, <2>4, HolderFiles DEF Cutting
<1>6. CASE RotateRestore(r)
  <2>1. /\ UNCHANGED <<captured, rot, merged, stored>>
        /\ pc[r] = "restore" /\ Goto(r, "clear")
        /\ rot.phase = "archived" /\ queue' = rest /\ rest' = NoFile
    BY <1>0, <1>6 DEF RotateRestore, db, PhaseOfLabel
  <2>2. /\ captured \in Nat /\ StoredEvents' = StoredEvents
        /\ Bytes(rest') = <<>> /\ Bytes(queue') = Bytes(rest)
    BY <2>1, FileTypes, NoRecords DEF StoredEvents
  <2>3. Backed(captured, StoredEvents, Bytes(rest))
    BY <2>1 DEF InTurn, FilesBacked, Moved
  <2>4. StoredEvents \subseteq Base'
    BY <2>2 DEF Base
  <2>5. Backed(captured, Base', Bytes(rest))
    BY <2>2, <2>3, <2>4, BackedMore
  <2>6. Backed(captured', StoredEvents', Bytes(rest')) /\ Backed(captured', Base', Bytes(queue'))
    BY <2>1, <2>2, <2>5, BackedEmpty
  <2>. QED
    BY <1>0, <1>1, <2>1, <2>6, HolderFiles DEF Cutting
<1>7. CASE RotateClear(r)
  <2>1. /\ UNCHANGED <<captured, queue, rest, merged, stored>>
        /\ pc[r] = "clear" /\ Goto(r, "prune")
        /\ rot' = NoRotation /\ rest = NoFile
    BY <1>0, <1>7 DEF RotateClear, db, TailOfRotation
  <2>2. ~Moved'
    BY <1>1, <2>1 DEF Moved, Someone, NoRotation, Outside
  <2>3. Base' = Base
    BY <2>1, <2>2, NoRecords DEF Base, StoredEvents
  <2>. QED
    BY <1>0, <1>1, <2>1, <2>2, <2>3, HolderFiles DEF InTurn, FilesBacked, Cutting
<1>8. CASE Recover(r)
  BY <1>0, <1>8, InTurnRecover
<1>. QED
  BY <1>2, <1>3, <1>4, <1>5, <1>6, <1>7, <1>8 DEF Rotate

\* A hook appends the next event: nothing captured before it is lost, so it is
\* stored or in the files before it.
LEMMA InTurnCapture ==
  ASSUME Durability, InTurn, Capture
  PROVE  InTurn'
<1>1. /\ \A q \in Procs : pc[q] \in Outside
      /\ UNCHANGED <<rest, rot, stored, merged, pc, reader>>
      /\ captured' = captured + 1
      /\ queue' = Append(Bytes(queue), captured + 1)
  BY FreeStep DEF Capture, db, Durability
<1>2. /\ captured \in Nat /\ Bytes(queue) \in Seq(Nat) /\ Len(Bytes(queue)) \in Nat
  BY FileTypes
<1>3. queue' \in Seq(Nat) /\ Bytes(queue') = queue'
  <2>1. captured + 1 \in Nat
    BY <1>2
  <2>2. Append(Bytes(queue), captured + 1) \in Seq(Nat)
    BY <1>2, <2>1, AppendProperties
  <2>3. queue' \in Seq(Nat)
    BY <1>1, <2>2
  <2>. QED
    BY <2>3, BytesOfFile
<1>4. StoredEvents' = StoredEvents /\ Base' = Base /\ (Moved' <=> Moved)
  BY <1>1 DEF StoredEvents, Base, Moved, Someone
<1>5. 1 .. captured \subseteq Base \cup Records(Bytes(queue))
  <2>1. Recoverable \subseteq Base \cup Records(Bytes(queue))
    BY <1>1 DEF Recoverable, Base, Moved, Someone, Outside
  <2>. QED
    BY <2>1 DEF Durability, NoLoss, Capturable, Base
<1>6. Backed(captured + 1, Base, Append(Bytes(queue), captured + 1))
  BY <1>2, <1>5, BackedAppend DEF InTurn, FilesBacked
<1>7. Moved => Backed(captured + 1, StoredEvents, Bytes(rest))
  <2>1. captured + 1 \in Nat /\ captured <= captured + 1
    BY <1>2
  <2>. QED
    BY <1>2, <2>1, BackedMore DEF InTurn, FilesBacked
<1>8. FilesBacked'
  BY <1>1, <1>3, <1>4, <1>6, <1>7 DEF FilesBacked, Outside
<1>9. LinesRead'
  <2>. SUFFICES ASSUME NEW i \in Ingesters, pc[i] = "read", NEW k \in 1 .. reader[i].pos
                PROVE  Bytes(queue')[k] \in StoredEvents \cup Malformed
    BY <1>1, <1>4 DEF LinesRead
  <2>1. reader[i].pos \in Nat /\ reader[i].pos <= Len(Bytes(queue))
    BY DEF Durability, ReadersSound, TypeOK, ReaderStates
  <2>2. Bytes(queue')[k] = Bytes(queue)[k]
    <3>1. k \in 1 .. Len(Bytes(queue)) /\ captured + 1 \in Nat
      BY <1>2, <2>1
    <3>2. Append(Bytes(queue), captured + 1)[k] = Bytes(queue)[k]
      BY <1>2, <3>1, AppendProperties
    <3>. QED
      BY <1>1, <1>3, <3>2
  <2>. QED
    BY <2>2 DEF InTurn, LinesRead
<1>10. StoredInTurn'
  BY <1>1, <1>2, <1>4 DEF InTurn, StoredInTurn, Capturable
<1>. QED
  BY <1>8, <1>9, <1>10 DEF InTurn

\* A reader stores the next line: all that was captured before it is stored or
\* stands before it in the queue, where it was read.
LEMMA InTurnLine ==
  ASSUME Durability, InTurn, NEW i \in Ingesters, IngestLine(i), TypeOK'
  PROVE  InTurn'
<1>. DEFINE line == reader[i].pos + 1
            e == Bytes(queue)[line]
<1>1. /\ pc[i] = "read" /\ rot.phase = "none"
      /\ UNCHANGED <<captured, queue, rest, rot, merged, pc>>
  BY DEF IngestLine, files, Durability, ReadersSound
<1>2. /\ reader[i] \in ReaderStates
      /\ FileOf(i) = Bytes(queue)
      /\ reader[i].pos < Len(Bytes(queue))
  BY <1>1 DEF Durability, ReadersSound, FileOf, IngestLine, TypeOK
<1>3. Len(Bytes(queue)) \in Nat /\ reader[i].pos \in Nat /\ captured \in Nat
  BY <1>2, FileTypes DEF ReaderStates
<1>4. line \in 1 .. Len(Bytes(queue)) /\ line - 1 = reader[i].pos
  BY <1>2, <1>3
<1>5. /\ e \in Malformed => stored' = stored
      /\ e \notin Malformed => stored' = stored \cup {<<line, e>>}
  BY <1>2 DEF IngestLine
<1>6. /\ reader'[i].pos = line
      /\ \A j \in Ingesters : j # i => reader'[j] = reader[j]
  <2>. DEFINE bad == reader[i].bad \/ FileOf(i)[line] \in Malformed
              next == [reader[i] EXCEPT !.pos = line, !.bad = bad,
                         !.done = IF bad THEN reader[i].done ELSE line]
  <2>1. reader' = [reader EXCEPT ![i] = next]
    BY DEF IngestLine
  <2>2. reader'[i] = next /\ \A j \in Ingesters : j # i => reader'[j] = reader[j]
    BY <2>1 DEF Durability, TypeOK
  <2>3. next.pos = line
    BY <1>2 DEF ReaderStates
  <2>. QED
    BY <2>2, <2>3
<1>7. ~Someone("markArchived") /\ ~Moved /\ ~Moved'
  <2>1. \A r \in Rotators : pc[r] = "idle"
    BY <1>1 DEF Durability, Apart
  <2>2. \A j \in Procs : pc[j] # "markArchived"
    BY <1>1, <2>1 DEF Durability, PhaseOfLabel
  <2>. QED
    BY <1>1, <2>2 DEF Someone, Moved
<1>. HIDE DEF line, e
<1>8. StoredEvents' = IF e \in Malformed THEN StoredEvents ELSE StoredEvents \cup {e}
  <2>1. CASE e \in Malformed
    BY <1>5, <2>1 DEF StoredEvents
  <2>2. CASE e \notin Malformed
    <3>1. stored' = stored \cup {<<line, e>>} /\ <<line, e>>[2] = e
      BY <1>5, <2>2
    <3>. QED
      BY <2>2, <3>1 DEF StoredEvents
  <2>. QED
    BY <2>1, <2>2
<1>9. /\ e \in 1 .. captured
      /\ \A f \in 1 .. e - 1 :
           f \in StoredEvents \/ \E j \in 1 .. line - 1 : Bytes(queue)[j] = f
  BY <1>4, <1>7 DEF InTurn, FilesBacked, Backed, Base, e
<1>10. \A f \in 1 .. e - 1 : f \in StoredEvents \cup Malformed
  BY <1>1, <1>4, <1>9 DEF InTurn, LinesRead
<1>11. StoredInTurn'
  <2>1. Capturable' = Capturable /\ Capturable = 1 .. captured
    BY <1>1 DEF Capturable
  <2>. QED
    BY <1>8, <1>9, <1>10, <2>1 DEF InTurn, StoredInTurn
<1>12. LinesRead'
  <2>. SUFFICES ASSUME NEW j \in Ingesters, pc[j] = "read", NEW k \in 1 .. reader'[j].pos
                PROVE  Bytes(queue)[k] \in StoredEvents' \cup Malformed
    BY <1>1 DEF LinesRead
  <2>1. CASE k \in 1 .. reader[j].pos
    BY <1>8, <2>1 DEF InTurn, LinesRead
  <2>2. CASE k \notin 1 .. reader[j].pos
    <3>1. j = i
      BY <1>6, <2>2
    <3>2. k = line
      BY <1>3, <1>4, <1>6, <2>2, <3>1
    <3>. QED
      BY <1>8, <3>2 DEF e
  <2>. QED
    BY <2>1, <2>2
<1>13. FilesBacked'
  <2>1. StoredEvents \subseteq StoredEvents' /\ Base \subseteq Base'
    BY <1>1, <1>7, <1>8 DEF Base
  <2>2. \A s : /\ Backed(captured, StoredEvents, s) => Backed(captured, StoredEvents', s)
               /\ Backed(captured, Base, s) => Backed(captured, Base', s)
    BY <1>3, <2>1, BackedMore
  <2>. QED
    BY <1>1, <1>7, <2>2 DEF InTurn, FilesBacked
<1>. QED
  BY <1>11, <1>12, <1>13 DEF InTurn

\* The other steps of an ingest run leave files and store alone.
LEMMA InTurnIngest ==
  ASSUME Durability, InTurn, NEW i \in Ingesters, IngestStart(i) \/ Ingest(i), TypeOK'
  PROVE  InTurn'
<1>. USE DEF At
<1>0. i \in Procs /\ pc \in [Procs -> Labels] /\ reader \in [Ingesters -> ReaderStates]
  BY DEF Durability, TypeOK, Procs
<1>1. CASE IngestStart(i) \/ IngestOpen(i) \/ IngestEof(i) \/ IngestRecord(i)
  <2>1. /\ UNCHANGED <<captured, queue, rest, rot, merged, stored>>
        /\ pc[i] \in {"idle", "open", "read", "record"}
        /\ \E l \in {"idle", "recover", "open", "read", "record"} :
             Goto(i, l) /\ (l = "read" => reader' = [reader EXCEPT ![i] = NewReader])
        /\ \A j \in Ingesters : j # i => reader'[j] = reader[j]
    BY <1>0, <1>1
    DEF IngestStart, IngestOpen, IngestEof, IngestRecord, Entry, AfterRecovery, files, db
  <2>2. /\ pc'[i] \in {"idle", "recover", "open", "read", "record"}
        /\ \A q \in Procs : q # i => pc'[q] = pc[q]
        /\ pc'[i] = "read" => reader'[i].pos = 0
    BY <1>0, <2>1 DEF Goto, NewReader
  <2>3. Moved' <=> Moved
    BY <2>1, <2>2 DEF Moved, Someone
  <2>. QED
    BY <2>1, <2>2, <2>3, SameFiles DEF Cutting, Procs
<1>2. CASE IngestLine(i)
  BY <1>2, InTurnLine
<1>3. CASE Recover(i)
  BY <1>0, <1>3, InTurnRecover
<1>. QED
  BY <1>1, <1>2, <1>3 DEF Ingest

\* A run that dies leaves the files as they are, unless it dies where the code
\* gives up the tail.
LEMMA InTurnFail ==
  ASSUME Serial, Durability, InTurn, NEW p \in Procs, Fail(p)
  PROVE  InTurn'
<1>1. /\ UNCHANGED <<captured, queue, rest, rot, merged, stored>>
      /\ pc[p] \notin {"markArchived", "mergeWrite"}
      /\ Goto(p, "idle")
      /\ \A i \in Ingesters : i # p => reader'[i] = reader[i]
  BY DEF Fail, Serial, files, db, Durability, TypeOK
<1>2. pc'[p] = "idle" /\ \A q \in Procs : q # p => pc'[q] = pc[q]
  BY <1>1 DEF Goto, Durability, TypeOK
<1>3. Moved' <=> Moved
  BY <1>1, <1>2 DEF Moved, Someone
<1>. QED
  BY <1>1, <1>2, <1>3, SameFiles DEF Cutting, Procs

\* Every step keeps the events in turn.
LEMMA InTurnNext ==
  ASSUME Serial, Durability, InTurn, [Next]_vars
  PROVE  InTurn'
<1>1. TypeOK'
  BY TypeNext DEF Durability
<1>2. CASE TouchQueue
  <2>1. /\ UNCHANGED <<captured, rest, rot, merged, stored, pc, reader>>
        /\ Bytes(queue') = Bytes(queue)
    BY <1>2, NoRecords, EmptySeq, BytesOfFile DEF TouchQueue, db
  <2>2. StoredEvents' = StoredEvents /\ Base' = Base /\ (Moved' <=> Moved)
    BY <2>1 DEF StoredEvents, Base, Moved, Someone
  <2>. QED
    BY <2>1, <2>2 DEF InTurn, FilesBacked, LinesRead, StoredInTurn, Capturable
<1>3. CASE UNCHANGED vars
  <2>1. Moved' <=> Moved
    BY <1>3 DEF vars, Moved, Someone
  <2>. QED
    BY <1>3, <2>1, SameFiles DEF vars
<1>4. CASE Capture
  BY <1>4, InTurnCapture
<1>5. ASSUME NEW i \in Ingesters, IngestStart(i) \/ Ingest(i)
      PROVE  InTurn'
  BY <1>1, <1>5, InTurnIngest
<1>6. ASSUME NEW r \in Rotators, RotateStart(r) \/ Rotate(r)
      PROVE  InTurn'
  BY <1>6, InTurnRotate
<1>7. ASSUME NEW p \in Procs, Fail(p)
      PROVE  InTurn'
  BY <1>7, InTurnFail
<1>. QED
  BY <1>2, <1>3, <1>4, <1>5, <1>6, <1>7 DEF Next

\* Nothing is stored or in the files at first.
LEMMA InTurnInit == Init => InTurn
<1>. SUFFICES ASSUME Init PROVE InTurn
  OBVIOUS
<1>1. /\ Bytes(queue) = <<>> /\ StoredEvents = {} /\ ~Moved
      /\ \A p \in Procs : pc[p] = "idle"
  BY NoRecords DEF Init, StoredEvents, Moved, Someone, NoRotation
<1>. QED
  BY <1>1, BackedEmpty DEF InTurn, FilesBacked, LinesRead, StoredInTurn, Procs

----------------------------------------------------------------------------
(***************************************************************************)
(* The latest of a set of events.                                          *)
(***************************************************************************)

\* Later is a strict total order: the identifier decides a tie.
LEMMA LaterOrders ==
  /\ \A e, f \in Events : e # f => Later(e, f) \/ Later(f, e)
  /\ \A e, f \in Events : ~(Later(e, f) /\ Later(f, e))
  /\ \A e, f, g \in Events : Later(e, f) /\ Later(f, g) => Later(e, g)
<1>1. \A e \in Events : e \in Nat /\ CapturedAt[e] \in Nat
  BY HookQueueAssumption, SessionStateAssumption DEF Events
<1>. QED
  BY <1>1 DEF Later

\* Some event is later than all others: one with the fewest events after it.
LEMMA SomeIsLatest ==
  ASSUME NEW S \in SUBSET Events, S # {}
  PROVE  \E e \in S : \A f \in S \ {e} : Later(e, f)
<1>. DEFINE After(e) == {f \in S : Later(f, e)}
            T == {After(e) : e \in S}
<1>1. IsFiniteSet(S)
  <2>1. IsFiniteSet(Events)
    BY HookQueueAssumption, FS_Interval DEF Events
  <2>. QED
    BY <2>1, FS_Subset
<1>2. T \subseteq FiniteSubsetsOf(S) /\ T # {}
  <2>1. FiniteSubsetsOf(S) = SUBSET S
    BY <1>1, FS_FiniteSubsetsOfFinite
  <2>2. \A e : After(e) \in SUBSET S
    OBVIOUS
  <2>. HIDE DEF After
  <2>. QED
    BY <2>1, <2>2
<1>3. \E A \in T : \A B \in T : ~(<<B, A>> \in StrictSubsetOrdering(S))
  <2>. HIDE DEF T
  <2>. QED
    BY <1>2, FS_StrictSubsetOrderingWellFounded, WFMin
<1>4. PICK e \in S : \A f \in S : ~(<<After(f), After(e)>> \in StrictSubsetOrdering(S))
  BY <1>3
<1>5. ASSUME NEW f \in S, Later(f, e)
      PROVE  FALSE
  <2>1. After(f) \subseteq After(e) /\ f \in After(e) /\ f \notin After(f)
    BY <1>5, LaterOrders
  <2>2. <<After(f), After(e)>> \in StrictSubsetOrdering(S)
    BY <2>1 DEF StrictSubsetOrdering
  <2>. QED
    BY <1>4, <2>2
<1>. QED
  BY <1>5, LaterOrders

\* Latest finds it, and nothing else is later than all others.
LEMMA LatestIs ==
  ASSUME NEW S \in SUBSET Events, S # {}
  PROVE  /\ Latest(S) \in S
         /\ \A f \in S \ {Latest(S)} : Later(Latest(S), f)
         /\ \A e \in S : (\A f \in S \ {e} : Later(e, f)) => e = Latest(S)
<1>1. /\ Latest(S) \in S
      /\ \A f \in S \ {Latest(S)} : Later(Latest(S), f)
  BY SomeIsLatest DEF Latest
<1>2. ASSUME NEW e \in S, \A f \in S \ {e} : Later(e, f)
      PROVE  e = Latest(S)
  BY <1>1, <1>2, LaterOrders
<1>. QED
  BY <1>1, <1>2

\* The latest rows are those no later one of the same session has replaced.
LEMMA LatestRowsAre ==
  ASSUME NEW S \in SUBSET Events
  PROVE  LatestRows(S) =
           {e \in S : \A f \in S \ {e} : SessionOf[e] = SessionOf[f] => Later(e, f)}
<1>. DEFINE Of(s) == {e \in S : SessionOf[e] = s}
<1>1. \A s : Of(s) \in SUBSET Events
  OBVIOUS
<1>2. LatestRows(S) = {Latest(Of(s)) : s \in {SessionOf[e] : e \in S}}
  BY DEF LatestRows
<1>3. ASSUME NEW e \in S
      PROVE  /\ Latest(Of(SessionOf[e])) \in S
             /\ SessionOf[Latest(Of(SessionOf[e]))] = SessionOf[e]
             /\ \A f \in S \ {Latest(Of(SessionOf[e]))} :
                  SessionOf[f] = SessionOf[e] => Later(Latest(Of(SessionOf[e])), f)
  <2>1. e \in Of(SessionOf[e])
    OBVIOUS
  <2>2. /\ Latest(Of(SessionOf[e])) \in Of(SessionOf[e])
        /\ \A f \in Of(SessionOf[e]) \ {Latest(Of(SessionOf[e]))} :
             Later(Latest(Of(SessionOf[e])), f)
    BY <1>1, <2>1, LatestIs
  <2>. QED
    BY <2>2
<1>4. ASSUME NEW e \in S,
             \A f \in S \ {e} : SessionOf[e] = SessionOf[f] => Later(e, f)
      PROVE  e = Latest(Of(SessionOf[e]))
  <2>1. e \in Of(SessionOf[e]) /\ \A f \in Of(SessionOf[e]) \ {e} : Later(e, f)
    BY <1>4
  <2>. QED
    BY <1>1, <2>1, LatestIs
<1>. HIDE DEF Of
<1>5. LatestRows(S) = {Latest(Of(SessionOf[e])) : e \in S}
  BY <1>2
<1>. QED
  BY <1>3, <1>4, <1>5

\* What a report makes of the first n events is what the reference calls current.
LEMMA AnswerIsCurrent ==
  ASSUME NEW ask \in Asks, NEW n \in 0 .. MaxEvents
  PROVE  /\ Answer(ask, (1 .. n) \ Malformed) = Current(ask, n)
         /\ States(ask, (1 .. n) \ Malformed) = {<<e, Status(e)>> : e \in Current(ask, n)}
<1>. DEFINE S == (1 .. n) \ Malformed
            known == {e \in S : Within(ask, e)}
<1>1. S \in SUBSET Events /\ known \in SUBSET Events
  BY HookQueueAssumption DEF Events
<1>2. CASE ask.kind = "session"
  <2>1. known = {e \in S : SessionOf[e] = ask.of}
    BY <1>2 DEF Within
  <2>2. Answer(ask, S) = LatestRows(known)
    BY <1>2, <2>1 DEF Answer
  <2>. QED
    BY <1>1, <1>2, <2>2, LatestRowsAre DEF Current, States
<1>3. CASE ask.kind = "repo"
  <2>1. known = {e \in S : RepoOf[e] = ask.of}
    BY <1>3 DEF Within
  <2>2. Answer(ask, S) = IF LatestRows(known) = {} THEN {} ELSE {Latest(LatestRows(known))}
    BY <1>3, <2>1 DEF Answer
  <2>3. LatestRows(known) =
          {e \in known : \A f \in known \ {e} : SessionOf[e] = SessionOf[f] => Later(e, f)}
    BY <1>1, LatestRowsAre
  <2>4. Current(ask, n) = {e \in known : \A f \in known \ {e} : Later(e, f)}
    BY <1>3 DEF Current
  <2>5. Answer(ask, S) = Current(ask, n)
    <3>. HIDE DEF known
    <3>1. CASE known = {}
      BY <2>2, <2>3, <2>4, <3>1
    <3>2. CASE known # {}
      <4>1. /\ Latest(known) \in known
            /\ \A f \in known \ {Latest(known)} : Later(Latest(known), f)
        BY <1>1, <3>2, LatestIs
      <4>2. Latest(known) \in LatestRows(known) /\ LatestRows(known) \subseteq known
        BY <2>3, <4>1
      <4>3. Latest(LatestRows(known)) = Latest(known)
        <5>1. \A f \in LatestRows(known) \ {Latest(known)} : Later(Latest(known), f)
          BY <4>1, <4>2
        <5>2. LatestRows(known) \in SUBSET Events /\ LatestRows(known) # {}
          BY <1>1, <4>2
        <5>. QED
          BY <4>2, <5>1, <5>2, LatestIs
      <4>4. Current(ask, n) = {Latest(known)}
        BY <1>1, <2>4, <3>2, <4>1, LatestIs
      <4>. QED
        BY <2>2, <4>2, <4>3, <4>4
    <3>. QED
      BY <3>1, <3>2
  <2>. QED
    BY <2>5 DEF States
<1>4. CASE ask.kind = "summary"
  <2>1. known = S
    BY <1>4 DEF Within
  <2>2. Answer(ask, S) = LatestRows(known)
    BY <1>4, <2>1 DEF Answer
  <2>. QED
    BY <1>1, <1>4, <2>2, LatestRowsAre DEF Current, States
<1>5. ask.kind \in {"session", "repo", "summary"}
  BY DEF Asks, Summary
<1>. HIDE DEF S
<1>. QED
  BY <1>2, <1>3, <1>4, <1>5 DEF S

----------------------------------------------------------------------------
(***************************************************************************)
(* Reports.                                                                *)
(***************************************************************************)

\* Of the first n events captured, all that parse are stored.
Covered(n) == (1 .. n) \ Malformed \subseteq StoredEvents

\* The type of the report.
ReportTypeOK ==
  report \in [at     : {"idle", "mark", "exists", "stat", "facts", "answered", "raised"},
              ask    : Asks,
              mark   : Nat,
              second : BOOLEAN,
              caught : BOOLEAN,
              calm   : BOOLEAN,
              asof   : Nat,
              states : SUBSET (Events \X {"closed", "stale", "active"})]

\* The lines a report read the watermark of are still those it covers.
MarkCovers ==
  report.at \in {"exists", "stat"} /\ Used /\ report.calm => Processed(report.mark)

\* The freshness a report will answer with is true of the store it has yet to
\* read.
FreshnessTrue ==
  report.caught /\ report.calm
    /\ (report.at = "facts" \/ (report.second /\ ~Used /\ report.at # "answered"))
    => Covered(report.asof)

\* The inductive invariant of a report, on top of those of the queue: what it
\* read is still so, and what it says of the queue will be true of its answer.
ReportSound ==
  /\ ReportTypeOK
  /\ MarkCovers
  /\ report.asof <= captured
  /\ FreshnessTrue
  /\ report.second /\ Used => report.states = {}
  /\ ConfirmedIsTrue

\* Any set of naturals that is not empty has a least element.
LEMMA LeastOf ==
  ASSUME NEW S \in SUBSET Nat, S # {}
  PROVE  \E m \in S : \A k \in S : m <= k
<1>1. \E m \in S : \A k \in S : ~(<<k, m>> \in OpToRel(<, Nat))
  BY NatLessThanWellFounded, WFMin
<1>2. \E m \in S : \A k \in S : ~(k < m)
  BY <1>1 DEF OpToRel
<1>. QED
  BY <1>2

\* The store has the first events captured, as far as they parse.
LEMMA StoreIsPrefix ==
  ASSUME TypeOK, InTurn, NEW n \in 0 .. captured, Covered(n)
  PROVE  \E m \in n .. captured : StoredEvents = (1 .. m) \ Malformed
<1>. DEFINE Bounds == {m \in n .. captured : StoredEvents \subseteq 1 .. m}
<1>1. captured \in Nat /\ n \in Nat /\ n <= captured
  BY HookQueueAssumption DEF TypeOK
<1>2. StoredEvents \subseteq (1 .. captured) \ Malformed
  BY DEF InTurn, StoredInTurn, Capturable
<1>3. Bounds \in SUBSET Nat /\ captured \in Bounds
  BY <1>1, <1>2
<1>4. PICK m \in Bounds : \A k \in Bounds : m <= k
  <2>. HIDE DEF Bounds
  <2>. QED
    BY <1>3, LeastOf
<1>5. m \in n .. captured /\ m \in Nat /\ StoredEvents \subseteq (1 .. m) \ Malformed
  BY <1>1, <1>2
<1>6. (1 .. m) \ Malformed \subseteq StoredEvents
  <2>1. CASE m = n
    BY <2>1 DEF Covered
  <2>2. CASE m # n
    <3>1. m - 1 \in n .. captured /\ ~(m <= m - 1)
      BY <1>1, <1>5, <2>2
    <3>2. ~(StoredEvents \subseteq 1 .. m - 1)
      BY <1>4, <3>1
    <3>3. PICK e \in StoredEvents : e \notin 1 .. m - 1
      BY <3>2
    <3>4. e = m
      BY <1>5, <3>3
    <3>5. \A f \in 1 .. m - 1 : f \in StoredEvents \cup Malformed
      BY <3>4 DEF InTurn, StoredInTurn
    <3>. QED
      BY <1>5, <3>3, <3>4, <3>5
  <2>. QED
    BY <2>1, <2>2
<1>. QED
  BY <1>5, <1>6

\* Events and evidence only become more.
LEMMA OnlyMore ==
  ASSUME TypeOK, [Next]_vars
  PROVE  captured <= captured' /\ StoredEvents \subseteq StoredEvents'
<1>1. captured' \in {captured, captured + 1} /\ stored \subseteq stored'
  <2>1. CASE UNCHANGED vars
    BY <2>1 DEF vars
  <2>2. CASE Capture \/ TouchQueue
    BY <2>2 DEF Capture, TouchQueue, db
  <2>3. ASSUME NEW p \in Procs, Recover(p)
        PROVE  UNCHANGED <<captured, stored>>
    BY <2>3
    DEF Recover, LockRecovery, RestoreMark, DropRest, MergeTruncate, MergeWrite,
        DropMerged, MoveRest, NothingToMerge, ClearState, files, db
  <2>4. ASSUME NEW i \in Ingesters, IngestStart(i) \/ Ingest(i)
        PROVE  captured' = captured /\ stored \subseteq stored'
    BY <2>3, <2>4
    DEF Ingest, IngestStart, IngestOpen, IngestLine, IngestEof, IngestRecord, files, db, Procs
  <2>5. ASSUME NEW r \in Rotators, RotateStart(r) \/ Rotate(r)
        PROVE  UNCHANGED <<captured, stored>>
    BY <2>3, <2>5
    DEF Rotate, RotateStart, RotateSkip, RotateCut, RotatePrepare, RotateZeroMark,
        RotateArchive, RotateMarkArchived, RotateRestore, RotateClear, RotatePrune,
        files, db, Procs
  <2>6. ASSUME NEW p \in Procs, Fail(p)
        PROVE  UNCHANGED <<captured, stored>>
    BY <2>6 DEF Fail, files, db
  <2>. QED
    BY <2>1, <2>2, <2>4, <2>5, <2>6 DEF Next
<1>2. captured \in Nat
  BY HookQueueAssumption DEF TypeOK
<1>. QED
  BY <1>1, <1>2 DEF StoredEvents

\* The lines a watermark covers stay covered while the queue only grows.
LEMMA ProcessedGrows ==
  ASSUME TypeOK, TypeOK', NEW n \in Nat, Processed(n), QueueGrows,
         StoredEvents \subseteq StoredEvents'
  PROVE  Processed(n)'
<1>1. /\ Bytes(queue) \in Seq(Nat) /\ Bytes(queue') \in Seq(Nat)
      /\ Len(Bytes(queue)) \in Nat /\ Len(Bytes(queue')) \in Nat
  BY BytesType, LenProperties DEF TypeOK
<1>2. /\ Len(Bytes(queue)) <= Len(Bytes(queue'))
      /\ SubSeq(Bytes(queue'), 1, Len(Bytes(queue))) = Bytes(queue)
  BY DEF QueueGrows, StartsWith
<1>3. \A k \in 1 .. Len(Bytes(queue)) : Bytes(queue')[k] = Bytes(queue)[k]
  <2>. DEFINE m == Len(Bytes(queue))
              t == Bytes(queue')
  <2>1. \A k \in 1 .. m : SubSeq(t, 1, m)[k] = t[(1 + k) - 1]
    <3>. HIDE DEF m, t
    <3>1. \A k \in 1 .. m : t[k] \in Nat
      <4>1. \A k \in 1 .. m : k \in 1 .. Len(t)
        BY <1>1, <1>2 DEF m, t
      <4>. QED
        BY <1>1, <4>1, ElementOfSeq DEF t
    <3>. QED
      BY <1>1, <1>2, <3>1, SubSeqProperties DEF m, t
  <2>. QED
    BY <1>1, <1>2, <2>1
<1>. QED
  BY <1>1, <1>2, <1>3 DEF Processed

\* The queue missing counts as no line.
LEMMA SizeOfQueue ==
  ASSUME TypeOK
  PROVE  Len(Bytes(queue)) = IF queue = NoFile THEN 0 ELSE Len(queue)
BY NoRecords DEF Bytes

\* What a report finds caught up, while no rotation had the queue, is all stored.
LEMMA CaughtIsCovered ==
  ASSUME Durability, Quiet, Processed(report.mark), report.mark \in Nat,
         Len(Bytes(queue)) <= report.mark
  PROVE  Covered(captured)
<1>1. Len(Bytes(queue)) \in Nat
  BY FileTypes DEF Durability
<1>2. Records(Bytes(queue)) \subseteq StoredEvents
  BY <1>1 DEF Processed, Records
<1>3. \A p \in Procs : pc[p] # "mergeWrite"
  BY DEF Durability, PhaseOfLabel, Quiet
<1>4. Recoverable = Records(Bytes(queue))
  BY <1>3 DEF Recoverable, Quiet
<1>. QED
  BY <1>2, <1>4 DEF Durability, NoLoss, Capturable, Covered

\* No report has begun.
LEMMA ReportInit == SessionInit => ReportSound
<1>. SUFFICES ASSUME SessionInit PROVE ReportSound
  OBVIOUS
<1>1. Summary \in Asks
  BY DEF Asks
<1>. QED
  BY <1>1
  DEF SessionInit, Init, NoReport, ReportSound, ReportTypeOK, MarkCovers, Used,
      FreshnessTrue, ConfirmedIsTrue

\* A report that begins, ends or raises has nothing to be true of.
LEMMA ReportStarts ==
  ASSUME ReportSound, captured \in Nat,
         (\E ask \in Asked : ReportStart(ask)) \/ ReportEnd \/ QueueGone,
         UNCHANGED vars
  PROVE  ReportSound'
<1>1. PICK ask \in Asks, at \in {"idle", "mark", "raised"} :
        report' = [at |-> at, ask |-> ask, mark |-> 0, second |-> FALSE, caught |-> FALSE,
                   calm |-> TRUE, asof |-> 0, states |-> {}]
  <2>1. ASSUME NEW ask \in Asked, ReportStart(ask)
        PROVE  /\ ask \in Asks
               /\ report' = [at |-> "mark", ask |-> ask, mark |-> 0, second |-> FALSE,
                             caught |-> FALSE, calm |-> TRUE, asof |-> 0, states |-> {}]
    BY <2>1, SessionStateAssumption DEF ReportStart, NoReport
  <2>2. ASSUME ReportEnd
        PROVE  report' = [at |-> "idle", ask |-> Summary, mark |-> 0, second |-> FALSE,
                          caught |-> FALSE, calm |-> TRUE, asof |-> 0, states |-> {}]
    BY <2>2 DEF ReportEnd, NoReport
  <2>3. ASSUME QueueGone
        PROVE  report' = [at |-> "raised", ask |-> Summary, mark |-> 0, second |-> FALSE,
                          caught |-> FALSE, calm |-> TRUE, asof |-> 0, states |-> {}]
    BY <2>3 DEF QueueGone, NoReport
  <2>4. Summary \in Asks
    BY DEF Asks
  <2>. QED
    BY <2>1, <2>2, <2>3, <2>4
<1>2. captured' \in Nat
  BY DEF vars
<1>. QED
  BY <1>1, <1>2
  DEF ReportSound, ReportTypeOK, MarkCovers, FreshnessTrue, ConfirmedIsTrue, Used

\* The watermark a report reads covers what is stored.
LEMMA ReportReadsMark ==
  ASSUME Durability, ReportSound, ReadMark, UNCHANGED vars
  PROVE  ReportSound'
<1>. DEFINE calm == Used \/ report.calm
<1>1. /\ report.at = "mark" /\ mark \in Nat
      /\ report' = [report EXCEPT !.at = "exists", !.mark = mark, !.calm = calm]
  BY DEF ReadMark, Durability, TypeOK
<1>2. calm \in BOOLEAN
  BY DEF ReportSound, ReportTypeOK, Used
<1>. HIDE DEF calm
<1>3. /\ report'.at = "exists" /\ report'.mark = mark /\ report'.calm = calm
      /\ report'.ask = report.ask /\ report'.second = report.second
      /\ report'.caught = report.caught /\ report'.asof = report.asof
      /\ report'.states = report.states
      /\ ReportTypeOK'
  BY <1>1, <1>2 DEF ReportSound, ReportTypeOK
<1>4. Used' = Used
  BY <1>3 DEF Used
<1>5. /\ captured' = captured /\ StoredEvents' = StoredEvents /\ queue' = queue
      /\ Processed(mark)
  BY DEF Durability, MarksSound, vars, StoredEvents
<1>6. MarkCovers'
  BY <1>3, <1>5 DEF MarkCovers, Processed
<1>7. ~Used /\ calm => report.calm
  BY DEF calm
<1>8. FreshnessTrue'
  BY <1>1, <1>3, <1>4, <1>5, <1>7 DEF ReportSound, FreshnessTrue, Covered
<1>. QED
  BY <1>3, <1>4, <1>5, <1>6, <1>8 DEF ReportSound, ConfirmedIsTrue

\* The queue exists: its size is still to be read.
LEMMA ReportFindsQueue ==
  ASSUME ReportSound, QueueExists, UNCHANGED vars
  PROVE  ReportSound'
<1>1. report.at = "exists" /\ report' = [report EXCEPT !.at = "stat"]
  BY DEF QueueExists
<1>2. /\ report'.at = "stat" /\ report'.mark = report.mark /\ report'.calm = report.calm
      /\ report'.ask = report.ask /\ report'.second = report.second
      /\ report'.caught = report.caught /\ report'.asof = report.asof
      /\ report'.states = report.states
      /\ ReportTypeOK'
  BY <1>1 DEF ReportSound, ReportTypeOK
<1>3. Used' = Used
  BY <1>2 DEF Used
<1>4. captured' = captured /\ StoredEvents' = StoredEvents /\ queue' = queue
  BY DEF vars, StoredEvents
<1>5. MarkCovers'
  BY <1>1, <1>2, <1>3, <1>4 DEF ReportSound, MarkCovers, Processed
<1>6. FreshnessTrue'
  BY <1>1, <1>2, <1>3, <1>4 DEF ReportSound, FreshnessTrue, Covered
<1>. QED
  BY <1>2, <1>3, <1>4, <1>5, <1>6 DEF ReportSound, ConfirmedIsTrue

\* A report compares watermark and size: what it uses of that is true of the
\* store, if no rotation came in between.
LEMMA ReportCompares ==
  ASSUME Durability, ReportSound, report.at \in {"exists", "stat"},
         AfterFreshness(Len(Bytes(queue))), UNCHANGED vars
  PROVE  ReportSound'
<1>. DEFINE size   == Len(Bytes(queue))
            next   == CASE report.ask.kind = "summary" /\ ~report.second -> "mark"
                        [] report.ask.kind = "session" /\ report.second -> "answered"
                        [] OTHER -> "facts"
            second == report.second \/ next = "mark"
            caught == IF Used THEN size <= report.mark ELSE report.caught
            calm   == IF Used THEN report.calm /\ Quiet ELSE report.calm
            asof   == IF Used THEN captured ELSE report.asof
<1>1. /\ captured \in Nat /\ size \in Nat
      /\ report \in [at     : {"idle", "mark", "exists", "stat", "facts", "answered", "raised"},
                     ask    : Asks,
                     mark   : Nat,
                     second : BOOLEAN,
                     caught : BOOLEAN,
                     calm   : BOOLEAN,
                     asof   : Nat,
                     states : SUBSET (Events \X {"closed", "stale", "active"})]
      /\ captured' = captured /\ StoredEvents' = StoredEvents
  BY FileTypes DEF ReportSound, ReportTypeOK, vars, StoredEvents
<1>2. report' = [report EXCEPT !.at = next, !.mark = 0, !.second = second,
                               !.caught = caught, !.calm = calm, !.asof = asof]
  BY <1>1 DEF AfterFreshness
<1>3. /\ Used \in BOOLEAN
      /\ caught \in BOOLEAN /\ calm \in BOOLEAN /\ second \in BOOLEAN
      /\ asof \in Nat /\ asof <= captured
      /\ next \in {"mark", "answered", "facts"}
  <2>1. Used \in BOOLEAN /\ Quiet \in BOOLEAN
    BY <1>1 DEF Used, Quiet
  <2>2. caught \in BOOLEAN /\ calm \in BOOLEAN
    <3>1. CASE Used
      <4>1. caught = (size <= report.mark) /\ calm = (report.calm /\ Quiet)
        BY <3>1
      <4>2. (size <= report.mark) \in BOOLEAN /\ (report.calm /\ Quiet) \in BOOLEAN
        BY <1>1
      <4>. HIDE DEF size, caught, calm
      <4>. QED
        BY <4>1, <4>2
    <3>2. CASE ~Used
      BY <1>1, <3>2
    <3>. QED
      BY <3>1, <3>2
  <2>3. second \in BOOLEAN /\ next \in {"mark", "answered", "facts"}
    BY <1>1
  <2>4. asof \in Nat /\ asof <= captured
    BY <1>1 DEF ReportSound
  <2>. QED
    BY <2>1, <2>2, <2>3, <2>4
<1>4. caught /\ calm /\ (next = "facts" \/ next = "mark") => Covered(asof)
  <2>1. CASE Used
    <3>1. calm => report.calm /\ Quiet /\ Processed(report.mark)
      BY <2>1 DEF ReportSound, MarkCovers
    <3>2. caught => size <= report.mark
      BY <2>1
    <3>3. caught /\ calm => Covered(captured)
      BY <1>1, <3>1, <3>2, CaughtIsCovered
    <3>. QED
      BY <2>1, <3>3
  <2>2. CASE ~Used
    BY <2>2 DEF ReportSound, FreshnessTrue, Used
  <2>. QED
    BY <2>1, <2>2
<1>5. next = "answered" => report.ask.kind = "session" /\ report.second
  OBVIOUS
<1>6. next # "mark" /\ second => report.second
  OBVIOUS
<1>7. next = "mark" => report.ask.kind # "session"
  OBVIOUS
<1>. HIDE DEF size, next, second, caught, calm, asof
<1>8. /\ report'.at = next /\ report'.mark = 0 /\ report'.second = second
      /\ report'.caught = caught /\ report'.calm = calm /\ report'.asof = asof
      /\ report'.ask = report.ask /\ report'.states = report.states
      /\ ReportTypeOK'
  <2>1. /\ report'.at = next /\ report'.mark = 0 /\ report'.second = second
        /\ report'.caught = caught /\ report'.calm = calm /\ report'.asof = asof
        /\ report'.ask = report.ask /\ report'.states = report.states
    BY <1>1, <1>2
  <2>2. report' \in [at     : {"mark", "answered", "facts"},
                     ask    : Asks, mark : Nat, second : BOOLEAN,
                     caught : BOOLEAN, calm : BOOLEAN, asof : Nat,
                     states : SUBSET (Events \X {"closed", "stale", "active"})]
    BY <1>1, <1>2, <1>3
  <2>. QED
    BY <2>1, <2>2 DEF ReportTypeOK
<1>9. MarkCovers'
  BY <1>3, <1>8 DEF MarkCovers
<1>10. FreshnessTrue'
  BY <1>1, <1>3, <1>4, <1>8 DEF FreshnessTrue, Covered
<1>11. (report'.second /\ Used') => report'.states = {}
  <2>1. second /\ Used' => report.second /\ report.ask.kind = "session"
    BY <1>6, <1>7, <1>8 DEF Used
  <2>. QED
    BY <1>8, <2>1 DEF ReportSound, Used
<1>12. ConfirmedIsTrue'
  <2>1. next = "answered" => report.states = {}
    BY <1>5 DEF ReportSound, Used
  <2>. QED
    BY <1>8, <2>1 DEF ConfirmedIsTrue
<1>. QED
  BY <1>1, <1>3, <1>8, <1>9, <1>10, <1>11, <1>12 DEF ReportSound

\* A report reads the facts: with the freshness it found before, they are all
\* that was captured by some moment since.
LEMMA ReportLoads ==
  ASSUME Durability, InTurn, ReportSound, LoadFacts, UNCHANGED vars
  PROVE  ReportSound'
<1>. DEFINE states == States(report.ask, StoredEvents)
            again  == report.ask.kind = "session" /\ states = {}
            at     == IF again THEN "mark" ELSE "answered"
<1>1. /\ report.at = "facts"
      /\ report' = [report EXCEPT !.at = at, !.second = again, !.states = states]
      /\ captured' = captured
      /\ captured \in 0 .. MaxEvents
      /\ report.asof \in 0 .. captured
      /\ report.ask \in Asks
  BY HookQueueAssumption
  DEF LoadFacts, vars, ReportSound, ReportTypeOK, Durability, TypeOK
<1>2. PICK n \in 0 .. captured : StoredEvents = (1 .. n) \ Malformed
  <2>1. 0 \in 0 .. captured /\ Covered(0)
    BY <1>1 DEF Covered
  <2>. QED
    BY <2>1, StoreIsPrefix DEF Durability
<1>3. ASSUME NEW m \in 0 .. captured, StoredEvents = (1 .. m) \ Malformed
      PROVE  states = {<<e, Status(e)>> : e \in Current(report.ask, m)}
  <2>1. m \in 0 .. MaxEvents
    BY <1>1, HookQueueAssumption
  <2>. QED
    BY <1>1, <1>3, <2>1, AnswerIsCurrent
<1>4. states \subseteq Events \X {"closed", "stale", "active"}
  <2>1. Current(report.ask, n) \subseteq Events
    BY <1>1, HookQueueAssumption DEF Current, Events
  <2>2. \A e : Status(e) \in {"closed", "stale", "active"}
    BY DEF Status
  <2>. HIDE DEF states
  <2>. QED
    BY <1>2, <1>3, <2>1, <2>2
<1>5. again => report.ask.kind = "session" /\ states = {}
  OBVIOUS
<1>6. again \in BOOLEAN /\ at \in {"mark", "answered"}
  OBVIOUS
<1>7. report.caught /\ report.calm =>
        \E m \in report.asof .. captured :
          states = {<<e, Status(e)>> : e \in Current(report.ask, m)}
  <2>. SUFFICES ASSUME report.caught, report.calm
                PROVE  \E m \in report.asof .. captured :
                         states = {<<e, Status(e)>> : e \in Current(report.ask, m)}
    OBVIOUS
  <2>1. Covered(report.asof)
    BY <1>1 DEF ReportSound, FreshnessTrue
  <2>2. PICK m \in report.asof .. captured : StoredEvents = (1 .. m) \ Malformed
    BY <1>1, <2>1, StoreIsPrefix DEF Durability
  <2>3. m \in 0 .. captured
    BY <1>1, HookQueueAssumption
  <2>. HIDE DEF states
  <2>. QED
    BY <1>3, <2>2, <2>3
<1>8. at = "mark" => again
  OBVIOUS
<1>. HIDE DEF states, again, at
<1>9. /\ report'.at = at /\ report'.second = again /\ report'.states = states
      /\ report'.mark = report.mark
      /\ report'.caught = report.caught /\ report'.calm = report.calm
      /\ report'.asof = report.asof /\ report'.ask = report.ask
      /\ ReportTypeOK'
  BY <1>1, <1>4, <1>6 DEF ReportSound, ReportTypeOK
<1>10. again => Used'
  BY <1>5, <1>9 DEF Used
<1>11. MarkCovers' /\ FreshnessTrue'
  BY <1>6, <1>9, <1>10 DEF MarkCovers, FreshnessTrue
<1>12. ConfirmedIsTrue'
  BY <1>1, <1>7, <1>9 DEF ConfirmedIsTrue
<1>. QED
  BY <1>1, <1>5, <1>9, <1>11, <1>12 DEF ReportSound

\* Hooks, ingest and maintenance go on while a report is made: what is stored
\* stays stored, and a rotation that takes the queue ends the calm.
LEMMA ReportUnderway ==
  ASSUME Durability, ReportSound, QueueStep
  PROVE  ReportSound'
<1>1. /\ TypeOK /\ TypeOK'
      /\ captured <= captured' /\ StoredEvents \subseteq StoredEvents'
      /\ captured \in Nat /\ captured' \in Nat
  <2>1. TypeOK /\ TypeOK'
    BY TypeNext DEF QueueStep, Durability
  <2>2. captured <= captured' /\ StoredEvents \subseteq StoredEvents'
    BY <2>1, OnlyMore DEF QueueStep
  <2>3. captured \in Nat /\ captured' \in Nat
    BY <2>1, HookQueueAssumption DEF TypeOK
  <2>. QED
    BY <2>1, <2>2, <2>3
<1>2. PICK calm \in BOOLEAN :
        /\ report' = [report EXCEPT !.calm = calm]
        /\ calm => report.calm
        /\ calm /\ report.at \in {"exists", "stat"} /\ Used => QueueGrows
  <2>1. CASE report.at \in {"exists", "stat"} /\ Used /\ ~QueueGrows
    BY <2>1 DEF QueueStep
  <2>2. CASE ~(report.at \in {"exists", "stat"} /\ Used /\ ~QueueGrows)
    <3>1. report' = report /\ report.calm \in BOOLEAN
      BY <2>2 DEF QueueStep, ReportSound, ReportTypeOK
    <3>2. report' = [report EXCEPT !.calm = report.calm]
      BY <3>1 DEF ReportSound, ReportTypeOK
    <3>. QED
      BY <2>2, <3>1, <3>2
  <2>. QED
    BY <2>1, <2>2
<1>3. /\ report'.at = report.at /\ report'.mark = report.mark /\ report'.calm = calm
      /\ report'.ask = report.ask /\ report'.second = report.second
      /\ report'.caught = report.caught /\ report'.asof = report.asof
      /\ report'.states = report.states
      /\ report'.asof \in Nat /\ report.mark \in Nat
      /\ ReportTypeOK'
  BY <1>2 DEF ReportSound, ReportTypeOK
<1>4. Used' = Used
  BY <1>3 DEF Used
<1>5. MarkCovers'
  <2>. SUFFICES ASSUME report.at \in {"exists", "stat"}, Used, calm
                PROVE  Processed(report.mark)'
    BY <1>3, <1>4 DEF MarkCovers
  <2>1. Processed(report.mark)
    BY <1>2 DEF ReportSound, MarkCovers
  <2>. DEFINE m == report.mark
  <2>2. Processed(m)'
    BY <1>1, <1>2, <1>3, <2>1, ProcessedGrows
  <2>. QED
    BY <1>3, <2>2
<1>6. FreshnessTrue'
  BY <1>1, <1>2, <1>3, <1>4 DEF ReportSound, FreshnessTrue, Covered
<1>7. ConfirmedIsTrue'
  BY <1>3 DEF QueueStep, ConfirmedIsTrue
<1>8. report'.asof <= captured'
  BY <1>1, <1>3 DEF ReportSound
<1>. QED
  BY <1>3, <1>4, <1>5, <1>6, <1>7, <1>8 DEF ReportSound

\* Every step keeps reports sound.
LEMMA ReportNext ==
  ASSUME Durability, InTurn, ReportSound, [SessionNext]_svars
  PROVE  ReportSound'
<1>1. captured \in Nat
  BY FileTypes
<1>2. CASE QueueStep
  BY <1>2, ReportUnderway
<1>3. CASE Ask
  BY <1>1, <1>3, ReportStarts DEF Ask
<1>4. CASE ReadMark /\ UNCHANGED vars
  BY <1>4, ReportReadsMark
<1>5. CASE QueueExists /\ UNCHANGED vars
  BY <1>5, ReportFindsQueue
<1>6. CASE (QueueMissing \/ QueueStat) /\ UNCHANGED vars
  <2>1. TypeOK /\ report.at \in {"exists", "stat"}
    BY <1>6 DEF QueueMissing, QueueStat, Durability
  <2>2. AfterFreshness(Len(Bytes(queue)))
    BY <1>6, <2>1, SizeOfQueue DEF QueueMissing, QueueStat
  <2>. QED
    BY <1>6, <2>1, <2>2, ReportCompares
<1>7. CASE (QueueGone \/ ReportEnd) /\ UNCHANGED vars
  BY <1>1, <1>7, ReportStarts
<1>8. CASE LoadFacts /\ UNCHANGED vars
  BY <1>8, ReportLoads
<1>9. CASE UNCHANGED svars
  <2>1. UNCHANGED vars /\ report' = report
    BY <1>9 DEF svars
  <2>2. Used' = Used /\ captured' = captured /\ queue' = queue /\ StoredEvents' = StoredEvents
    BY <2>1 DEF vars, Used, StoredEvents
  <2>. QED
    BY <2>1, <2>2
    DEF ReportSound, ReportTypeOK, MarkCovers, FreshnessTrue, ConfirmedIsTrue, Processed, Covered
<1>. QED
  BY <1>2, <1>3, <1>4, <1>5, <1>6, <1>7, <1>8, <1>9
  DEF SessionNext, Report, ReportStep

\* Each step of the composition is one of the queue, or leaves it alone.
LEMMA QueueOfSession == [SessionNext]_svars => [Next]_vars
BY DEF SessionNext, QueueStep, Report, Ask, svars

----------------------------------------------------------------------------
\* With reports under way the queue keeps all its invariants, the store the
\* order of capture, and reports what they found.
THEOREM SessionSound == Serial => (SessionSpec => [](Durability /\ InTurn /\ ReportSound))
<1>. DEFINE Inv == Durability /\ InTurn /\ ReportSound
<1>. SUFFICES ASSUME Serial PROVE SessionSpec => []Inv
  OBVIOUS
<1>1. SessionInit => Inv
  BY DurableInit, InTurnInit, ReportInit DEF SessionInit
<1>2. Inv /\ [SessionNext]_svars => Inv'
  BY QueueOfSession, DurableNext, InTurnNext, ReportNext
<1>. HIDE DEF Inv
<1>. QED
  BY <1>1, <1>2, PTL DEF SessionSpec

\* The store always has the first events captured, as far as they parse: whatever
\* reads it, at any step of a rotation or of an ingest run, reads a moment that was.
THEOREM StoreIsInTurn ==
  Serial => (SessionSpec =>
    [](\E n \in 0 .. captured : StoredEvents = (1 .. n) \ Malformed))
<1>1. Durability /\ InTurn => \E n \in 0 .. captured : StoredEvents = (1 .. n) \ Malformed
  <2>. SUFFICES ASSUME Durability, InTurn
                PROVE  \E n \in 0 .. captured : StoredEvents = (1 .. n) \ Malformed
    OBVIOUS
  <2>1. captured \in Nat
    BY FileTypes
  <2>2. 0 \in 0 .. captured /\ Covered(0)
    BY <2>1 DEF Covered
  <2>. QED
    BY <2>2, StoreIsPrefix DEF Durability
<1>. QED
  BY <1>1, SessionSound, PTL

\* A report that says caught up, and that no rotation disturbed, is true of a
\* moment between its look at the queue and its answer, for any number of
\* events, sessions and runs and at any point at which hooks, ingest and
\* maintenance go on.
THEOREM ConfirmedWasTrue == Serial => (SessionSpec => []ConfirmedIsTrue)
<1>1. ReportSound => ConfirmedIsTrue
  BY DEF ReportSound
<1>. QED
  BY <1>1, SessionSound, PTL

(***************************************************************************)
(* Replicated hosts: a confirmed answer lacks nothing, for any number of   *)
(* hosts and events and for any order in which stages move on between the  *)
(* reads; and a host that is said to lag did lack something, or its        *)
(* watermark was read while a rotation had set it to zero.                 *)
(***************************************************************************)

\* The types of what the hosts have and of what was read.
HostTypeOK ==
  /\ reached \in [Profiled -> [Stages -> Nat]]
  /\ lines \in [Profiled -> Nat]
  /\ processed \in [Profiled -> Nat]
  /\ rotation \in [Profiled -> [phase : {"none", "reset", "moved"}, tail : Nat]]
  /\ view = [next |-> view.next, of |-> view.of, zeroed |-> view.zeroed]
  /\ view.next \in Nat \ {0}
  /\ view.of \in [Profiled -> [Items \cup {"asof"} -> Nat]]

\* Lines count the events of a host until its queue is rotated, and so does
\* what was read of them; a watermark covers lines that are there, and none while
\* the queue is rotated.
LinesCount ==
  \A h \in Profiled :
    /\ processed[h] <= lines[h]
    /\ rotation[h].phase # "none" => processed[h] = 0
    /\ rotation[h].phase = "moved" => h \in rotated /\ lines[h] = 0
    /\ h \notin rotated => /\ lines[h] = reached[h]["captured"]
                           /\ view.of[h]["asof"] <= view.of[h]["count"]

\* What was read of the projection has been projected since.
ReadIsPast ==
  \A h \in Profiled : view.of[h]["projected"] <= reached[h]["projected"]

\* The inductive invariant: what was counted is not more than what was there, and
\* what was read of the last stage not more than what is there now.
HostInv == HostTypeOK /\ LinesCount /\ ReadIsPast

----------------------------------------------------------------------------
\* The stages, written out.
LEMMA StagesAre ==
  /\ DOMAIN Before = {"exported", "transported", "imported", "projected"}
  /\ Stages = {"captured", "exported", "transported", "imported", "projected"}
  /\ \A s \in DOMAIN Before : Before[s] \in Stages
BY DEF Stages, Before

\* Nothing was captured, and nothing read.
LEMMA InitHolds == HostInit => HostInv
<1> SUFFICES ASSUME HostInit PROVE HostInv
  OBVIOUS
<1>1. /\ view = [next |-> 1, of |-> [h \in Profiled |-> NothingRead], zeroed |-> {}]
      /\ view.next = 1 /\ view.of = [h \in Profiled |-> NothingRead]
  BY DEF HostInit, NoView
<1>2. /\ NothingRead \in [Items \cup {"asof"} -> Nat]
      /\ \A i \in {"asof", "count", "projected"} : NothingRead[i] = 0
  BY DEF NothingRead, Items
<1>3. HostTypeOK
  BY <1>1, <1>2 DEF HostTypeOK, HostInit, NoTurn
<1>4. \A h \in Profiled : reached[h]["captured"] = 0 /\ reached[h]["projected"] = 0
  BY StagesAre DEF HostInit
<1>5. LinesCount
  BY <1>1, <1>2, <1>4 DEF HostInit, LinesCount, NoTurn
<1>6. ReadIsPast
  BY <1>1, <1>2, <1>4 DEF ReadIsPast
<1> QED
  BY <1>3, <1>5, <1>6 DEF HostInv

\* A step that leaves what was read alone, and no sequence number of a
\* projection falls.
LEMMA NothingReadNow ==
  ASSUME HostInv, view' = view, rotated \subseteq rotated',
         reached' \in [Profiled -> [Stages -> Nat]],
         lines' \in [Profiled -> Nat], processed' \in [Profiled -> Nat],
         rotation' \in [Profiled -> [phase : {"none", "reset", "moved"}, tail : Nat]],
         \A g \in Profiled :
           /\ processed'[g] <= lines'[g]
           /\ rotation'[g].phase # "none" => processed'[g] = 0
           /\ rotation'[g].phase = "moved" => g \in rotated' /\ lines'[g] = 0
           /\ g \notin rotated' => lines'[g] = reached'[g]["captured"]
           /\ reached[g]["projected"] <= reached'[g]["projected"]
  PROVE  HostInv'
<1>1. HostTypeOK'
  BY DEF HostInv, HostTypeOK
<1>2. LinesCount'
  BY DEF HostInv, LinesCount
<1>3. ASSUME NEW g \in Profiled
      PROVE  view'.of[g]["projected"] <= reached'[g]["projected"]
  <2>1. /\ reached[g]["projected"] \in Nat /\ reached'[g]["projected"] \in Nat
        /\ view.of[g]["projected"] \in Nat
    BY <1>3, StagesAre DEF HostInv, HostTypeOK, Items
  <2> QED
    BY <1>3, <2>1 DEF HostInv, ReadIsPast
<1> QED
  BY <1>1, <1>2, <1>3 DEF HostInv, ReadIsPast

\* What is found of a host is a number.
LEMMA FoundType ==
  ASSUME HostTypeOK, NEW h \in Profiled, NEW item \in Items
  PROVE  Found(h, item) \in Nat
<1>1. CASE item \in {"mark", "size", "count"}
  BY <1>1 DEF Found, HostTypeOK
<1>2. CASE item \in {"exported", "transported", "imported", "projected"}
  <2>1. item \in Stages
    BY <1>2, StagesAre
  <2>2. Found(h, item) = reached[h][item]
    BY <1>2 DEF Found
  <2> QED
    BY <2>1, <2>2 DEF HostTypeOK
<1> QED
  BY <1>1, <1>2 DEF Items

\* A step of a host, or of one of its stages, leaves what was read alone and no
\* sequence number falls.
LEMMA HostStepHolds ==
  ASSUME HostInv, NEW h \in Profiled,
         HostCapture(h) \/ HostIngest(h) \/ HostReset(h) \/ HostMove(h) \/ HostPutBack(h)
           \/ \E stage \in DOMAIN Before : PassOn(h, stage)
  PROVE  HostInv'
<1>1. /\ reached \in [Profiled -> [Stages -> Nat]]
      /\ lines \in [Profiled -> Nat] /\ processed \in [Profiled -> Nat]
      /\ rotation \in [Profiled -> [phase : {"none", "reset", "moved"}, tail : Nat]]
      /\ \A g \in Profiled :
           /\ processed[g] <= lines[g]
           /\ rotation[g].phase # "none" => processed[g] = 0
           /\ rotation[g].phase = "moved" => g \in rotated /\ lines[g] = 0
           /\ g \notin rotated => lines[g] = reached[g]["captured"]
           /\ reached[g]["captured"] \in Nat /\ reached[g]["projected"] \in Nat
  BY StagesAre DEF HostInv, HostTypeOK, LinesCount
<1>2. CASE HostCapture(h)
  <2>1. /\ reached' = [reached EXCEPT ![h]["captured"] = @ + 1]
        /\ lines' = [lines EXCEPT ![h] = @ + 1]
        /\ rotation[h].phase = "none"
        /\ UNCHANGED <<processed, rotation, rotated, view>>
    BY <1>2 DEF HostCapture, Turning, NoTurn
  <2>2. /\ reached' \in [Profiled -> [Stages -> Nat]]
        /\ lines' \in [Profiled -> Nat] /\ processed' \in [Profiled -> Nat]
    <3>1. reached' \in [Profiled -> [Stages -> Nat]]
      <4>1. \A s \in Stages : [reached EXCEPT ![h][s] = @ + 1]
                               \in [Profiled -> [Stages -> Nat]]
        BY <1>1
      <4> QED
        BY <2>1, <4>1, StagesAre
    <3>2. lines' \in [Profiled -> Nat]
      BY <1>1, <2>1
    <3> QED
      BY <1>1, <2>1, <3>1, <3>2
  <2>3. ASSUME NEW g \in Profiled
        PROVE  /\ processed'[g] <= lines'[g]
               /\ rotation'[g].phase # "none" => processed'[g] = 0
               /\ rotation'[g].phase = "moved" => g \in rotated' /\ lines'[g] = 0
               /\ g \notin rotated' => lines'[g] = reached'[g]["captured"]
               /\ reached[g]["projected"] <= reached'[g]["projected"]
    <3>1. CASE g # h
      BY <1>1, <2>1, <3>1
    <3>2. CASE g = h
      <4>1. /\ reached'[h]["captured"] = reached[h]["captured"] + 1
            /\ reached'[h]["projected"] = reached[h]["projected"]
            /\ lines'[h] = lines[h] + 1 /\ processed'[h] = processed[h]
        BY <1>1, <2>1, StagesAre
      <4> QED
        BY <1>1, <2>1, <3>2, <4>1
    <3> QED
      BY <3>1, <3>2
  <2> QED
    BY <1>1, <2>1, <2>2, <2>3, NothingReadNow
<1>3. CASE HostIngest(h)
  <2>1. /\ processed' = [processed EXCEPT ![h] = lines[h]]
        /\ rotation[h].phase = "none"
        /\ UNCHANGED <<reached, lines, rotation, rotated, view>>
    BY <1>3 DEF HostIngest, Turning, NoTurn
  <2> QED
    BY <1>1, <2>1, NothingReadNow
<1>4. CASE HostReset(h)
  <2> DEFINE turn == [phase |-> "reset", tail |-> lines[h] - processed[h]]
  <2>1. /\ rotation' = [rotation EXCEPT ![h] = turn]
        /\ processed' = [processed EXCEPT ![h] = 0]
        /\ UNCHANGED <<reached, lines, rotated, view>>
    BY <1>4 DEF HostReset
  <2>2. turn \in [phase : {"none", "reset", "moved"}, tail : Nat] /\ turn.phase = "reset"
    BY <1>1
  <2> HIDE DEF turn
  <2>3. /\ rotation' \in [Profiled -> [phase : {"none", "reset", "moved"}, tail : Nat]]
        /\ processed' \in [Profiled -> Nat]
    BY <1>1, <2>1, <2>2
  <2>4. \A g \in Profiled : /\ processed'[g] <= lines[g]
                            /\ rotation'[g].phase # "none" => processed'[g] = 0
                            /\ rotation'[g].phase = "moved" => g \in rotated' /\ lines'[g] = 0
    BY <1>1, <2>1, <2>2
  <2> QED
    BY <1>1, <2>1, <2>3, <2>4, NothingReadNow
<1>6. CASE HostMove(h)
  <2>1. /\ rotation' = [rotation EXCEPT ![h].phase = "moved"]
        /\ lines' = [lines EXCEPT ![h] = 0]
        /\ rotated' = rotated \cup {h}
        /\ processed[h] = 0
        /\ UNCHANGED <<reached, processed, view>>
    BY <1>1, <1>6 DEF HostMove
  <2>2. /\ rotation' \in [Profiled -> [phase : {"none", "reset", "moved"}, tail : Nat]]
        /\ lines' \in [Profiled -> Nat]
    BY <1>1, <2>1
  <2>3. \A g \in Profiled : /\ processed[g] <= lines'[g]
                            /\ rotation'[g].phase # "none" => processed[g] = 0
                            /\ rotation'[g].phase = "moved" => g \in rotated' /\ lines'[g] = 0
    BY <1>1, <2>1
  <2> QED
    BY <1>1, <2>1, <2>2, <2>3, NothingReadNow
<1>7. CASE HostPutBack(h)
  <2>1. /\ rotation' = [rotation EXCEPT ![h] = NoTurn]
        /\ lines' = [lines EXCEPT ![h] = rotation[h].tail]
        /\ processed[h] = 0
        /\ UNCHANGED <<reached, processed, rotated, view>>
    BY <1>1, <1>7 DEF HostPutBack
  <2>2. NoTurn \in [phase : {"none", "reset", "moved"}, tail : Nat]
    BY DEF NoTurn
  <2>3. /\ rotation' \in [Profiled -> [phase : {"none", "reset", "moved"}, tail : Nat]]
        /\ lines' \in [Profiled -> Nat]
    BY <1>1, <2>1, <2>2
  <2>4. \A g \in Profiled : /\ processed[g] <= lines'[g]
                            /\ rotation'[g].phase # "none" => processed[g] = 0
                            /\ rotation'[g].phase = "moved" => g \in rotated' /\ lines'[g] = 0
    BY <1>1, <2>1 DEF NoTurn
  <2>5. h \in rotated
    BY <1>7 DEF HostPutBack, HostInv, LinesCount
  <2> QED
    BY <1>1, <2>1, <2>3, <2>4, <2>5, NothingReadNow
<1>5. ASSUME NEW stage \in DOMAIN Before, PassOn(h, stage)
      PROVE  HostInv'
  <2>1. stage \in Stages /\ stage # "captured"
    BY StagesAre
  <2>2. reached' = [reached EXCEPT ![h][stage] = @ + 1]
        /\ UNCHANGED <<lines, processed, rotation, rotated, view>>
    BY <1>5 DEF PassOn
  <2>3. reached' \in [Profiled -> [Stages -> Nat]]
    BY <1>1, <2>1, <2>2
  <2>4. \A g \in Profiled : /\ reached'[g]["captured"] = reached[g]["captured"]
                            /\ reached[g]["projected"] <= reached'[g]["projected"]
    BY <1>1, <2>1, <2>2, StagesAre
  <2> QED
    BY <1>1, <2>2, <2>3, <2>4, NothingReadNow
<1> QED
  BY <1>2, <1>3, <1>4, <1>5, <1>6, <1>7

\* The aggregates of the store are read for all hosts at once.
LEMMA ReadStoreHolds == HostInv /\ ReadStore => HostInv'
<1> SUFFICES ASSUME HostInv, ReadStore PROVE HostInv'
  OBVIOUS
<1> DEFINE item == StoreReads[view.next]
<1>1. item \in {"imported", "projected"}
  <2>1. Len(StoreReads) = 2
    BY DEF StoreReads
  <2>2. view.next <= 2
    BY <2>1 DEF ReadStore
  <2>3. view.next \in Nat \ {0}
    BY DEF HostInv, HostTypeOK
  <2>4. view.next = 1 \/ view.next = 2
    BY <2>2, <2>3
  <2> QED
    BY <2>4 DEF StoreReads
<1>2. /\ view'.next = view.next + 1
      /\ view'.of = [h \in Profiled |->
                       [view.of[h] EXCEPT ![item] = Found(h, item)]]
      /\ view'.zeroed = view.zeroed
      /\ view' = [next |-> view'.next, of |-> view'.of, zeroed |-> view'.zeroed]
      /\ UNCHANGED <<reached, lines, processed, rotation, rotated>>
  BY DEF ReadStore, hosts, HostInv, HostTypeOK
<1> HIDE DEF item
<1>3. \A h \in Profiled : Found(h, item) = reached[h][item] /\ Found(h, item) \in Nat
  BY <1>1, FoundType DEF Found, HostInv, Items
<1>4. view'.of \in [Profiled -> [Items \cup {"asof"} -> Nat]]
  <2>1. \A h \in Profiled : [view.of[h] EXCEPT ![item] = Found(h, item)]
                               \in [Items \cup {"asof"} -> Nat]
    BY <1>3 DEF HostInv, HostTypeOK
  <2> QED
    BY SMTT(30), <1>2, <2>1
<1>5. \A h \in Profiled : /\ view'.of[h]["asof"] = view.of[h]["asof"]
                          /\ view'.of[h]["count"] = view.of[h]["count"]
                          /\ view'.of[h]["projected"] \in
                               {view.of[h]["projected"], reached[h]["projected"]}
  BY <1>1, <1>2, <1>3 DEF HostInv, HostTypeOK, Items
<1>6. HostTypeOK'
  BY <1>2, <1>4 DEF HostInv, HostTypeOK
<1>7. LinesCount'
  BY <1>2, <1>5 DEF HostInv, LinesCount
<1>8. \A h \in Profiled : view'.of[h]["projected"] <= reached'[h]["projected"]
  <2>1. \A h \in Profiled : reached[h]["projected"] \in Nat
    BY StagesAre DEF HostInv, HostTypeOK
  <2> QED
    BY <1>2, <1>5, <2>1 DEF HostInv, ReadIsPast
<1> QED
  BY <1>6, <1>7, <1>8 DEF HostInv, ReadIsPast

\* The rest is read host by host; when lines are counted, so are events.
LEMMA ReadHostHolds == HostInv /\ ReadHost => HostInv'
<1> SUFFICES ASSUME HostInv, ReadHost PROVE HostInv'
  OBVIOUS
<1> DEFINE k    == view.next - Len(StoreReads) - 1
           h    == Profiles[(k \div Len(HostReads)) + 1]
           item == HostReads[(k % Len(HostReads)) + 1]
<1>1. item \in {"mark", "size", "count", "exported", "transported"}
  <2>1. k \in Int
    BY DEF HostInv, HostTypeOK, StoreReads
  <2>2. k % 5 \in 0 .. 4
    BY <2>1
  <2>3. Len(HostReads) = 5
    BY DEF HostReads
  <2> HIDE DEF k
  <2>4. (k % Len(HostReads)) + 1 \in 1 .. 5
    BY <2>2, <2>3
  <2> QED
    BY <2>4 DEF HostReads
<1>2. /\ view'.next = view.next + 1
      /\ view'.of = [view.of EXCEPT
                       ![h][item] = Found(h, item),
                       ![h]["asof"] = IF item = "count"
                                      THEN reached[h]["captured"] ELSE @]
      /\ view'.zeroed = IF item = "mark" /\ rotation[h].phase = "reset"
                        THEN view.zeroed \cup {h} ELSE view.zeroed
      /\ view' = [next |-> view'.next, of |-> view'.of, zeroed |-> view'.zeroed]
      /\ UNCHANGED <<reached, lines, processed, rotation, rotated>>
  BY DEF ReadHost, hosts
<1> HIDE DEF h, item
<1>3. \A g \in Profiled : g # h => view'.of[g] = view.of[g]
  BY <1>2 DEF HostInv, HostTypeOK
<1>4. ASSUME h \in Profiled
      PROVE  /\ view'.of[h] \in [Items \cup {"asof"} -> Nat]
             /\ view'.of[h]["projected"] = view.of[h]["projected"]
             /\ item = "count" => /\ view'.of[h]["asof"] = reached[h]["captured"]
                                  /\ view'.of[h]["count"] = lines[h]
             /\ item # "count" => /\ view'.of[h]["asof"] = view.of[h]["asof"]
                                  /\ view'.of[h]["count"] = view.of[h]["count"]
  <2> DEFINE asof == IF item = "count" THEN reached[h]["captured"] ELSE view.of[h]["asof"]
  <2>1. item \in Items /\ Found(h, item) \in Nat
    BY <1>1, <1>4, FoundType DEF Items, HostInv
  <2>2. view'.of[h] = [view.of[h] EXCEPT ![item] = Found(h, item), !["asof"] = asof]
    BY <1>1, <1>2, <1>4 DEF HostInv, HostTypeOK, Items
  <2>3. asof \in Nat
    BY <1>4, StagesAre DEF HostInv, HostTypeOK
  <2>4. item = "count" => Found(h, item) = lines[h]
    BY DEF Found
  <2> HIDE DEF asof
  <2>5. view'.of[h] \in [Items \cup {"asof"} -> Nat]
    BY <1>4, <2>1, <2>2, <2>3 DEF HostInv, HostTypeOK
  <2>6. /\ view'.of[h]["projected"] = view.of[h]["projected"]
        /\ view'.of[h]["asof"] = asof
        /\ view'.of[h]["count"] =
             IF item = "count" THEN Found(h, item) ELSE view.of[h]["count"]
    BY SMTT(30), <1>1, <1>4, <2>2 DEF HostInv, HostTypeOK, Items
  <2> QED
    BY <2>4, <2>5, <2>6 DEF asof
<1>5. view'.of \in [Profiled -> [Items \cup {"asof"} -> Nat]]
  <2>1. \A g \in Profiled : view'.of[g] \in [Items \cup {"asof"} -> Nat]
    BY <1>3, <1>4 DEF HostInv, HostTypeOK
  <2>2. view'.of = [g \in Profiled |-> view'.of[g]]
    BY <1>2 DEF HostInv, HostTypeOK
  <2> QED
    BY <2>1, <2>2
<1>6. \A g \in Profiled :
        /\ view'.of[g]["projected"] = view.of[g]["projected"]
        /\ \/ /\ view'.of[g]["asof"] = view.of[g]["asof"]
              /\ view'.of[g]["count"] = view.of[g]["count"]
           \/ /\ view'.of[g]["asof"] = reached[g]["captured"]
              /\ view'.of[g]["count"] = lines[g]
  BY <1>3, <1>4
<1>7. HostTypeOK'
  <2>1. view'.next = view.next + 1 /\ UNCHANGED <<reached, lines, processed>>
    BY <1>2
  <2>2. view.next \in Nat \ {0}
    BY DEF HostInv, HostTypeOK
  <2>3. view'.next \in Nat \ {0}
    BY <2>1, <2>2
  <2>4. /\ reached' \in [Profiled -> [Stages -> Nat]]
        /\ lines' \in [Profiled -> Nat]
        /\ processed' \in [Profiled -> Nat]
        /\ rotation' \in [Profiled -> [phase : {"none", "reset", "moved"}, tail : Nat]]
        /\ view' = [next |-> view'.next, of |-> view'.of, zeroed |-> view'.zeroed]
    BY <1>2, <2>1 DEF HostInv, HostTypeOK
  <2> QED
    BY <1>5, <2>3, <2>4 DEF HostTypeOK
<1>8. LinesCount'
  <2>1. \A g \in Profiled : reached[g]["captured"] \in Nat
    BY StagesAre DEF HostInv, HostTypeOK
  <2> QED
    BY <1>2, <1>6, <2>1 DEF HostInv, LinesCount
<1>9. ReadIsPast'
  BY <1>2, <1>6 DEF HostInv, ReadIsPast
<1> QED
  BY <1>7, <1>8, <1>9 DEF HostInv

\* A report that begins has read nothing.
LEMMA ReportAgainHolds == HostInv /\ ReportAgain => HostInv'
<1> SUFFICES ASSUME HostInv, ReportAgain PROVE HostInv'
  OBVIOUS
<1>1. /\ view' = [next |-> 1, of |-> [h \in Profiled |-> NothingRead], zeroed |-> {}]
      /\ UNCHANGED <<reached, lines, processed, rotation, rotated>>
  BY DEF ReportAgain, NoView, hosts
<1>2. /\ NothingRead \in [Items \cup {"asof"} -> Nat]
      /\ \A i \in {"asof", "count", "projected"} : NothingRead[i] = 0
  BY DEF NothingRead, Items
<1>3. /\ view'.next = 1 /\ view'.of = [h \in Profiled |-> NothingRead]
      /\ view'.zeroed = {}
  BY <1>1
<1>4. HostTypeOK'
  BY <1>1, <1>2, <1>3 DEF HostInv, HostTypeOK
<1>5. LinesCount'
  BY <1>1, <1>2, <1>3 DEF HostInv, LinesCount
<1>6. \A h \in Profiled : reached[h]["projected"] \in Nat
  BY StagesAre DEF HostInv, HostTypeOK
<1>7. ReadIsPast'
  BY <1>1, <1>2, <1>3, <1>6 DEF ReadIsPast
<1>. QED
  BY <1>4, <1>5, <1>7 DEF HostInv

\* Every step keeps the invariant.
LEMMA StepHolds == HostInv /\ [HostNext]_hvars => HostInv'
<1> SUFFICES ASSUME HostInv, [HostNext]_hvars PROVE HostInv'
  OBVIOUS
<1>1. CASE UNCHANGED hvars
  BY <1>1 DEF hvars, HostInv, HostTypeOK, LinesCount, ReadIsPast
<1> QED
  BY <1>1, HostStepHolds, ReadStoreHolds, ReadHostHolds, ReportAgainHolds
     DEF HostNext, HostStep

----------------------------------------------------------------------------
\* The reason given for a host is that of a stage that is late, if there is one.
LEMMA ReasonIs ==
  ASSUME NEW h \in Profiled, view.of[h].count # 0
  PROVE  \/ /\ HostReason(h) = "host_caught_up"
            /\ \A i \in 1 .. 5 : ~Checks(view.of[h])[i].late
         \/ HostReason(h) \in
              {"queue_has_unexported_bytes", "export_sequence_lagging",
               "transport_lagging", "import_lagging", "projection_lagging"}
<1> DEFINE v    == view.of[h]
           late == {i \in DOMAIN Checks(v) : Checks(v)[i].late}
<1>1. late \subseteq {1, 2, 3, 4, 5} /\ DOMAIN Checks(v) = 1 .. 5
  BY DEF Checks
<1>2. CASE late = {}
  BY <1>1, <1>2 DEF HostReason
<1>3. CASE late # {}
  <2> DEFINE first == CHOOSE i \in late : \A j \in late : i <= j
  <2>1. HostReason(h) = Checks(v)[first].reason
    BY <1>3 DEF HostReason
  <2>2. \E i \in late : \A j \in late : i <= j
    <3> HIDE DEF late
    <3>1. CASE 1 \in late
      BY <1>1, <3>1
    <3>2. CASE 1 \notin late /\ 2 \in late
      BY <1>1, <3>2
    <3>3. CASE 1 \notin late /\ 2 \notin late /\ 3 \in late
      BY <1>1, <3>3
    <3>4. CASE late \subseteq {4, 5} /\ 4 \in late
      BY <3>4
    <3>5. CASE late \subseteq {5}
      <4>1. late = {5}
        BY <1>3, <3>5
      <4> QED
        BY <4>1
    <3> QED
      BY <1>1, <3>1, <3>2, <3>3, <3>4, <3>5
  <2>3. first \in 1 .. 5
    <3> HIDE DEF late
    <3>1. first \in late
      BY <2>2
    <3> HIDE DEF first
    <3> QED
      BY <1>1, <3>1
  <2> HIDE DEF first
  <2>4. \A i \in 1 .. 5 :
          Checks(v)[i].reason \in
            {"queue_has_unexported_bytes", "export_sequence_lagging",
             "transport_lagging", "import_lagging", "projection_lagging"}
    <3>1. /\ Checks(v)[1].reason = "queue_has_unexported_bytes"
          /\ Checks(v)[2].reason = "export_sequence_lagging"
          /\ Checks(v)[3].reason = "transport_lagging"
          /\ Checks(v)[4].reason = "import_lagging"
          /\ Checks(v)[5].reason = "projection_lagging"
      BY DEF Checks
    <3>2. \A i \in 1 .. 5 : i = 1 \/ i = 2 \/ i = 3 \/ i = 4 \/ i = 5
      OBVIOUS
    <3> QED
      BY <3>1, <3>2
  <2> QED
    BY <2>1, <2>3, <2>4
<1> QED
  BY <1>2, <1>3

\* A host that is not late at any stage has all its counted events projected.
LEMMA HostOkHasAll ==
  ASSUME HostInv, NEW h \in Profiled, h \notin rotated, HostOk(h)
  PROVE  view.of[h].asof <= reached[h]["projected"]
<1> DEFINE v == view.of[h]
<1>1. v.asof <= v.count /\ v.projected <= reached[h]["projected"]
  BY DEF HostInv, LinesCount, ReadIsPast
<1>2. /\ v.asof \in Nat /\ v.count \in Nat /\ v.exported \in Nat
      /\ v.transported \in Nat /\ v.imported \in Nat /\ v.projected \in Nat
      /\ reached[h]["projected"] \in Nat
  BY StagesAre DEF HostInv, HostTypeOK, Items
<1>3. CASE v.count = 0
  BY <1>1, <1>2, <1>3
<1>4. CASE v.count # 0
  <2>1. \A i \in 1 .. 5 : ~Checks(v)[i].late
    BY <1>4, ReasonIs DEF HostOk
  <2>2. /\ ~Checks(v)[2].late /\ ~Checks(v)[3].late
        /\ ~Checks(v)[4].late /\ ~Checks(v)[5].late
    BY <2>1
  <2>3. /\ ~(v.exported < v.count) /\ ~(v.transported < v.exported)
        /\ ~(v.imported < v.transported) /\ ~(v.projected < v.imported)
    BY <2>2 DEF Checks
  <2>4. v.asof <= reached[h]["projected"]
    <3> HIDE DEF v
    <3> QED
      BY <1>1, <1>2, <2>3
  <2> QED
    BY <2>4
<1> QED
  BY <1>3, <1>4

\* A summary is confirmed only if every host is up to date, a session only if
\* its own host is.
LEMMA InvImplies == HostInv => ConfirmedHasAll
<1> SUFFICES ASSUME HostInv, NEW h \in Profiled \ rotated,
                    \/ Overall(TRUE) = "confirmed"
                    \/ StateFreshness(h, TRUE, "active") = "confirmed"
             PROVE  view.of[h].asof <= reached[h]["projected"]
  BY DEF ConfirmedHasAll
<1>1. CASE Overall(TRUE) = "confirmed"
  <2>1. AllHostsCaughtUp
    BY <1>1 DEF Overall
  <2> QED
    BY <2>1, HostOkHasAll DEF AllHostsCaughtUp
<1>2. CASE StateFreshness(h, TRUE, "active") = "confirmed"
  <2>1. h # NoHost
    BY HostFreshnessAssumption
  <2>2. HostReason(h) # "confirmed"
    <3>1. CASE view.of[h].count = 0
      BY <3>1 DEF HostReason
    <3>2. CASE view.of[h].count # 0
      BY <3>2, ReasonIs
    <3> QED
      BY <3>1, <3>2
  <2>3. HostCaughtUp(h)
    BY <1>2, <2>1, <2>2 DEF StateFreshness
  <2> QED
    BY <2>3, HostOkHasAll DEF HostCaughtUp
<1> QED
  BY <1>1, <1>2

\* A state or a summary that is reported as confirmed lacks no event that the
\* host had captured when its lines were counted, whatever the stages did
\* between the reads, unless its queue was rotated.
THEOREM ConfirmedLacksNothing == HostSpec => []ConfirmedHasAll
<1>1. HostSpec => []HostInv
  BY InitHolds, StepHolds, PTL DEF HostSpec
<1> QED
  BY <1>1, InvImplies, PTL

----------------------------------------------------------------------------
\* The p-th look at the i-th profile has been made.
Done(i, p) == view.next > 2 + 5 * (i - 1) + p

\* What was read of the i-th host is what it had, or more than what it has.
Looked(i) ==
  /\ Done(i, 1) => lines[Profiles[i]] <= view.of[Profiles[i]]["mark"]
  /\ Done(i, 2) => view.of[Profiles[i]]["size"] <= view.of[Profiles[i]]["mark"]
  /\ Done(i, 3) => view.of[Profiles[i]]["count"] <= reached[Profiles[i]]["captured"]
  /\ Done(i, 4) => view.of[Profiles[i]]["exported"] = reached[Profiles[i]]["captured"]
  /\ Done(i, 5) => view.of[Profiles[i]]["transported"] = reached[Profiles[i]]["captured"]

\* No queue has more lines than the host has captured, and no stage is ahead of
\* the one before it; a host that lacks something is among those that have.
Behind ==
  \A h \in Profiled :
    /\ lines[h] <= reached[h]["captured"]
    /\ rotation[h].tail <= reached[h]["captured"]
    /\ \A s \in DOMAIN Before : reached[h][s] <= reached[h][Before[s]]
    /\ Outstanding(h) => h \in lagged

\* What was read of a host that lacked nothing since: the aggregates of the
\* store, and the looks at its directories.
LooksRight ==
  /\ \A h \in Profiled \ lagged :
       /\ view.next > 1 => view.of[h]["imported"] = reached[h]["captured"]
       /\ view.next > 2 => view.of[h]["projected"] = reached[h]["captured"]
  /\ \A i \in 1 .. Len(Profiles) : Profiles[i] \notin lagged \cup view.zeroed => Looked(i)

\* The inductive invariant of the looks.
LagInv == Behind /\ LooksRight

\* What a host that lacks nothing has: the same number at every stage, and no line
\* that a rotation would put back.
LEMMA NothingOutstanding ==
  ASSUME HostInv, Behind, NEW h \in Profiled, h \notin lagged
  PROVE  /\ \A s \in Stages : reached[h][s] = reached[h]["captured"]
         /\ rotation[h].tail = 0
         /\ rotation[h].phase = "none" => processed[h] = lines[h]
<1>1. ~Outstanding(h)
  BY DEF Behind
<1>2. /\ lines[h] \in Nat /\ processed[h] \in Nat /\ rotation[h].tail \in Nat
      /\ \A s \in Stages : reached[h][s] \in Nat
      /\ processed[h] <= lines[h]
      /\ rotation[h] \in [phase : {"none", "reset", "moved"}, tail : Nat]
  BY DEF HostInv, HostTypeOK, LinesCount
<1>3. \A s \in DOMAIN Before : reached[h][s] = reached[h][Before[s]]
  <2>1. ASSUME NEW s \in DOMAIN Before
        PROVE  reached[h][s] = reached[h][Before[s]]
    <3>1. ~(reached[h][s] < reached[h][Before[s]]) /\ reached[h][s] <= reached[h][Before[s]]
      BY <1>1, <2>1 DEF Outstanding, Behind
    <3>2. reached[h][s] \in Nat /\ reached[h][Before[s]] \in Nat
      BY <1>2, <2>1, StagesAre
    <3>. QED
      BY <3>1, <3>2
  <2>. QED
    BY <2>1
<1>4. \A s \in Stages : reached[h][s] = reached[h]["captured"]
  BY <1>3, StagesAre DEF Before
<1>5. rotation[h].tail = 0
  BY <1>1, <1>2 DEF Outstanding
<1>6. ASSUME rotation[h].phase = "none" PROVE processed[h] = lines[h]
  <2>1. rotation[h] = NoTurn
    BY <1>2, <1>5, <1>6 DEF NoTurn
  <2>2. ~(processed[h] < lines[h])
    BY <1>1, <2>1 DEF Outstanding, Turning
  <2>. QED
    BY <1>2, <2>2
<1>. QED
  BY <1>4, <1>5, <1>6

\* Who lacked something since the report began is remembered.
LEMMA Remembered ==
  ASSUME HostNext
  PROVE  /\ \A h \in Profiled : Outstanding(h)' => h \in lagged'
         /\ view' # NoView => \A h \in lagged : h \in lagged'
BY DEF HostNext

\* A step of a host keeps what bounds its numbers, and changes no number of a host
\* that lacks nothing before and after it; its queue may get shorter.
LEMMA HostStepBehind ==
  ASSUME HostInv, Behind, HostNext, NEW h \in Profiled,
         HostCapture(h) \/ HostIngest(h) \/ HostReset(h) \/ HostMove(h) \/ HostPutBack(h)
           \/ \E stage \in DOMAIN Before : PassOn(h, stage)
  PROVE  /\ Behind'
         /\ \A g \in Profiled : g \notin lagged /\ g \notin lagged' =>
              /\ \A s \in Stages : reached'[g][s] = reached[g][s]
              /\ lines'[g] <= lines[g]
<1>0. /\ reached \in [Profiled -> [Stages -> Nat]]
      /\ lines \in [Profiled -> Nat] /\ processed \in [Profiled -> Nat]
      /\ rotation \in [Profiled -> [phase : {"none", "reset", "moved"}, tail : Nat]]
      /\ \A g \in Profiled : /\ processed[g] <= lines[g]
                             /\ lines[g] <= reached[g]["captured"]
                             /\ rotation[g].tail <= reached[g]["captured"]
                             /\ \A s \in DOMAIN Before : reached[g][s] <= reached[g][Before[s]]
      /\ \A g \in Profiled : Outstanding(g)' => g \in lagged'
  BY Remembered DEF HostInv, HostTypeOK, LinesCount, Behind
<1> DEFINE Bounds(g) == /\ lines'[g] <= reached'[g]["captured"]
                        /\ rotation'[g].tail <= reached'[g]["captured"]
                        /\ \A s \in DOMAIN Before : reached'[g][s] <= reached'[g][Before[s]]
           Same(g) == /\ \A s \in Stages : reached'[g][s] = reached[g][s]
                      /\ lines'[g] <= lines[g]
           Goal == \A g \in Profiled :
                     Bounds(g) /\ (g \notin lagged /\ g \notin lagged' => Same(g))
<1>1. ASSUME HostCapture(h)
      PROVE  Goal
  <2>1. /\ reached' = [reached EXCEPT ![h]["captured"] = @ + 1]
        /\ lines' = [lines EXCEPT ![h] = @ + 1]
        /\ processed' = processed /\ rotation' = rotation /\ ~Turning(h)
    BY <1>1 DEF HostCapture
  <2>2. /\ lines'[h] = lines[h] + 1
        /\ reached'[h]["captured"] = reached[h]["captured"] + 1
        /\ \A s \in DOMAIN Before : reached'[h][s] = reached[h][s]
        /\ \A g \in Profiled \ {h} : reached'[g] = reached[g] /\ lines'[g] = lines[g]
    BY <1>0, <2>1, StagesAre
  <2>3. lines[h] \in Nat /\ processed[h] \in Nat /\ processed[h] <= lines[h]
    BY <1>0
  <2>4. processed'[h] < lines'[h] /\ ~Turning(h)'
    BY <2>1, <2>2, <2>3 DEF Turning
  <2>5. h \in lagged'
    BY <1>0, <2>4 DEF Outstanding
  <2>6. Bounds(h)
    <3>1. lines[h] <= reached[h]["captured"] /\ rotation[h].tail <= reached[h]["captured"]
          /\ lines[h] \in Nat /\ rotation[h].tail \in Nat /\ reached[h]["captured"] \in Nat
      BY <1>0, StagesAre
    <3>2. lines'[h] <= reached'[h]["captured"] /\ rotation'[h].tail <= reached'[h]["captured"]
      BY <2>1, <2>2, <3>1
    <3>3. ASSUME NEW s \in DOMAIN Before PROVE reached'[h][s] <= reached'[h][Before[s]]
      <4>1. reached[h][s] <= reached[h][Before[s]] /\ reached'[h][s] = reached[h][s]
        BY <1>0, <2>2
      <4>2. reached[h][s] \in Nat /\ reached[h][Before[s]] \in Nat
        BY <1>0, StagesAre
      <4>3. \/ reached'[h][Before[s]] = reached[h][Before[s]]
            \/ reached'[h][Before[s]] = reached[h][Before[s]] + 1
        BY <2>2, StagesAre DEF Before
      <4>. QED
        BY <4>1, <4>2, <4>3
    <3>. QED
      BY <3>2, <3>3
  <2>7. ASSUME NEW g \in Profiled, g # h PROVE Bounds(g) /\ Same(g)
    BY <1>0, <2>1, <2>2, <2>7
  <2> HIDE DEF Bounds, Same
  <2>. QED
    BY <2>5, <2>6, <2>7
<1>2. ASSUME HostIngest(h)
      PROVE  Goal
  <2>1. UNCHANGED <<reached, lines, rotation>>
    BY <1>2 DEF HostIngest
  <2>. QED
    BY <1>0, <2>1
<1>3. ASSUME HostReset(h)
      PROVE  Goal
  <2>1. /\ UNCHANGED <<reached, lines>>
        /\ rotation' = [rotation EXCEPT ![h] = [phase |-> "reset", tail |-> lines[h] - processed[h]]]
    BY <1>3 DEF HostReset
  <2>2. /\ rotation'[h].tail = lines[h] - processed[h]
        /\ \A g \in Profiled \ {h} : rotation'[g] = rotation[g]
    BY <1>0, <2>1
  <2>3. lines[h] - processed[h] <= reached[h]["captured"]
    <3>1. lines[h] \in Nat /\ processed[h] \in Nat /\ reached[h]["captured"] \in Nat
          /\ lines[h] <= reached[h]["captured"]
      BY <1>0, StagesAre
    <3>. QED
      BY <3>1
  <2>4. ASSUME NEW g \in Profiled PROVE Bounds(g)
    <3>1. CASE g = h
      BY <1>0, <2>1, <2>2, <2>3, <3>1
    <3>2. CASE g # h
      BY <1>0, <2>1, <2>2, <3>2
    <3>. QED
      BY <3>1, <3>2
  <2>. QED
    BY <1>0, <2>1, <2>4
<1>4. ASSUME HostMove(h)
      PROVE  Goal
  <2>1. /\ reached' = reached
        /\ lines' = [lines EXCEPT ![h] = 0]
        /\ rotation' = [rotation EXCEPT ![h].phase = "moved"]
    BY <1>4 DEF HostMove
  <2>2. ASSUME NEW g \in Profiled
        PROVE  lines'[g] <= lines[g] /\ rotation'[g].tail = rotation[g].tail
    <3>1. lines[g] \in Nat /\ lines'[g] \in {0, lines[g]}
      BY <1>0, <2>1
    <3>. QED
      BY <1>0, <2>1, <3>1
  <2>3. ASSUME NEW g \in Profiled PROVE lines'[g] <= reached[g]["captured"]
    <3>1. lines[g] \in Nat /\ reached[g]["captured"] \in Nat /\ lines'[g] \in {0, lines[g]}
          /\ lines[g] <= reached[g]["captured"]
      BY <1>0, <2>1, StagesAre
    <3>. QED
      BY <3>1
  <2>. QED
    BY <1>0, <2>1, <2>2, <2>3
<1>5. ASSUME HostPutBack(h)
      PROVE  Goal
  <2>1. /\ reached' = reached
        /\ lines' = [lines EXCEPT ![h] = rotation[h].tail]
        /\ rotation' = [rotation EXCEPT ![h] = NoTurn]
    BY <1>5 DEF HostPutBack
  <2>2. /\ lines'[h] = rotation[h].tail /\ rotation'[h].tail = 0
        /\ \A g \in Profiled \ {h} : lines'[g] = lines[g] /\ rotation'[g] = rotation[g]
    BY <1>0, <2>1 DEF NoTurn
  <2>3. h \notin lagged => rotation[h].tail = 0
    BY NothingOutstanding
  <2>4. lines[h] \in Nat /\ reached[h]["captured"] \in Nat
    BY <1>0, StagesAre
  <2>5. Bounds(h) /\ (h \notin lagged => Same(h))
    BY <1>0, <2>1, <2>2, <2>3, <2>4
  <2>6. ASSUME NEW g \in Profiled, g # h PROVE Bounds(g) /\ Same(g)
    BY <1>0, <2>1, <2>2, <2>6
  <2> HIDE DEF Bounds, Same
  <2>. QED
    BY <2>5, <2>6
<1>6. ASSUME NEW stage \in DOMAIN Before, PassOn(h, stage)
      PROVE  Goal
  <2>1. /\ reached' = [reached EXCEPT ![h][stage] = @ + 1]
        /\ UNCHANGED <<lines, processed, rotation>>
        /\ reached[h][stage] < reached[h][Before[stage]]
    BY <1>6 DEF PassOn
  <2>2. h \in lagged
    BY <1>6, <2>1 DEF Outstanding, Behind
  <2>3. /\ reached'[h][stage] = reached[h][stage] + 1
        /\ \A s \in Stages \ {stage} : reached'[h][s] = reached[h][s]
        /\ \A g \in Profiled \ {h} : reached'[g] = reached[g]
    BY <1>0, <2>1, StagesAre
  <2>4. Bounds(h)
    <3>1. reached'[h]["captured"] = reached[h]["captured"]
      BY <2>3, StagesAre
    <3>2. ASSUME NEW s \in DOMAIN Before PROVE reached'[h][s] <= reached'[h][Before[s]]
      <4>1. /\ reached[h][s] \in Nat /\ reached[h][Before[s]] \in Nat
            /\ reached[h][s] <= reached[h][Before[s]]
        BY <1>0, StagesAre
      <4>2. Before[s] # s /\ Before[s] \in Stages /\ s \in Stages
        BY StagesAre DEF Before
      <4>3. CASE s = stage
        <5>1. /\ reached'[h][s] = reached[h][s] + 1
              /\ reached'[h][Before[s]] = reached[h][Before[s]]
              /\ reached[h][s] < reached[h][Before[s]]
          BY <2>1, <2>3, <4>2, <4>3
        <5>. QED
          BY <4>1, <5>1
      <4>4. CASE s # stage
        <5>1. reached'[h][s] = reached[h][s]
          BY <2>3, <4>2, <4>4
        <5>2. \/ reached'[h][Before[s]] = reached[h][Before[s]]
              \/ reached'[h][Before[s]] = reached[h][Before[s]] + 1
          BY <2>3, <4>2
        <5>. QED
          BY <4>1, <5>1, <5>2
      <4>. QED
        BY <4>3, <4>4
    <3>. QED
      BY <1>0, <2>1, <3>1, <3>2
  <2>5. ASSUME NEW g \in Profiled, g # h PROVE Bounds(g) /\ Same(g)
    BY <1>0, <2>1, <2>3, <2>5
  <2> HIDE DEF Bounds, Same
  <2>. QED
    BY <2>2, <2>4, <2>5
<1>7. Goal
  <2> HIDE DEF Goal
  <2>. QED
    BY <1>1, <1>2, <1>3, <1>4, <1>5, <1>6
<1>8. Behind'
  BY <1>0, <1>7 DEF Behind
<1>. QED
  BY <1>7, <1>8

\* A step of a host keeps the looks right: nothing that was read changes, and a host
\* that has lacked nothing since has what it had.
LEMMA HostStepLooks ==
  ASSUME HostInv, LagInv, HostNext, view' = view, NEW h \in Profiled,
         HostCapture(h) \/ HostIngest(h) \/ HostReset(h) \/ HostMove(h) \/ HostPutBack(h)
           \/ \E stage \in DOMAIN Before : PassOn(h, stage)
  PROVE  LagInv'
<1>1. /\ Behind'
      /\ \A g \in Profiled : g \notin lagged /\ g \notin lagged' =>
           /\ \A s \in Stages : reached'[g][s] = reached[g][s]
           /\ lines'[g] <= lines[g]
  BY HostStepBehind DEF LagInv
<1>2. CASE view = NoView
  <2>1. view'.next = 1 /\ view'.zeroed = {}
    BY <1>2 DEF NoView
  <2>2. \A i \in 1 .. Len(Profiles), p \in 1 .. 5 : ~Done(i, p)'
    BY <2>1 DEF Done
  <2>3. LooksRight'
    BY <2>1, <2>2 DEF LooksRight, Looked
  <2>. QED
    BY <1>1, <2>3 DEF LagInv
<1>3. CASE view # NoView
  <2>1. \A g \in lagged : g \in lagged'
    BY <1>3, Remembered
  <2>2. ASSUME NEW g \in Profiled, g \notin lagged'
        PROVE  /\ g \notin lagged
               /\ reached'[g]["captured"] = reached[g]["captured"]
               /\ lines'[g] <= lines[g] /\ lines'[g] \in Nat /\ lines[g] \in Nat
    <3>1. HostInv'
      BY HostStepHolds
    <3>2. lines'[g] \in Nat /\ lines[g] \in Nat
      BY <3>1 DEF HostInv, HostTypeOK
    <3>. QED
      BY <1>1, <2>1, <2>2, <3>2, StagesAre
  <2>3. \A g \in Profiled \ lagged' :
          /\ view'.next > 1 => view'.of[g]["imported"] = reached'[g]["captured"]
          /\ view'.next > 2 => view'.of[g]["projected"] = reached'[g]["captured"]
    BY <2>2 DEF LagInv, LooksRight
  <2>4. ASSUME NEW i \in 1 .. Len(Profiles), Profiles[i] \notin lagged' \cup view'.zeroed
        PROVE  Looked(i)'
    <3>1. Profiles[i] \in Profiled
      BY DEF Profiled
    <3>2. Looked(i) /\ Profiles[i] \notin lagged
      BY <2>2, <2>4, <3>1 DEF LagInv, LooksRight
    <3>3. \A p \in 1 .. 5 : Done(i, p)' <=> Done(i, p)
      BY DEF Done
    <3>4. view.of[Profiles[i]]["mark"] \in Nat
      BY <3>1 DEF HostInv, HostTypeOK, Items
    <3>. QED
      BY <2>2, <2>4, <3>1, <3>2, <3>3, <3>4 DEF Looked
  <2>5. LooksRight'
    BY <2>3, <2>4 DEF LooksRight
  <2>. QED
    BY <1>1, <2>5 DEF LagInv
<1>. QED
  BY <1>2, <1>3

\* A look changes nothing of the hosts.
LEMMA LookBehind ==
  ASSUME HostInv, Behind, HostNext, UNCHANGED hosts
  PROVE  /\ Behind'
         /\ HostTypeOK
BY Remembered DEF Behind, hosts, Outstanding, Turning, HostInv

\* A look at the store.
LEMMA ReadStoreLooks ==
  ASSUME HostInv, LagInv, HostNext, ReadStore
  PROVE  LagInv'
<1>1. /\ view.next \in {1, 2} /\ UNCHANGED hosts
      /\ view'.next = view.next + 1 /\ view'.zeroed = view.zeroed
      /\ view'.of = [h \in Profiled |-> [view.of[h] EXCEPT ![StoreReads[view.next]] =
                                           Found(h, StoreReads[view.next])]]
  <2>1. view.next \in Nat \ {0}
    BY DEF HostInv, HostTypeOK
  <2>2. view.next <= 2
    BY DEF ReadStore, StoreReads
  <2>. QED
    BY <2>1, <2>2 DEF ReadStore, HostInv, HostTypeOK
<1>2. Behind'
  BY <1>1, LookBehind DEF LagInv
<1>3. view' # NoView
  BY <1>1 DEF NoView
<1>4. \A g \in lagged : g \in lagged'
  BY <1>3, Remembered
<1>5. \A i \in 1 .. Len(Profiles), p \in 1 .. 5 : ~Done(i, p)'
  BY <1>1 DEF Done
<1>6. \A i \in 1 .. Len(Profiles) : Looked(i)'
  BY <1>5 DEF Looked
<1>7. ASSUME NEW g \in Profiled \ lagged'
      PROVE  /\ view'.of[g]["imported"] = reached'[g]["captured"]
             /\ view'.next > 2 => view'.of[g]["projected"] = reached'[g]["captured"]
  <2>1. g \notin lagged /\ \A s \in Stages : reached[g][s] = reached[g]["captured"]
    BY <1>4, <1>7, NothingOutstanding DEF LagInv
  <2>2. reached' = reached
    BY <1>1 DEF hosts
  <2>3. CASE view.next = 1
    <3>1. StoreReads[view.next] = "imported"
      BY <2>3 DEF StoreReads
    <3>2. Found(g, "imported") = reached[g]["imported"]
      BY DEF Found
    <3>3. view'.of[g]["imported"] = reached[g]["imported"]
      BY <1>1, <3>1, <3>2 DEF HostInv, HostTypeOK, Items
    <3>. QED
      BY <1>1, <2>1, <2>2, <2>3, <3>3, StagesAre
  <2>4. CASE view.next = 2
    <3>1. StoreReads[view.next] = "projected"
      BY <2>4 DEF StoreReads
    <3>2. Found(g, "projected") = reached[g]["projected"]
      BY DEF Found
    <3>3. /\ view'.of[g]["projected"] = reached[g]["projected"]
          /\ view'.of[g]["imported"] = view.of[g]["imported"]
      BY <1>1, <3>1, <3>2 DEF HostInv, HostTypeOK, Items
    <3>4. view.of[g]["imported"] = reached[g]["captured"]
      BY <2>1, <2>4 DEF LagInv, LooksRight
    <3>. QED
      BY <2>1, <2>2, <3>3, <3>4, StagesAre
  <2>. QED
    BY <1>1, <2>3, <2>4
<1>. QED
  BY <1>2, <1>6, <1>7 DEF LagInv, LooksRight

\* The looks at the hosts are made in order.
LEMMA WhichLook ==
  ASSUME HostInv, ReadHost
  PROVE  \E i \in 1 .. Len(Profiles), p \in 1 .. 5 :
           /\ view.next = 2 + 5 * (i - 1) + p
           /\ Profiles[((view.next - Len(StoreReads) - 1) \div Len(HostReads)) + 1] = Profiles[i]
           /\ HostReads[((view.next - Len(StoreReads) - 1) % Len(HostReads)) + 1] = HostReads[p]
<1> DEFINE k == view.next - 3
           n == Len(Profiles)
<1>1. Len(StoreReads) = 2 /\ Len(HostReads) = 5
  BY DEF StoreReads, HostReads
<1>2. view.next \in Nat /\ n \in Nat
  BY HostFreshnessAssumption DEF HostInv, HostTypeOK
<1>3. view.next > 2 /\ ~(view.next > 2 + n * 5)
  BY <1>1 DEF ReadHost, Answered, Reads
<1>4. k \in 0 .. 5 * n - 1
  BY <1>2, <1>3
<1>5. view.next - Len(StoreReads) - 1 = k
  BY <1>1, <1>2
<1> HIDE DEF k
<1>6. k = 5 * (k \div 5) + (k % 5) /\ (k % 5) \in 0 .. 4 /\ (k \div 5) \in Nat
  <2>1. k \in Nat
    BY <1>2, <1>4
  <2>. QED
    BY <2>1
<1> DEFINE q == k \div 5
           m == k % 5
<1>7. q \in Nat /\ m \in 0 .. 4 /\ k = 5 * q + m
  BY <1>6
<1>8. view.next = k + 3
  BY <1>2 DEF k
<1> HIDE DEF q, m
<1>9. q < n
  BY <1>2, <1>4, <1>7
<1>10. q + 1 \in 1 .. n /\ m + 1 \in 1 .. 5
  BY <1>2, <1>7, <1>9
<1>11. view.next = 2 + 5 * ((q + 1) - 1) + (m + 1)
  BY <1>7, <1>8
<1>. QED
  BY <1>1, <1>5, <1>10, <1>11 DEF q, m

\* A look at a host.
LEMMA ReadHostLooks ==
  ASSUME HostInv, LagInv, HostNext, ReadHost
  PROVE  LagInv'
<1>1. PICK i \in 1 .. Len(Profiles), p \in 1 .. 5 :
        /\ view.next = 2 + 5 * (i - 1) + p
        /\ Profiles[((view.next - Len(StoreReads) - 1) \div Len(HostReads)) + 1] = Profiles[i]
        /\ HostReads[((view.next - Len(StoreReads) - 1) % Len(HostReads)) + 1] = HostReads[p]
  BY WhichLook
<1> DEFINE h == Profiles[i]
           item == HostReads[p]
           asof == IF item = "count" THEN reached[h]["captured"] ELSE view.of[h]["asof"]
<1>2. h \in Profiled /\ Len(Profiles) \in Nat
  BY HostFreshnessAssumption DEF Profiled
<1>3. /\ view' = [next |-> view.next + 1,
                  of |-> [view.of EXCEPT ![h][item] = Found(h, item),
                                         ![h]["asof"] = IF item = "count"
                                                        THEN reached[h]["captured"] ELSE @],
                  zeroed |-> IF item = "mark" /\ rotation[h].phase = "reset"
                             THEN view.zeroed \cup {h} ELSE view.zeroed]
      /\ UNCHANGED hosts
  BY <1>1 DEF ReadHost
<1>4. item \in Items /\ item \in {"mark", "size", "count", "exported", "transported"}
  BY DEF HostReads, Items
<1> HIDE DEF h, item
<1>5. /\ view'.next = view.next + 1
      /\ view'.of[h] = [view.of[h] EXCEPT ![item] = Found(h, item), !["asof"] = asof]
      /\ \A g \in Profiled \ {h} : view'.of[g] = view.of[g]
      /\ \A g : g \in view.zeroed => g \in view'.zeroed
      /\ item = "mark" /\ rotation[h].phase = "reset" => h \in view'.zeroed
  BY <1>2, <1>3, <1>4 DEF HostInv, HostTypeOK, Items
<1> HIDE DEF asof
<1>6. /\ view'.of[h][item] = Found(h, item)
      /\ \A other \in Items \ {item} : view'.of[h][other] = view.of[h][other]
  BY <1>2, <1>4, <1>5 DEF HostInv, HostTypeOK, Items
<1>7. Behind'
  BY <1>3, LookBehind DEF LagInv
<1>8. \A g \in lagged : g \in lagged'
  <2>1. view' # NoView
    BY <1>1, <1>2, <1>5 DEF NoView
  <2>. QED
    BY <2>1, Remembered
<1>9. UNCHANGED <<reached, lines, processed, rotation>>
  BY <1>3 DEF hosts
<1>10. ASSUME NEW g \in Profiled \ lagged'
       PROVE  /\ view'.of[g]["imported"] = reached'[g]["captured"]
              /\ view'.of[g]["projected"] = reached'[g]["captured"]
  <2>1. g \notin lagged /\ view.next > 1 /\ view.next > 2
    BY <1>1, <1>2, <1>8, <1>10
  <2>2. /\ view.of[g]["imported"] = reached[g]["captured"]
        /\ view.of[g]["projected"] = reached[g]["captured"]
    BY <2>1 DEF LagInv, LooksRight
  <2>3. /\ view'.of[g]["imported"] = view.of[g]["imported"]
        /\ view'.of[g]["projected"] = view.of[g]["projected"]
    BY <1>4, <1>5, <1>6 DEF Items
  <2>. QED
    BY <1>9, <2>2, <2>3
<1>11. ASSUME NEW j \in 1 .. Len(Profiles), j # i,
              Profiles[j] \notin lagged' \cup view'.zeroed
       PROVE  Looked(j)'
  <2>1. Profiles[j] # h /\ Profiles[j] \in Profiled
    BY <1>11, HostFreshnessAssumption DEF h, Profiled
  <2>2. Looked(j)
    BY <1>5, <1>8, <1>11 DEF LagInv, LooksRight
  <2>3. \A q \in 1 .. 5 : Done(j, q)' <=> Done(j, q)
    <3>1. ASSUME NEW q \in 1 .. 5
          PROVE  2 + 5 * (j - 1) + q # 2 + 5 * (i - 1) + p
      BY <1>2, <1>11
    <3>2. view.next \in Nat
      BY DEF HostInv, HostTypeOK
    <3>3. ASSUME NEW q \in 1 .. 5
          PROVE  view.next + 1 > 2 + 5 * (j - 1) + q <=> view.next > 2 + 5 * (j - 1) + q
      <4>1. view.next # 2 + 5 * (j - 1) + q
        BY <1>1, <3>1
      <4>. QED
        BY <1>2, <3>2, <4>1
    <3>. QED
      BY <1>5, <3>3 DEF Done
  <2>4. view'.of[Profiles[j]] = view.of[Profiles[j]]
    BY <1>5, <2>1
  <2>. QED
    BY <1>9, <2>2, <2>3, <2>4 DEF Looked
<1>12. ASSUME h \notin lagged' \cup view'.zeroed
       PROVE  Looked(i)'
  <2>1. h \notin lagged /\ h \notin view.zeroed
    BY <1>5, <1>8, <1>12
  <2>2. Looked(i)
    BY <2>1 DEF LagInv, LooksRight, h
  <2>3. \A q \in 1 .. 5 : (Done(i, q) <=> q < p) /\ (Done(i, q)' <=> q <= p)
    BY <1>1, <1>2, <1>5 DEF Done
  <2>4. /\ \A s \in Stages : reached[h][s] = reached[h]["captured"]
        /\ rotation[h].tail = 0
        /\ rotation[h].phase = "none" => processed[h] = lines[h]
    BY <1>2, <2>1, NothingOutstanding DEF LagInv
  <2>5. /\ lines[h] \in Nat /\ processed[h] \in Nat /\ lines[h] <= reached[h]["captured"]
        /\ rotation[h].phase \in {"none", "reset", "moved"}
        /\ rotation[h].phase = "moved" => lines[h] = 0
    BY <1>2 DEF HostInv, HostTypeOK, LinesCount, LagInv, Behind
  <2>6. CASE p = 1
    <3>1. item = "mark"
      BY <2>6 DEF item, HostReads
    <3>2. view'.of[h]["mark"] = processed[h]
      BY <1>6, <3>1 DEF Found
    <3>3. rotation[h].phase # "reset"
      BY <1>5, <1>12, <3>1
    <3>4. lines[h] <= processed[h]
      BY <2>4, <2>5, <3>3
    <3>. QED
      BY <1>9, <2>3, <2>6, <3>2, <3>4 DEF Looked, h
  <2>7. CASE p = 2
    <3>1. item = "size"
      BY <2>7 DEF item, HostReads
    <3>2. view'.of[h]["size"] = lines[h] /\ view'.of[h]["mark"] = view.of[h]["mark"]
      BY <1>6, <3>1 DEF Found, Items
    <3>3. lines[h] <= view.of[h]["mark"]
      BY <2>2, <2>3, <2>7 DEF Looked, h
    <3>. QED
      BY <1>9, <2>3, <2>7, <3>2, <3>3 DEF Looked, h
  <2>8. CASE p = 3
    <3>1. item = "count"
      BY <2>8 DEF item, HostReads
    <3>2. /\ view'.of[h]["count"] = lines[h] /\ view'.of[h]["mark"] = view.of[h]["mark"]
          /\ view'.of[h]["size"] = view.of[h]["size"]
      BY <1>6, <3>1 DEF Found, Items
    <3>. QED
      BY <1>9, <2>2, <2>3, <2>5, <2>8, <3>2 DEF Looked, h
  <2>9. CASE p = 4
    <3>1. item = "exported"
      BY <2>9 DEF item, HostReads
    <3>2. /\ view'.of[h]["exported"] = reached[h]["captured"]
          /\ \A other \in {"mark", "size", "count"} : view'.of[h][other] = view.of[h][other]
      BY <1>6, <2>4, <3>1, StagesAre DEF Found, Items
    <3>. QED
      BY <1>9, <2>2, <2>3, <2>9, <3>2 DEF Looked, h
  <2>10. CASE p = 5
    <3>1. item = "transported"
      BY <2>10 DEF item, HostReads
    <3>2. /\ view'.of[h]["transported"] = reached[h]["captured"]
          /\ \A other \in {"mark", "size", "count", "exported"} :
               view'.of[h][other] = view.of[h][other]
      BY <1>6, <2>4, <3>1, StagesAre DEF Found, Items
    <3>. QED
      BY <1>9, <2>2, <2>3, <2>10, <3>2 DEF Looked, h
  <2>. QED
    BY <2>6, <2>7, <2>8, <2>9, <2>10
<1>13. ASSUME NEW j \in 1 .. Len(Profiles), Profiles[j] \notin lagged' \cup view'.zeroed
       PROVE  Looked(j)'
  <2>1. CASE j = i
    BY <1>12, <1>13, <2>1 DEF h
  <2>2. CASE j # i
    BY <1>11, <1>13, <2>2
  <2>. QED
    BY <2>1, <2>2
<1>. QED
  BY <1>7, <1>10, <1>13 DEF LagInv, LooksRight

\* Every step keeps the invariant of the looks.
LEMMA StepLooks == HostInv /\ LagInv /\ [HostNext]_hvars => LagInv'
<1> SUFFICES ASSUME HostInv, LagInv, [HostNext]_hvars PROVE LagInv'
  OBVIOUS
<1>1. CASE UNCHANGED hvars
  BY <1>1 DEF hvars, LagInv, Behind, LooksRight, Looked, Done, Outstanding, Turning
<1>2. CASE HostNext
  <2>1. ASSUME ReportAgain
        PROVE  LagInv'
    <3>1. view'.next = 1 /\ view'.zeroed = {} /\ UNCHANGED hosts
      BY <2>1 DEF ReportAgain, NoView
    <3>2. \A i \in 1 .. Len(Profiles), p \in 1 .. 5 : ~Done(i, p)'
      BY <3>1 DEF Done
    <3>3. LooksRight'
      BY <3>1, <3>2 DEF LooksRight, Looked
    <3>. QED
      BY <1>2, <3>1, <3>3, LookBehind DEF LagInv
  <2>2. ASSUME NEW h \in Profiled,
               HostCapture(h) \/ HostIngest(h) \/ HostReset(h) \/ HostMove(h)
                 \/ HostPutBack(h) \/ \E stage \in DOMAIN Before : PassOn(h, stage)
        PROVE  LagInv'
    <3>1. view' = view
      BY <2>2 DEF HostCapture, HostIngest, HostReset, HostMove, HostPutBack, PassOn
    <3>. QED
      BY <1>2, <2>2, <3>1, HostStepLooks
  <2>3. ASSUME ReadStore PROVE LagInv'
    BY <1>2, <2>3, ReadStoreLooks
  <2>4. ASSUME ReadHost PROVE LagInv'
    BY <1>2, <2>4, ReadHostLooks
  <2>5. HostStep
    BY <1>2 DEF HostNext
  <2>. QED
    BY <2>1, <2>2, <2>3, <2>4, <2>5 DEF HostStep
<1>. QED
  BY <1>1, <1>2

\* No host looks as if it lagged unless it did lack something at a moment of the
\* reading, or its watermark was read while a rotation had set it to zero with the
\* queue in its place yet; for any hosts, numbers of events and order of steps.
THEOREM LaggingIsExplained == HostSpec => []LagExplained
<1>1. HostInit => LagInv
  <2> SUFFICES ASSUME HostInit PROVE LagInv
    OBVIOUS
  <2>1. view.next = 1 /\ view.zeroed = {}
    BY DEF HostInit, NoView
  <2>2. \A i \in 1 .. Len(Profiles), p \in 1 .. 5 : ~Done(i, p)
    BY <2>1 DEF Done
  <2>3. LooksRight
    BY <2>1, <2>2 DEF LooksRight, Looked
  <2>4. /\ \A h \in Profiled : /\ \A s \in Stages : reached[h][s] = 0
                               /\ lines[h] = 0 /\ processed[h] = 0
                               /\ rotation[h].tail = 0
    BY DEF HostInit, NoTurn
  <2>5. Behind
    BY <2>4, StagesAre DEF Behind, Outstanding, Turning
  <2>. QED
    BY <2>3, <2>5 DEF LagInv
<1>2. HostInv /\ LagInv => LagExplained
  <2> SUFFICES ASSUME HostInv, LagInv, Answered, NEW h \in Profiled,
                      h \notin lagged \cup view.zeroed
               PROVE  HostOk(h)
    BY DEF LagExplained
  <2>1. PICK i \in 1 .. Len(Profiles) : h = Profiles[i]
    BY DEF Profiled
  <2>2. view.next \in Nat /\ Len(Profiles) \in Nat /\ view.next > 2 + Len(Profiles) * 5
    BY HostFreshnessAssumption DEF HostInv, HostTypeOK, Answered, Reads, StoreReads, HostReads
  <2>3. \A p \in 1 .. 5 : Done(i, p)
    BY <2>2 DEF Done
  <2>4. Looked(i)
    BY <2>1 DEF LagInv, LooksRight
  <2> DEFINE v == view.of[h]
  <2>5. /\ v["size"] <= v["mark"] /\ v["count"] <= reached[h]["captured"]
        /\ v["exported"] = reached[h]["captured"] /\ v["transported"] = reached[h]["captured"]
    BY <2>1, <2>3, <2>4 DEF Looked
  <2>6. v["imported"] = reached[h]["captured"] /\ v["projected"] = reached[h]["captured"]
    BY <2>2 DEF LagInv, LooksRight
  <2>7. /\ v["size"] \in Nat /\ v["mark"] \in Nat /\ v["count"] \in Nat
        /\ reached[h]["captured"] \in Nat
    <3>1. view.of[h] \in [Items \cup {"asof"} -> Nat] /\ reached[h] \in [Stages -> Nat]
      BY DEF HostInv, HostTypeOK
    <3>2. {"size", "mark", "count"} \subseteq Items
      BY DEF Items
    <3>. QED
      BY <3>1, <3>2, StagesAre
  <2>8. /\ ~(v.size > v.mark) /\ ~(v.exported < v.count) /\ ~(v.transported < v.exported)
        /\ ~(v.imported < v.transported) /\ ~(v.projected < v.imported)
    <3> HIDE DEF v
    <3>. QED
      BY <2>5, <2>6, <2>7
  <2>9. \A n \in 1 .. 5 : ~Checks(v)[n].late
    <3> HIDE DEF v
    <3>1. /\ Checks(v)[1].late = (v.size > v.mark) /\ Checks(v)[2].late = (v.exported < v.count)
          /\ Checks(v)[3].late = (v.transported < v.exported)
          /\ Checks(v)[4].late = (v.imported < v.transported)
          /\ Checks(v)[5].late = (v.projected < v.imported)
      BY DEF Checks
    <3>2. \A n \in 1 .. 5 : n = 1 \/ n = 2 \/ n = 3 \/ n = 4 \/ n = 5
      OBVIOUS
    <3>. QED
      BY <2>8, <3>1, <3>2
  <2>10. DOMAIN Checks(v) = 1 .. 5
    BY DEF Checks
  <2>11. {n \in DOMAIN Checks(v) : Checks(v)[n].late} = {}
    BY <2>9, <2>10
  <2>. QED
    BY <2>11 DEF HostOk, HostReason
<1>3. HostSpec => [](HostInv /\ LagInv)
  BY <1>1, InitHolds, StepHolds, StepLooks, PTL DEF HostSpec
<1>. QED
  BY <1>2, <1>3, PTL
=============================================================================

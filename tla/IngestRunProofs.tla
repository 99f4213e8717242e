--------------------------- MODULE IngestRunProofs -------------------------
(***************************************************************************)
(* Proofs about IngestRun for any sources and any number of runs and       *)
(* attempts: types, that the events of a run are numbered without gap, that *)
(* a source line is stored once when runs do not overlap, that warnings are *)
(* counted, that a completed run left nothing out, and that what a run     *)
(* reported is found by the search.                                        *)
(***************************************************************************)
EXTENDS IngestRun, FiniteSetTheorems, TLAPS

----------------------------------------------------------------------------
(* Type correctness.                                                       *)

\* What the constants imply of the adapters: each has a first line, and every
\* line is a number.
LEMMA LinesAreNat ==
  /\ Len(Sources) \in Nat
  /\ \A a \in Adapters : Len(Sources[a]) \in Nat \ {0}
  /\ \A a \in Adapters : \A k \in 1 .. Len(Sources[a]) : Sources[a][k] \in Nat
<1>1. Len(Sources) \in Nat
  BY IngestRunAssumption
<1>2. ASSUME NEW a \in Adapters
      PROVE  Sources[a] \in Seq(Nat) /\ Sources[a] # <<>>
  BY IngestRunAssumption DEF Adapters
<1> QED
  BY <1>1, <1>2

\* The line a run is at is a number.
LEMMA LineIsNat ==
  ASSUME TypeOK, NEW r \in Runs, pc[r] \in {"line", "sequence", "append", "warn"}
  PROVE  LineAt(r) \in Nat
BY LinesAreNat DEF TypeOK, Placed, LineAt

\* Where a run that was begun keeps its attempts, GotoType applies.
LEMMA StillAttempted ==
  ASSUME TypeOK, NEW r \in Runs, pc[r] # "idle", UNCHANGED attempt
  PROVE  attempt'[r] > 0 /\ \A x \in Runs \ {r} : attempt'[x] = attempt[x]
BY DEF TypeOK, Placed

\* Going on to the next line or adapter keeps the place of a run and its
\* counts well-typed.
LEMMA AdvanceType ==
  ASSUME TypeOK, NEW r \in Runs, NEW new \in Nat, pc[r] \in {"line", "append"},
         Advance(r, new), UNCHANGED attempt
  PROVE  /\ pc' \in [Runs -> Labels]
         /\ at' \in [Runs -> [adapter : Nat, line : Nat]]
         /\ count' \in [Runs -> [total : Nat, adapter : Nat]]
         /\ \A x \in Runs : Placed(x)'
<1> DEFINE a == at[r].adapter
<1>1. a \in Adapters /\ a \in Nat /\ at[r].line \in 1 .. Len(Sources[a])
  BY DEF TypeOK, Placed, Adapters
<1>2. at[r].line \in Nat /\ count[r].total \in Nat /\ count[r].adapter \in Nat
  BY DEF TypeOK
<1>3. CASE at[r].line < Len(Sources[a])
  <2>1. /\ at' = [at EXCEPT ![r].line = @ + 1]
        /\ count' = [count EXCEPT ![r].adapter = @ + new]
        /\ pc' = [pc EXCEPT ![r] = "line"]
    BY <1>3 DEF Advance, Goto
  <2>2. at'[r].adapter = a /\ at'[r].line = at[r].line + 1
    BY <2>1 DEF TypeOK
  <2>3. Placed(r)'
    BY <1>1, <1>2, <1>3, <2>2, LinesAreNat, StillAttempted DEF Placed
  <2>4. \A x \in Runs \ {r} : at'[x] = at[x] /\ pc'[x] = pc[x]
    BY <2>1 DEF TypeOK
  <2>5. \A x \in Runs \ {r} : Placed(x)'
    BY <2>4 DEF Placed, TypeOK
  <2> QED
    BY <1>2, <2>1, <2>3, <2>5 DEF TypeOK, Labels
<1>4. CASE ~(at[r].line < Len(Sources[a]))
  <2>1. /\ at' = [at EXCEPT ![r] = [adapter |-> a + 1, line |-> 1]]
        /\ count' = [count EXCEPT ![r] =
                       [total |-> @.total + @.adapter + new, adapter |-> 0]]
        /\ pc' = [pc EXCEPT ![r] = IF a < Len(Sources) THEN "line" ELSE "status"]
    BY <1>4 DEF Advance, Goto
  <2>2. at'[r] = [adapter |-> a + 1, line |-> 1]
        /\ pc'[r] = IF a < Len(Sources) THEN "line" ELSE "status"
    BY <2>1 DEF TypeOK
  <2>3. a < Len(Sources) => a + 1 \in Adapters
    BY <1>1, LinesAreNat DEF Adapters
  <2>4. Placed(r)'
    BY <2>2, <2>3, LinesAreNat, StillAttempted DEF Placed
  <2>5. \A x \in Runs \ {r} : at'[x] = at[x] /\ pc'[x] = pc[x]
    BY <2>1 DEF TypeOK
  <2>6. \A x \in Runs \ {r} : Placed(x)'
    BY <2>5 DEF Placed, TypeOK
  <2>7. [adapter |-> a + 1, line |-> 1] \in [adapter : Nat, line : Nat]
    BY <1>1
  <2>8. at' \in [Runs -> [adapter : Nat, line : Nat]]
    BY <2>1, <2>7 DEF TypeOK
  <2>9. [total |-> count[r].total + count[r].adapter + new, adapter |-> 0]
          \in [total : Nat, adapter : Nat]
    BY <1>2
  <2>10. count' \in [Runs -> [total : Nat, adapter : Nat]]
    BY <2>1, <2>9 DEF TypeOK
  <2>11. pc' \in [Runs -> Labels]
    BY <2>1 DEF TypeOK, Labels
  <2> QED
    BY <2>4, <2>6, <2>8, <2>10, <2>11
<1> QED
  BY <1>3, <1>4

\* Giving up an adapter keeps the place of a run and its counts well-typed.
LEMMA SkipType ==
  ASSUME TypeOK, NEW r \in Runs, pc[r] = "warn", SkipAdapter(r),
         UNCHANGED attempt
  PROVE  /\ pc' \in [Runs -> Labels]
         /\ at' \in [Runs -> [adapter : Nat, line : Nat]]
         /\ count' \in [Runs -> [total : Nat, adapter : Nat]]
         /\ \A x \in Runs : Placed(x)'
<1> DEFINE a == at[r].adapter
<1>1. a \in Adapters /\ a \in Nat
  BY DEF TypeOK, Placed, Adapters
<1>2. /\ at' = [at EXCEPT ![r] = [adapter |-> a + 1, line |-> 1]]
      /\ count' = [count EXCEPT ![r].adapter = 0]
      /\ pc' = [pc EXCEPT ![r] = IF a < Len(Sources) THEN "line" ELSE "status"]
  BY DEF SkipAdapter, Goto
<1>3. at'[r] = [adapter |-> a + 1, line |-> 1]
      /\ pc'[r] = IF a < Len(Sources) THEN "line" ELSE "status"
  BY <1>2 DEF TypeOK
<1>4. a < Len(Sources) => a + 1 \in Adapters
  BY <1>1, LinesAreNat DEF Adapters
<1>5. Placed(r)'
  BY <1>3, <1>4, LinesAreNat, StillAttempted DEF Placed
<1>6. \A x \in Runs \ {r} : at'[x] = at[x] /\ pc'[x] = pc[x]
  BY <1>2 DEF TypeOK
<1>7. \A x \in Runs \ {r} : Placed(x)'
  BY <1>6 DEF Placed, TypeOK
<1>8. [adapter |-> a + 1, line |-> 1] \in [adapter : Nat, line : Nat]
  BY <1>1
<1>9. at' \in [Runs -> [adapter : Nat, line : Nat]]
  BY <1>2, <1>8 DEF TypeOK
<1>10. count' \in [Runs -> [total : Nat, adapter : Nat]]
  BY <1>2 DEF TypeOK
<1>11. pc' \in [Runs -> Labels]
  BY <1>2 DEF TypeOK, Labels
<1> QED
  BY <1>5, <1>7, <1>9, <1>10, <1>11

\* A run that goes to a label outside its adapters, or stays where it is in
\* its sources, keeps the labels and places well-typed.
LEMMA GotoType ==
  ASSUME TypeOK, NEW r \in Runs, NEW label \in Labels, Goto(r, label),
         UNCHANGED at, attempt'[r] > 0,
         \A x \in Runs \ {r} : attempt'[x] = attempt[x],
         label \in {"line", "sequence", "append", "warn"} =>
           pc[r] \in {"line", "sequence", "append", "warn"}
  PROVE  pc' \in [Runs -> Labels] /\ \A x \in Runs : Placed(x)'
BY DEF TypeOK, Goto, Placed

\* The initial state is well-typed.
LEMMA InitType == Init => TypeOK
<1> SUFFICES ASSUME Init PROVE TypeOK
  OBVIOUS
<1> USE IngestRunAssumption DEF Init
<1>1. rows \in [Runs -> RowType]
  BY DEF NoRow, RowType, Statuses
<1>2. attempt \in [Runs -> 0 .. MaxAttempts]
  OBVIOUS
<1>3. verdict \in [Runs -> Statuses]
  BY DEF Statuses
<1>4. pc \in [Runs -> Labels] /\ \A r \in Runs : pc[r] = "idle"
  BY DEF Labels
<1>5. /\ at \in [Runs -> [adapter : Nat, line : Nat]]
      /\ count \in [Runs -> [total : Nat, adapter : Nat]]
      /\ seq \in [Runs -> Nat]
      /\ report \in [Runs -> ReportType \cup {NoReport}]
  OBVIOUS
<1>6. events = {} /\ warned = {} /\ quarantined = {} /\ indexed = {}
  OBVIOUS
<1> QED
  BY <1>1, <1>2, <1>3, <1>4, <1>5, <1>6 DEF TypeOK, Placed

\* Counting a warning keeps the type of the table of runs.
LEMMA CountedType ==
  ASSUME TypeOK, NEW r \in Runs,
         UNCHANGED rows \/ rows' = [rows EXCEPT ![r].warnings = @ + 1]
  PROVE  rows' \in [Runs -> RowType]
<1>1. rows[r].warnings \in Nat /\ rows[r].status \in Statuses \cup {"none"}
  BY DEF TypeOK, RowType
<1>2. [rows[r] EXCEPT !.warnings = @ + 1] \in RowType
  BY SMTT(30), <1>1 DEF TypeOK, RowType
<1>3. CASE UNCHANGED rows
  BY <1>3 DEF TypeOK
<1>4. CASE rows' = [rows EXCEPT ![r].warnings = @ + 1]
  BY <1>2, <1>4 DEF TypeOK
<1> QED
  BY <1>3, <1>4

\* A report has its type.
LEMMA ReportIsTyped ==
  ASSUME TypeOK, NEW r \in Runs, NEW s \in Statuses \cup {"none", "warning"},
         NEW n \in Nat, NEW k \in Nat,
         NEW e \in {"none", "locked", "collision", "other"},
         Report(r, s, n, k, e)
  PROVE  report' \in [Runs -> ReportType \cup {NoReport}]
BY DEF TypeOK, Report, ReportType

\* Giving up keeps the types.
LEMMA GiveUpType ==
  ASSUME TypeOK, NEW r \in Runs, pc[r] # "idle", NEW k \in Nat,
         NEW e \in {"none", "locked", "collision", "other"}, GiveUp(r, k, e)
  PROVE  TypeOK'
<1>1. report' \in [Runs -> ReportType \cup {NoReport}]
  <2>1. CASE Report(r, "warning", 0, k, e)
    BY <2>1, ReportIsTyped
  <2>2. CASE UNCHANGED report
    BY <2>2 DEF TypeOK
  <2> QED
    BY <2>1, <2>2 DEF GiveUp
<1>2. UNCHANGED at /\ Goto(r, "ended") /\ "ended" \in Labels
  BY DEF GiveUp, job, Labels
<1>3. pc' \in [Runs -> Labels] /\ \A x \in Runs : Placed(x)'
  BY <1>2, StillAttempted, GotoType DEF GiveUp, job
<1> QED
  BY <1>1, <1>3 DEF GiveUp, TypeOK, Placed, store, job

\* The set of events stays well-typed when one is inserted.
LEMMA InsertType ==
  ASSUME TypeOK, NEW r \in Runs, pc[r] = "append"
  PROVE  Insert(r) \subseteq [line : Nat, seq : Nat, run : Runs]
BY LineIsNat DEF Insert, TypeOK

\* The events of a run are finitely many, numbered from 0, and the number it
\* is about to use is the next one.
Numbered(r) ==
  /\ IsFiniteSet(EventsOf(r))
  /\ {e.seq : e \in EventsOf(r)} = 0 .. Cardinality(EventsOf(r)) - 1
  /\ \A d, e \in EventsOf(r) : d.seq = e.seq => d = e
  /\ pc[r] = "append" => seq[r] = Cardinality(EventsOf(r))

\* COALESCE(MAX(observed_sequence) + 1, 0) counts the events of a run.
LEMMA NextCounts ==
  ASSUME NEW r \in Runs, Numbered(r)
  PROVE  NextSequence(r) = Cardinality(EventsOf(r)) /\ NextSequence(r) \in Nat
<1> DEFINE E == EventsOf(r)
           n == Cardinality(E)
           S == {e.seq : e \in E}
<1>1. n \in Nat /\ (E = {} <=> n = 0)
  BY FS_CardinalityType, FS_EmptySet DEF Numbered
<1>2. CASE E = {}
  BY <1>1, <1>2 DEF NextSequence
<1>3. CASE E # {}
  <2>1. S = 0 .. n - 1 /\ n > 0
    BY <1>1, <1>3 DEF Numbered
  <2>2. \A m \in S : (\A e \in E : e.seq <= m) <=> (\A k \in S : k <= m)
    OBVIOUS
  <2>3. n - 1 \in S /\ \A k \in S : k \in Int /\ k <= n - 1
    BY <2>1, <1>1
  <2>4. \A m \in S : (\A k \in S : k <= m) <=> m = n - 1
    <3>1. ASSUME NEW m \in S, \A k \in S : k <= m PROVE m = n - 1
      <4>1. m \in Int /\ m <= n - 1
        BY <2>3, <3>1
      <4>2. n - 1 <= m
        BY <2>3, <3>1
      <4> QED
        BY <4>1, <4>2, <1>1
    <3>2. ASSUME NEW m \in S, m = n - 1 PROVE \A k \in S : k <= m
      BY <2>3, <3>2
    <3> QED
      BY <3>1, <3>2
  <2>5. (CHOOSE m \in S : \A e \in E : e.seq <= m) = n - 1
    BY <2>2, <2>3, <2>4, Zenon
  <2>6. NextSequence(r) = 1 + (n - 1)
    BY <1>3, <2>5 DEF NextSequence
  <2> QED
    BY <1>1, <2>6
<1> QED
  BY <1>2, <1>3

\* Every step keeps the types.
LEMMA NextType ==
  TypeOK /\ (\A r \in Runs : Numbered(r)) /\ [Next]_vars => TypeOK'
<1> SUFFICES ASSUME TypeOK, \A r \in Runs : Numbered(r), [Next]_vars
             PROVE  TypeOK'
  OBVIOUS
<1>1. CASE UNCHANGED vars
  BY <1>1 DEF vars, TypeOK, Placed
<1>2. ASSUME NEW r \in Runs, Begin(r) PROVE TypeOK'
  <2>0. attempt'[r] > 0 /\ \A x \in Runs \ {r} : attempt'[x] = attempt[x]
    BY <1>2 DEF Begin, TypeOK
  <2>1. "start" \in Labels
    BY DEF Labels
  <2>2. pc' \in [Runs -> Labels] /\ \A x \in Runs : Placed(x)'
    BY <1>2, <2>1, <2>0, GotoType DEF Begin
  <2>3. attempt' \in [Runs -> 0 .. MaxAttempts]
    BY <1>2, IngestRunAssumption DEF Begin, TypeOK
  <2> QED
    BY <1>2, <2>2, <2>3 DEF Begin, TypeOK, Placed, store
<1>3. ASSUME NEW r \in Runs, StartRun(r) PROVE TypeOK'
  <2>0. attempt'[r] > 0
    BY <1>3, StillAttempted DEF StartRun
  <2>1. at'[r] = [adapter |-> 1, line |-> 1]
        /\ pc'[r] = IF Sources = <<>> THEN "status" ELSE "line"
    BY <1>3 DEF StartRun, Goto, TypeOK
  <2>2. Placed(r)'
    <3>1. CASE Sources = <<>>
      BY <2>1, <2>0, <3>1 DEF Placed
    <3>2. CASE Sources # <<>>
      <4>1. 1 \in Adapters
        BY <3>2, IngestRunAssumption DEF Adapters
      <4> QED
        BY <2>1, <2>0, <4>1, LinesAreNat DEF Placed
    <3> QED
      BY <3>1, <3>2
  <2>3. \A x \in Runs \ {r} : at'[x] = at[x] /\ pc'[x] = pc[x]
    BY <1>3 DEF StartRun, Goto, TypeOK
  <2>4. \A x \in Runs : Placed(x)'
    BY <1>3, <2>2, <2>3 DEF StartRun, Placed, TypeOK
  <2>5. FreshRow \in RowType
    BY DEF FreshRow, RowType, Statuses
  <2>6. rows' \in [Runs -> RowType]
    BY <1>3, <2>5 DEF StartRun, TypeOK
  <2>7. pc' \in [Runs -> Labels]
    BY <1>3 DEF StartRun, Goto, TypeOK, Labels
  <2>8. at' \in [Runs -> [adapter : Nat, line : Nat]]
    BY <1>3 DEF StartRun, TypeOK
  <2>9. count' \in [Runs -> [total : Nat, adapter : Nat]]
    BY <1>3 DEF StartRun, TypeOK
  <2> QED
    BY <1>3, <2>4, <2>6, <2>7, <2>8, <2>9 DEF StartRun, TypeOK, Placed
<1>4. ASSUME NEW r \in Runs, PassStored(r) PROVE TypeOK'
  BY <1>4, AdvanceType DEF PassStored, TypeOK, Placed, store
<1>5. ASSUME NEW r \in Runs, FindNew(r) PROVE TypeOK'
  <2>1. "sequence" \in Labels
    BY DEF Labels
  <2>2. pc' \in [Runs -> Labels] /\ \A x \in Runs : Placed(x)'
    BY <1>5, <2>1, StillAttempted, GotoType DEF FindNew, job
  <2> QED
    BY <1>5, <2>2 DEF FindNew, TypeOK, Placed, store, job
<1>6. ASSUME NEW r \in Runs, Sequence(r) PROVE TypeOK'
  <2>1. "append" \in Labels
    BY DEF Labels
  <2>2. pc' \in [Runs -> Labels] /\ \A x \in Runs : Placed(x)'
    BY <1>6, <2>1, StillAttempted, GotoType DEF Sequence
  <2>3. NextSequence(r) \in Nat
    BY NextCounts
  <2>4. seq' \in [Runs -> Nat]
    BY <1>6, <2>3 DEF Sequence, TypeOK
  <2> QED
    BY <1>6, <2>2, <2>4 DEF Sequence, TypeOK, Placed, store
<1>7. ASSUME NEW r \in Runs, AppendEvent(r) PROVE TypeOK'
  <2>1. events' \subseteq [line : Nat, seq : Nat, run : Runs]
    BY <1>7, InsertType DEF AppendEvent
  <2>2. PICK new \in {0, 1} : Advance(r, new)
    BY <1>7 DEF AppendEvent
  <2> QED
    BY <1>7, <2>1, <2>2, AdvanceType DEF AppendEvent, TypeOK, Placed
<1>8. ASSUME NEW r \in Runs, AppendUncheckpointed(r) PROVE TypeOK'
  <2>1. events' \subseteq [line : Nat, seq : Nat, run : Runs]
    BY <1>8, InsertType DEF AppendUncheckpointed
  <2>2. "warn" \in Labels
    BY DEF Labels
  <2>3. pc' \in [Runs -> Labels] /\ \A x \in Runs : Placed(x)'
    BY <1>8, <2>2, StillAttempted, GotoType DEF AppendUncheckpointed, job
  <2> QED
    BY <1>8, <2>1, <2>3 DEF AppendUncheckpointed, TypeOK, Placed, job
<1>9. ASSUME NEW r \in Runs, Quarantine(r) PROVE TypeOK'
  <2>1. LineAt(r) \in Nat
    BY <1>9, LineIsNat DEF Quarantine
  <2>2. quarantined' \subseteq (Runs \X Nat)
    BY <1>9, <2>1 DEF Quarantine, TypeOK
  <2>3. rows' \in [Runs -> RowType]
    BY <1>9, CountedType DEF Quarantine
  <2>4. Advance(r, 0) /\ UNCHANGED attempt /\ pc[r] = "line"
    BY <1>9 DEF Quarantine
  <2>5. /\ pc' \in [Runs -> Labels]
        /\ at' \in [Runs -> [adapter : Nat, line : Nat]]
        /\ count' \in [Runs -> [total : Nat, adapter : Nat]]
        /\ \A x \in Runs : Placed(x)'
    BY <2>4, AdvanceType
  <2> QED
    BY <1>9, <2>2, <2>3, <2>5 DEF Quarantine, TypeOK
<1>10. ASSUME NEW r \in Runs, AdapterError(r) PROVE TypeOK'
  <2>1. "warn" \in Labels
    BY DEF Labels
  <2>2. pc' \in [Runs -> Labels] /\ \A x \in Runs : Placed(x)'
    BY <1>10, <2>1, StillAttempted, GotoType DEF AdapterError, job
  <2> QED
    BY <1>10, <2>2 DEF AdapterError, TypeOK, Placed, store, job
<1>11. ASSUME NEW r \in Runs, Warn(r) PROVE TypeOK'
  <2>1. warned' \subseteq (Runs \X Nat)
    BY <1>11 DEF Warn, TypeOK
  <2>2. rows' \in [Runs -> RowType]
    BY <1>11, CountedType DEF Warn
  <2>3. /\ pc' \in [Runs -> Labels]
        /\ at' \in [Runs -> [adapter : Nat, line : Nat]]
        /\ count' \in [Runs -> [total : Nat, adapter : Nat]]
        /\ \A x \in Runs : Placed(x)'
    BY <1>11, SkipType DEF Warn
  <2> QED
    BY <1>11, <2>1, <2>2, <2>3 DEF Warn, TypeOK
<1>12. ASSUME NEW r \in Runs, ReadStatus(r) PROVE TypeOK'
  <2>1. "finish" \in Labels
    BY DEF Labels
  <2>2. pc' \in [Runs -> Labels] /\ \A x \in Runs : Placed(x)'
    BY <1>12, <2>1, StillAttempted, GotoType DEF ReadStatus
  <2>3. verdict' \in [Runs -> Statuses]
    BY <1>12 DEF ReadStatus, TypeOK, Statuses
  <2> QED
    BY <1>12, <2>2, <2>3 DEF ReadStatus, TypeOK, Placed, store
<1>13. ASSUME NEW r \in Runs, FinishRun(r) PROVE TypeOK'
  <2>1. "rebuild" \in Labels
    BY DEF Labels
  <2>2. pc' \in [Runs -> Labels] /\ \A x \in Runs : Placed(x)'
    BY <1>13, <2>1, StillAttempted, GotoType DEF FinishRun, job
  <2>3. rows' \in [Runs -> RowType]
    BY <1>13 DEF FinishRun, TypeOK, RowType
  <2> QED
    BY <1>13, <2>2, <2>3 DEF FinishRun, TypeOK, Placed, job
<1>14. ASSUME NEW r \in Runs, Rebuild(r) PROVE TypeOK'
  <2>1. "confirm" \in Labels
    BY DEF Labels
  <2>2. pc' \in [Runs -> Labels] /\ \A x \in Runs : Placed(x)'
    BY <1>14, <2>1, StillAttempted, GotoType DEF Rebuild, job
  <2>3. indexed' \subseteq [line : Nat, seq : Nat]
    BY <1>14 DEF Rebuild, TypeOK, EventId
  <2> QED
    BY <1>14, <2>2, <2>3 DEF Rebuild, TypeOK, Placed, job
<1>15. ASSUME NEW r \in Runs, Confirm(r) PROVE TypeOK'
  <2>1. "ended" \in Labels
    BY DEF Labels
  <2>2. pc' \in [Runs -> Labels] /\ \A x \in Runs : Placed(x)'
    BY <1>15, <2>1, StillAttempted, GotoType DEF Confirm, job
  <2>3. rows[r].status \in Statuses \cup {"none", "warning"}
        /\ count[r].total \in Nat /\ attempt[r] \in 0 .. MaxAttempts
    BY DEF TypeOK, RowType
  <2>4. attempt[r] - 1 \in Nat
    BY <1>15, <2>3, StillAttempted, IngestRunAssumption DEF Confirm, job
  <2>5. report' \in [Runs -> ReportType \cup {NoReport}]
    BY <1>15, <2>3, <2>4, ReportIsTyped DEF Confirm
  <2> QED
    BY <1>15, <2>2, <2>5 DEF Confirm, TypeOK, Placed, store, job
<1>16. ASSUME NEW r \in Runs, Collide(r) PROVE TypeOK'
  BY <1>16, GiveUpType DEF Collide
<1>17. ASSUME NEW r \in Runs, Retry(r) PROVE TypeOK'
  <2>1. "start" \in Labels
    BY DEF Labels
  <2>2. attempt' = [attempt EXCEPT ![r] = attempt[r] + 1]
        /\ attempt[r] \in 0 .. MaxAttempts /\ attempt[r] < MaxAttempts
    BY <1>17 DEF Retry, TypeOK
  <2>3. attempt'[r] > 0 /\ \A x \in Runs \ {r} : attempt'[x] = attempt[x]
    BY <2>2, IngestRunAssumption DEF TypeOK
  <2>4. pc' \in [Runs -> Labels] /\ \A x \in Runs : Placed(x)'
    BY <1>17, <2>1, <2>3, GotoType DEF Retry
  <2>5. attempt' \in [Runs -> 0 .. MaxAttempts]
    BY <2>2, IngestRunAssumption DEF TypeOK
  <2> QED
    BY <1>17, <2>4, <2>5 DEF Retry, TypeOK, store
<1>18. ASSUME NEW r \in Runs, Exhaust(r) PROVE TypeOK'
  <2>1. attempt[r] - 1 \in Nat
    BY <1>18, IngestRunAssumption DEF Exhaust
  <2> QED
    BY <1>18, <2>1, GiveUpType DEF Exhaust, Outside
<1>19. ASSUME NEW r \in Runs, Break(r) PROVE TypeOK'
  BY <1>19, GiveUpType DEF Break, Outside
<1>20. ASSUME NEW r \in Runs, Kill(r) PROVE TypeOK'
  <2>1. "ended" \in Labels
    BY DEF Labels
  <2>2. pc' \in [Runs -> Labels] /\ \A x \in Runs : Placed(x)'
    BY <1>20, <2>1, StillAttempted, GotoType DEF Kill, job
  <2> QED
    BY <1>20, <2>2 DEF Kill, TypeOK, store, job
<1> QED
  BY <1>1, <1>2, <1>3, <1>4, <1>5, <1>6, <1>7, <1>8, <1>9, <1>10, <1>11,
     <1>12, <1>13, <1>14, <1>15, <1>16, <1>17, <1>18, <1>19, <1>20
     DEF Next, Step

----------------------------------------------------------------------------
(* The events of a run are numbered without gap.                           *)

\* The part of Numbered that speaks of the store alone.
Dense(r) ==
  /\ IsFiniteSet(EventsOf(r))
  /\ {e.seq : e \in EventsOf(r)} = 0 .. Cardinality(EventsOf(r)) - 1
  /\ \A d, e \in EventsOf(r) : d.seq = e.seq => d = e

\* Inserting the event a run is about to append keeps every run numbered.
LEMMA InsertDense ==
  ASSUME TypeOK, \A x \in Runs : Numbered(x), NEW r \in Runs,
         pc[r] = "append", events' = Insert(r)
  PROVE  \A x \in Runs : Dense(x)'
<1> DEFINE new == [line |-> LineAt(r), seq |-> seq[r], run |-> r]
<1>1. CASE events' = events
  BY <1>1 DEF Dense, Numbered, EventsOf
<1>2. CASE events' = events \cup {new}
  <2>1. ASSUME NEW x \in Runs, x # r PROVE Dense(x)'
    <3>1. EventsOf(x)' = EventsOf(x)
      BY <1>2, <2>1 DEF EventsOf
    <3> QED
      BY <3>1 DEF Dense, Numbered
  <2>2. Dense(r)'
    <3> DEFINE E == EventsOf(r)
               n == Cardinality(E)
    <3>1. EventsOf(r)' = E \cup {new}
      BY <1>2 DEF EventsOf
    <3>2. IsFiniteSet(E) /\ n \in Nat
      BY FS_CardinalityType DEF Numbered
    <3>3. seq[r] = n /\ {e.seq : e \in E} = 0 .. n - 1
      BY DEF Numbered
    <3>4. new.seq = n /\ \A e \in E : e.seq # n
      BY <3>2, <3>3
    <3>5. new \notin E
      BY <3>4
    <3>6. IsFiniteSet(E \cup {new}) /\ Cardinality(E \cup {new}) = n + 1
      BY <3>2, <3>5, FS_AddElement
    <3>7. {e.seq : e \in E \cup {new}} = (0 .. n - 1) \cup {n}
      BY <3>3, <3>4
    <3>8. (0 .. n - 1) \cup {n} = 0 .. (n + 1) - 1
      BY <3>2
    <3>9. \A d, e \in E \cup {new} : d.seq = e.seq => d = e
      BY <3>4 DEF Numbered
    <3> QED
      BY <3>1, <3>6, <3>7, <3>8, <3>9 DEF Dense
  <2> QED
    BY <2>1, <2>2
<1> QED
  BY <1>1, <1>2 DEF Insert

\* The initial store has no event.
LEMMA InitNumbered == Init => \A r \in Runs : Numbered(r)
<1> SUFFICES ASSUME Init, NEW r \in Runs PROVE Numbered(r)
  OBVIOUS
<1>1. EventsOf(r) = {} /\ pc[r] = "idle"
  BY DEF Init, EventsOf
<1>2. IsFiniteSet({}) /\ Cardinality({}) = 0 /\ 0 .. 0 - 1 = {}
  BY FS_EmptySet
<1> QED
  BY <1>1, <1>2 DEF Numbered

\* A run whose events and sequence number stay, and that does not come to the
\* label append, stays numbered.
LEMMA StillNumbered ==
  ASSUME NEW x \in Runs, Numbered(x), UNCHANGED events,
         pc'[x] = "append" => pc[x] = "append" /\ seq'[x] = seq[x]
  PROVE  Numbered(x)'
BY DEF Numbered, EventsOf

\* Every step keeps the runs numbered.
LEMMA NextNumbered ==
  TypeOK /\ (\A r \in Runs : Numbered(r)) /\ [Next]_vars
    => \A r \in Runs : Numbered(r)'
<1> SUFFICES ASSUME TypeOK, \A r \in Runs : Numbered(r), [Next]_vars
             PROVE  \A r \in Runs : Numbered(r)'
  OBVIOUS
<1>1. CASE UNCHANGED vars
  BY <1>1, StillNumbered DEF vars
<1>2. ASSUME NEW r \in Runs, Sequence(r) PROVE \A x \in Runs : Numbered(x)'
  <2>1. UNCHANGED events /\ pc' = [pc EXCEPT ![r] = "append"]
        /\ seq' = [seq EXCEPT ![r] = NextSequence(r)]
    BY <1>2 DEF Sequence, Goto, store
  <2>2. \A x \in Runs \ {r} : Numbered(x)'
    BY <2>1, StillNumbered DEF TypeOK
  <2>3. seq'[r] = Cardinality(EventsOf(r))
    BY <2>1, NextCounts DEF TypeOK
  <2>4. Numbered(r)'
    BY <2>1, <2>3 DEF Numbered, EventsOf
  <2> QED
    BY <2>2, <2>4
<1>3. ASSUME NEW r \in Runs, AppendEvent(r) \/ AppendUncheckpointed(r)
      PROVE  \A x \in Runs : Numbered(x)'
  <2>1. pc[r] = "append" /\ events' = Insert(r) /\ UNCHANGED seq
    BY <1>3 DEF AppendEvent, AppendUncheckpointed, job
  <2>2. \A x \in Runs : Dense(x)'
    BY <2>1, InsertDense
  <2>3. pc'[r] # "append" /\ \A x \in Runs \ {r} : pc'[x] = pc[x]
    BY <1>3 DEF AppendEvent, AppendUncheckpointed, Advance, Goto, TypeOK
  <2>4. \A x \in Runs \ {r} : EventsOf(x)' = EventsOf(x)
    BY <2>1 DEF Insert, EventsOf
  <2>5. \A x \in Runs \ {r} : Numbered(x)'
    BY <2>1, <2>3, <2>4 DEF Numbered
  <2>6. Numbered(r)'
    BY <2>2, <2>3 DEF Numbered, Dense
  <2> QED
    BY <2>5, <2>6
<1>4. ASSUME NEW r \in Runs, UNCHANGED <<events, seq>>,
             pc'[r] # "append", \A x \in Runs \ {r} : pc'[x] = pc[x]
      PROVE  \A x \in Runs : Numbered(x)'
  BY <1>4, StillNumbered
<1>5. ASSUME NEW r \in Runs, Begin(r) \/ StartRun(r) \/ PassStored(r)
               \/ FindNew(r) \/ Quarantine(r) \/ AdapterError(r)
      PROVE  \A x \in Runs : Numbered(x)'
  <2>1. UNCHANGED <<events, seq>>
    BY <1>5 DEF Begin, StartRun, PassStored, FindNew, Quarantine,
                AdapterError, store, job
  <2>2. pc'[r] # "append" /\ \A x \in Runs \ {r} : pc'[x] = pc[x]
    BY <1>5 DEF Begin, StartRun, PassStored, FindNew, Quarantine,
                AdapterError, Advance, Goto, TypeOK
  <2> QED
    BY <1>4, <2>1, <2>2
<1>6. ASSUME NEW r \in Runs, Warn(r) \/ ReadStatus(r) \/ FinishRun(r)
               \/ Rebuild(r) \/ Confirm(r) \/ Collide(r) \/ Retry(r)
               \/ Exhaust(r) \/ Break(r) \/ Kill(r)
      PROVE  \A x \in Runs : Numbered(x)'
  <2>1. UNCHANGED <<events, seq>>
    BY <1>6 DEF Warn, ReadStatus, FinishRun, Rebuild, Confirm, Collide, Retry,
                Exhaust, Break, Kill, GiveUp, store, job
  <2>2. pc'[r] # "append" /\ \A x \in Runs \ {r} : pc'[x] = pc[x]
    BY <1>6 DEF Warn, ReadStatus, FinishRun, Rebuild, Confirm, Collide, Retry,
                Exhaust, Break, Kill, GiveUp, SkipAdapter, Goto, TypeOK
  <2> QED
    BY <1>4, <2>1, <2>2
<1> QED
  BY <1>1, <1>2, <1>3, <1>5, <1>6 DEF Next, Step

\* TypeOK and Numbered are inductive together: the type of a sequence number
\* rests on the numbering, and the numbering on the types.
THEOREM TypedAndNumbered == Spec => [](TypeOK /\ \A r \in Runs : Numbered(r))
<1>1. Init => TypeOK /\ \A r \in Runs : Numbered(r)
  BY InitType, InitNumbered
<1>2. TypeOK /\ (\A r \in Runs : Numbered(r)) /\ [Next]_vars
        => (TypeOK /\ \A r \in Runs : Numbered(r))'
  BY NextType, NextNumbered
<1> QED
  BY <1>1, <1>2, PTL DEF Spec

\* The store and the runs keep their types, for any sources, any number of
\* runs and of attempts, and whether or not runs overlap.
THEOREM TypeCorrect == Spec => []TypeOK
BY TypedAndNumbered, PTL

\* The events of a run are numbered from 0 without gap or repetition over all
\* its attempts, with any other runs inserting at the same time
\* (next_observed_sequence and append_event are two transactions).
THEOREM NumbersAreDense == Spec => []SequencesDense
<1>1. (\A r \in Runs : Numbered(r)) => SequencesDense
  BY DEF Numbered, SequencesDense
<1> QED
  BY <1>1, TypedAndNumbered, PTL

----------------------------------------------------------------------------
(* No line is stored twice.                                                *)

Active(r) == pc[r] \notin {"idle", "ended"}

\* At most one run is active, the line it is about to append is not in the
\* store, and so far no line was stored twice.
OneWriter ==
  /\ \A r, x \in Runs : Active(r) /\ Active(x) => r = x
  /\ \A r \in Runs :
       pc[r] \in {"sequence", "append"} => ~HasEquivalent(LineAt(r))
  /\ StoredOnce

\* A step of the active run that leaves the store alone and does not lead to
\* an append keeps OneWriter.
LEMMA StillOneWriter ==
  ASSUME TypeOK, OneWriter, NEW r \in Runs, UNCHANGED events,
         \A x \in Runs \ {r} : pc'[x] = pc[x] /\ ~Active(x),
         pc'[r] \notin {"sequence", "append"}
  PROVE  OneWriter'
<1>1. \A x \in Runs \ {r} : ~Active(x)'
  BY DEF Active
<1>2. \A x \in Runs : pc'[x] \in {"sequence", "append"} => FALSE
  BY <1>1 DEF Active
<1>3. StoredOnce'
  BY DEF OneWriter, StoredOnce
<1> QED
  BY <1>1, <1>2, <1>3 DEF OneWriter

\* Every step keeps OneWriter if runs do not overlap.
LEMMA NextOneWriter ==
  ASSUME Exclusive = TRUE
  PROVE  TypeOK /\ OneWriter /\ [Next]_vars => OneWriter'
<1> SUFFICES ASSUME TypeOK, OneWriter, [Next]_vars PROVE OneWriter'
  OBVIOUS
<1>1. CASE UNCHANGED vars
  BY <1>1 DEF vars, OneWriter, Active, HasEquivalent, LineAt, StoredOnce
<1>2. ASSUME NEW r \in Runs, Active(r)
      PROVE  \A x \in Runs \ {r} : ~Active(x)
  BY <1>2 DEF OneWriter
<1>3. ASSUME NEW r \in Runs, Begin(r) PROVE OneWriter'
  <2>1. \A x \in Runs \ {r} : ~Active(x)
    BY <1>3 DEF Begin, Active
  <2>2. UNCHANGED events /\ pc'[r] = "start"
        /\ \A x \in Runs \ {r} : pc'[x] = pc[x]
    BY <1>3 DEF Begin, Goto, TypeOK, store
  <2> QED
    BY <2>1, <2>2, StillOneWriter
<1>4. ASSUME NEW r \in Runs, FindNew(r) PROVE OneWriter'
  <2>1. Active(r) /\ ~HasEquivalent(LineAt(r)) /\ UNCHANGED <<events, at>>
        /\ pc' = [pc EXCEPT ![r] = "sequence"]
    BY <1>4 DEF FindNew, Active, Goto, store, job
  <2>2. \A x \in Runs \ {r} : ~Active(x) /\ ~Active(x)'
    BY <1>2, <2>1 DEF Active, TypeOK
  <2>3. ~HasEquivalent(LineAt(r))'
    BY <2>1 DEF HasEquivalent, LineAt
  <2>4. StoredOnce'
    BY <2>1 DEF OneWriter, StoredOnce
  <2> QED
    BY <2>2, <2>3, <2>4 DEF OneWriter, Active
<1>5. ASSUME NEW r \in Runs, Sequence(r) PROVE OneWriter'
  <2>1. Active(r) /\ pc[r] = "sequence" /\ UNCHANGED <<events, at>>
        /\ pc' = [pc EXCEPT ![r] = "append"]
    BY <1>5 DEF Sequence, Active, Goto, store
  <2>2. \A x \in Runs \ {r} : ~Active(x) /\ ~Active(x)'
    BY <1>2, <2>1 DEF Active, TypeOK
  <2>3. ~HasEquivalent(LineAt(r))'
    BY <2>1 DEF HasEquivalent, LineAt, OneWriter
  <2>4. StoredOnce'
    BY <2>1 DEF OneWriter, StoredOnce
  <2> QED
    BY <2>2, <2>3, <2>4 DEF OneWriter, Active
<1>6. ASSUME NEW r \in Runs, AppendEvent(r) \/ AppendUncheckpointed(r)
      PROVE  OneWriter'
  <2>1. Active(r) /\ pc[r] = "append" /\ events' = Insert(r)
    BY <1>6 DEF AppendEvent, AppendUncheckpointed, Active
  <2>2. pc'[r] \notin {"sequence", "append"}
        /\ \A x \in Runs \ {r} : pc'[x] = pc[x]
    BY <1>6 DEF AppendEvent, AppendUncheckpointed, Advance, Goto, TypeOK
  <2>3. \A x \in Runs \ {r} : ~Active(x) /\ ~Active(x)'
    BY <1>2, <2>1, <2>2 DEF Active
  <2>4. \A e \in events : e.line # LineAt(r)
    BY <2>1 DEF OneWriter, HasEquivalent
  <2>5. StoredOnce'
    BY <2>1, <2>4 DEF OneWriter, StoredOnce, Insert
  <2> QED
    BY <2>2, <2>3, <2>5 DEF OneWriter, Active
<1>7. ASSUME NEW r \in Runs, StartRun(r) \/ PassStored(r) \/ Quarantine(r)
               \/ AdapterError(r) \/ Warn(r)
      PROVE  OneWriter'
  <2>1. Active(r) /\ UNCHANGED events
    BY <1>7 DEF StartRun, PassStored, Quarantine, AdapterError, Warn, Active,
                store
  <2>2. pc'[r] \notin {"sequence", "append"}
        /\ \A x \in Runs \ {r} : pc'[x] = pc[x]
    BY <1>7 DEF StartRun, PassStored, Quarantine, AdapterError, Warn, Advance,
                SkipAdapter, Goto, TypeOK
  <2> QED
    BY <1>2, <2>1, <2>2, StillOneWriter
<1>8. ASSUME NEW r \in Runs, ReadStatus(r) \/ FinishRun(r) \/ Rebuild(r)
               \/ Confirm(r) \/ Collide(r) \/ Retry(r) \/ Exhaust(r)
               \/ Break(r) \/ Kill(r)
      PROVE  OneWriter'
  <2>1. Active(r) /\ UNCHANGED events
    BY <1>8 DEF ReadStatus, FinishRun, Rebuild, Confirm, Collide, Retry,
                Exhaust, Break, Kill, GiveUp, Outside, Active, store
  <2>2. pc'[r] \notin {"sequence", "append"}
        /\ \A x \in Runs \ {r} : pc'[x] = pc[x]
    BY <1>8 DEF ReadStatus, FinishRun, Rebuild, Confirm, Collide, Retry,
                Exhaust, Break, Kill, GiveUp, Goto, TypeOK
  <2> QED
    BY <1>2, <2>1, <2>2, StillOneWriter
<1> QED
  BY <1>1, <1>3, <1>4, <1>5, <1>6, <1>7, <1>8 DEF Next, Step

\* Where runs do not overlap, no source line is ever stored twice, however
\* often runs are killed or tried again: has_equivalent_event and append_event
\* are two transactions, but nothing comes between them.
THEOREM LinesStoredOnce ==
  ASSUME Exclusive = TRUE
  PROVE  Spec => []StoredOnce
<1>1. Init => OneWriter
  BY DEF Init, OneWriter, Active, StoredOnce
<1>2. TypeOK /\ OneWriter /\ [Next]_vars => OneWriter'
  BY NextOneWriter
<1>3. OneWriter => StoredOnce
  BY DEF OneWriter
<1> QED
  BY <1>1, <1>2, <1>3, TypeCorrect, PTL DEF Spec

----------------------------------------------------------------------------
(***************************************************************************)
(* Warnings: they are counted, and a run without any leaves nothing out.   *)
(***************************************************************************)

\* The entries of run r in a table of warnings.
OfRun(S, r) == {w \in S : w[1] = r}

\* The tables are finite, and warning_count counts both.
Counted == IsFiniteSet(warned) /\ IsFiniteSet(quarantined) /\ WarningsCounted

\* An entry is one more of its run, unless it is there.
LEMMA OneMore ==
  ASSUME NEW S, S \subseteq Runs \X Nat, IsFiniteSet(S), NEW r \in Runs, NEW n \in Nat
  PROVE  /\ IsFiniteSet(S \cup {<<r, n>>})
         /\ \A x \in Runs : Cardinality(OfRun(S, x)) \in Nat
         /\ \A x \in Runs \ {r} : OfRun(S \cup {<<r, n>>}, x) = OfRun(S, x)
         /\ Cardinality(OfRun(S \cup {<<r, n>>}, r)) > 0
         /\ <<r, n>> \notin S =>
              Cardinality(OfRun(S \cup {<<r, n>>}, r)) = Cardinality(OfRun(S, r)) + 1
<1>1. IsFiniteSet(S \cup {<<r, n>>})
  BY FS_AddElement
<1>2. \A x \in Runs : IsFiniteSet(OfRun(S, x))
  BY FS_Subset DEF OfRun
<1>3. \A x \in Runs : Cardinality(OfRun(S, x)) \in Nat
  BY <1>2, FS_CardinalityType
<1>4. \A x \in Runs \ {r} : OfRun(S \cup {<<r, n>>}, x) = OfRun(S, x)
  BY DEF OfRun
<1>5. OfRun(S \cup {<<r, n>>}, r) = OfRun(S, r) \cup {<<r, n>>}
  BY DEF OfRun
<1>6. IsFiniteSet(OfRun(S \cup {<<r, n>>}, r)) /\ OfRun(S \cup {<<r, n>>}, r) # {}
  BY <1>1, <1>5, FS_Subset DEF OfRun
<1>7. Cardinality(OfRun(S \cup {<<r, n>>}, r)) > 0
  <2>1. Cardinality(OfRun(S \cup {<<r, n>>}, r)) \in Nat
    BY <1>6, FS_CardinalityType
  <2>2. Cardinality(OfRun(S \cup {<<r, n>>}, r)) # 0
    BY <1>6, FS_EmptySet
  <2>. QED
    BY <2>1, <2>2
<1>8. ASSUME <<r, n>> \notin S
      PROVE  Cardinality(OfRun(S \cup {<<r, n>>}, r)) = Cardinality(OfRun(S, r)) + 1
  <2>1. <<r, n>> \notin OfRun(S, r)
    BY <1>8 DEF OfRun
  <2>. QED
    BY <1>2, <1>5, <2>1, FS_AddElement
<1>. QED
  BY <1>1, <1>3, <1>4, <1>7, <1>8

\* In the rows f, warning_count is the number of the entries in S and T.
Tally(f, S, T) ==
  \A x \in Runs : f[x].warnings = Cardinality(OfRun(S, x)) + Cardinality(OfRun(T, x))

\* The rows g are f, but one warning more for run r if U is more than S.
Tallied(f, g, r, S, U) ==
  g = IF U = S THEN f ELSE [f EXCEPT ![r].warnings = @ + 1]

\* A run r records one more warning, in the table S, which counts if it is
\* new: its warning_count is still the number of its entries in S and T.
LEMMA OneMoreCounted ==
  ASSUME NEW S, S \in SUBSET (Runs \X Nat), IsFiniteSet(S),
         NEW T, T \in SUBSET (Runs \X Nat), IsFiniteSet(T),
         NEW f \in [Runs -> RowType], Tally(f, S, T), NEW g,
         NEW r \in Runs, NEW n \in Nat, Tallied(f, g, r, S, S \cup {<<r, n>>})
  PROVE  /\ IsFiniteSet(S \cup {<<r, n>>})
         /\ Tally(g, S \cup {<<r, n>>}, T)
<1>1. /\ IsFiniteSet(S \cup {<<r, n>>})
      /\ \A x \in Runs : Cardinality(OfRun(S, x)) \in Nat
      /\ \A x \in Runs \ {r} : OfRun(S \cup {<<r, n>>}, x) = OfRun(S, x)
      /\ Cardinality(OfRun(S \cup {<<r, n>>}, r)) > 0
      /\ <<r, n>> \notin S =>
           Cardinality(OfRun(S \cup {<<r, n>>}, r)) = Cardinality(OfRun(S, r)) + 1
  BY OneMore
<1>2. \A x \in Runs : Cardinality(OfRun(T, x)) \in Nat
  BY OneMore
<1>3. f[r] \in RowType /\ f[r].warnings \in Nat
  BY DEF RowType
<1>4. f[r].warnings = Cardinality(OfRun(S, r)) + Cardinality(OfRun(T, r))
  BY DEF Tally
<1>5. /\ Cardinality(OfRun(S, r)) \in Nat
      /\ Cardinality(OfRun(T, r)) \in Nat
  BY <1>1, <1>2
<1>6. CASE <<r, n>> \in S
  <2>1. S \cup {<<r, n>>} = S
    BY <1>6
  <2>2. g = f
    BY <2>1 DEF Tallied
  <2>. QED
    BY <1>1, <2>1, <2>2
<1>7. CASE <<r, n>> \notin S
  <2>1. S \cup {<<r, n>>} # S
    BY <1>7
  <2>2. g = [f EXCEPT ![r].warnings = @ + 1]
    BY <2>1 DEF Tallied
  <2>3. /\ g[r].warnings = f[r].warnings + 1
        /\ \A x \in Runs : x # r => g[x] = f[x]
    BY <1>3, <2>2 DEF RowType
  <2>4. g[r].warnings =
          Cardinality(OfRun(S \cup {<<r, n>>}, r)) + Cardinality(OfRun(T, r))
    BY <1>1, <1>4, <1>5, <1>7, <2>3
  <2>5. ASSUME NEW x \in Runs
        PROVE  g[x].warnings =
                 Cardinality(OfRun(S \cup {<<r, n>>}, x)) + Cardinality(OfRun(T, x))
    <3>1. CASE x = r
      BY <3>1, <2>4
    <3>2. CASE x # r
      BY <1>1, <3>2, <2>3 DEF Tally
    <3>. QED
      BY <3>1, <3>2
  <2>6. Tally(g, S \cup {<<r, n>>}, T)
    BY <2>5 DEF Tally
  <2>. QED
    BY <1>1, <2>6
<1>. QED
  BY <1>6, <1>7

\* A run with an entry in a table has a warning.
LEMMA TallyPositive ==
  ASSUME NEW S, S \in SUBSET (Runs \X Nat), IsFiniteSet(S),
         NEW T, T \in SUBSET (Runs \X Nat), IsFiniteSet(T),
         NEW g, NEW r \in Runs, NEW n \in Nat, Tally(g, S \cup {<<r, n>>}, T)
  PROVE  g[r].warnings > 0
<1>1. /\ IsFiniteSet(S \cup {<<r, n>>})
      /\ Cardinality(OfRun(S \cup {<<r, n>>}, r)) > 0
  BY OneMore
<1>2. Cardinality(OfRun(S \cup {<<r, n>>}, r)) \in Nat
  <2>1. IsFiniteSet(OfRun(S \cup {<<r, n>>}, r))
    BY <1>1, FS_Subset DEF OfRun
  <2>. QED
    BY <2>1, FS_CardinalityType
<1>3. Cardinality(OfRun(T, r)) \in Nat
  <2>1. IsFiniteSet(OfRun(T, r))
    BY FS_Subset DEF OfRun
  <2>. QED
    BY <2>1, FS_CardinalityType
<1>4. g[r].warnings = Cardinality(OfRun(S \cup {<<r, n>>}, r)) + Cardinality(OfRun(T, r))
  BY DEF Tally
<1>. QED
  BY <1>1, <1>2, <1>3, <1>4

\* Nothing else changes in the rows.
LEMMA TalliedRows ==
  ASSUME NEW f \in [Runs -> RowType], NEW r \in Runs, NEW S, NEW U, NEW g,
         Tallied(f, g, r, S, U)
  PROVE  /\ g[r].status = f[r].status
         /\ \A x \in Runs : x # r => g[x] = f[x]
<1>1. CASE U = S
  BY <1>1 DEF Tallied
<1>2. CASE U # S
  BY <1>2 DEF Tallied, RowType
<1>. QED
  BY <1>1, <1>2

\* warning_count is as WarningsCounted says, before and after a step.
LEMMA CountedOfRun ==
  /\ WarningsCounted <=> Tally(rows, warned, quarantined)
  /\ WarningsCounted' <=> Tally(rows', warned', quarantined')
BY DEF WarningsCounted, OfRun, Tally

\* The two tables of warnings may be added in either order.
LEMMA TallyEitherWay ==
  ASSUME NEW S, S \in SUBSET (Runs \X Nat), IsFiniteSet(S),
         NEW T, T \in SUBSET (Runs \X Nat), IsFiniteSet(T),
         NEW f, Tally(f, S, T)
  PROVE  Tally(f, T, S)
<1>1. \A x \in Runs : Cardinality(OfRun(S, x)) \in Nat
  <2>1. S \subseteq Runs \X Nat
    OBVIOUS
  <2>2. \A x \in Runs : IsFiniteSet(OfRun(S, x))
    BY FS_Subset DEF OfRun
  <2>. QED
    BY <2>2, FS_CardinalityType
<1>2. \A x \in Runs : Cardinality(OfRun(T, x)) \in Nat
  <2>1. \A x \in Runs : IsFiniteSet(OfRun(T, x))
    BY FS_Subset DEF OfRun
  <2>. QED
    BY <2>1, FS_CardinalityType
<1>. QED
  BY <1>1, <1>2 DEF Tally

\* The warning of an adapter that raised.
LEMMA WarnCounts ==
  ASSUME TypeOK, Counted, NEW r \in Runs, NEW n \in Nat,
         warned' = warned \cup {<<r, n>>}, UNCHANGED quarantined,
         rows' = IF warned' = warned THEN rows
                 ELSE [rows EXCEPT ![r].warnings = @ + 1]
  PROVE  /\ Counted'
         /\ rows'[r].warnings > 0
         /\ rows'[r].status = rows[r].status
         /\ \A x \in Runs : x # r => rows'[x] = rows[x]
<1>1. /\ warned \in SUBSET (Runs \X Nat)
      /\ quarantined \in SUBSET (Runs \X Nat)
      /\ rows \in [Runs -> RowType]
  BY DEF TypeOK
<1>2. /\ IsFiniteSet(warned)
      /\ IsFiniteSet(quarantined)
      /\ Tally(rows, warned, quarantined)
  BY CountedOfRun DEF Counted
<1>3. Tallied(rows, rows', r, warned, warned \cup {<<r, n>>})
  BY DEF Tallied
<1>4. /\ IsFiniteSet(warned \cup {<<r, n>>})
      /\ Tally(rows', warned \cup {<<r, n>>}, quarantined)
      /\ rows'[r].warnings > 0
      /\ rows'[r].status = rows[r].status
      /\ \A x \in Runs : x # r => rows'[x] = rows[x]
  <2>1. /\ IsFiniteSet(warned \cup {<<r, n>>})
        /\ Tally(rows', warned \cup {<<r, n>>}, quarantined)
    BY <1>1, <1>2, <1>3, OneMoreCounted
  <2>2. rows'[r].warnings > 0
    BY <1>1, <1>2, <2>1, TallyPositive
  <2>3. /\ rows'[r].status = rows[r].status
        /\ \A x \in Runs : x # r => rows'[x] = rows[x]
    BY <1>1, <1>3, TalliedRows
  <2>. QED
    BY <2>1, <2>2, <2>3
<1>5. Tally(rows', warned', quarantined')
  BY <1>4
<1>6. WarningsCounted'
  BY <1>5, CountedOfRun
<1>7. IsFiniteSet(warned') /\ IsFiniteSet(quarantined')
  BY <1>2, <1>4
<1>8. Counted'
  BY <1>6, <1>7 DEF Counted
<1>. QED
  BY <1>4, <1>8

\* A quarantined line.
LEMMA QuarantineCounts ==
  ASSUME TypeOK, Counted, NEW r \in Runs, NEW n \in Nat,
         quarantined' = quarantined \cup {<<r, n>>}, UNCHANGED warned,
         rows' = IF quarantined' = quarantined THEN rows
                 ELSE [rows EXCEPT ![r].warnings = @ + 1]
  PROVE  /\ Counted'
         /\ rows'[r].warnings > 0
         /\ rows'[r].status = rows[r].status
         /\ \A x \in Runs : x # r => rows'[x] = rows[x]
<1>1. /\ warned \in SUBSET (Runs \X Nat)
      /\ quarantined \in SUBSET (Runs \X Nat)
      /\ rows \in [Runs -> RowType]
  BY DEF TypeOK
<1>2. /\ IsFiniteSet(warned)
      /\ IsFiniteSet(quarantined)
      /\ Tally(rows, warned, quarantined)
  BY CountedOfRun DEF Counted
<1>3. Tally(rows, quarantined, warned)
  BY <1>1, <1>2, TallyEitherWay
<1>4. Tallied(rows, rows', r, quarantined, quarantined \cup {<<r, n>>})
  BY DEF Tallied
<1>5. /\ IsFiniteSet(quarantined \cup {<<r, n>>})
      /\ Tally(rows', quarantined \cup {<<r, n>>}, warned)
      /\ rows'[r].warnings > 0
      /\ rows'[r].status = rows[r].status
      /\ \A x \in Runs : x # r => rows'[x] = rows[x]
  <2>1. /\ IsFiniteSet(quarantined \cup {<<r, n>>})
        /\ Tally(rows', quarantined \cup {<<r, n>>}, warned)
    BY <1>1, <1>2, <1>3, <1>4, OneMoreCounted
  <2>2. rows'[r].warnings > 0
    BY <1>1, <1>2, <2>1, TallyPositive
  <2>3. /\ rows'[r].status = rows[r].status
        /\ \A x \in Runs : x # r => rows'[x] = rows[x]
    BY <1>1, <1>4, TalliedRows
  <2>. QED
    BY <2>1, <2>2, <2>3
<1>6. quarantined \cup {<<r, n>>} \in SUBSET (Runs \X Nat)
  BY <1>1
<1>7. Tally(rows', warned, quarantined \cup {<<r, n>>})
  BY <1>1, <1>2, <1>5, <1>6, TallyEitherWay
<1>8. Tally(rows', warned', quarantined')
  BY <1>7
<1>9. WarningsCounted'
  BY <1>8, CountedOfRun
<1>10. IsFiniteSet(warned') /\ IsFiniteSet(quarantined')
  BY <1>2, <1>5
<1>11. Counted'
  BY <1>9, <1>10 DEF Counted
<1>. QED
  BY <1>5, <1>11

\* A step that touches no table of warnings, and no warning_count.
LEMMA StillCounted ==
  ASSUME Counted, UNCHANGED <<warned, quarantined>>,
         \A x \in Runs : rows'[x].warnings = rows[x].warnings
  PROVE  Counted'
<1>1. Tally(rows, warned, quarantined)
  BY CountedOfRun DEF Counted
<1>2. Tally(rows', warned', quarantined')
  BY <1>1 DEF Tally
<1>3. WarningsCounted'
  BY <1>2, CountedOfRun
<1>4. IsFiniteSet(warned') /\ IsFiniteSet(quarantined')
  BY DEF Counted
<1>. QED
  BY <1>3, <1>4 DEF Counted

\* At first no run has a warning.
LEMMA InitCounted == Init => Counted
<1> SUFFICES ASSUME Init PROVE Counted
  OBVIOUS
<1>1. IsFiniteSet(warned) /\ IsFiniteSet(quarantined)
  BY FS_EmptySet DEF Init
<1>2. \A x \in Runs : OfRun(warned, x) = {} /\ OfRun(quarantined, x) = {}
  BY DEF Init, OfRun
<1>3. \A x \in Runs : rows[x].warnings = 0
  BY DEF Init, NoRow
<1>4. Cardinality({}) = 0
  BY FS_EmptySet
<1>5. Tally(rows, warned, quarantined)
  BY <1>2, <1>3, <1>4 DEF Tally
<1>. QED
  BY <1>1, <1>5, CountedOfRun DEF Counted

\* The row a run finds when it starts has no warnings, and none is added.
LEMMA StartRows ==
  ASSUME TypeOK, NEW r \in Runs, StartRun(r)
  PROVE  /\ rows[r].warnings = 0 /\ rows'[r].warnings = 0
         /\ rows[r].status # "completed" /\ rows'[r].status = "started"
         /\ \A x \in Runs \ {r} : rows'[x] = rows[x]
<1>1. rows' = [rows EXCEPT ![r] = FreshRow] /\ rows[r] \in {NoRow, FreshRow}
  BY DEF StartRun
<1>2. rows'[r] = FreshRow /\ \A x \in Runs \ {r} : rows'[x] = rows[x]
  BY <1>1 DEF TypeOK
<1>. QED
  BY <1>1, <1>2 DEF NoRow, FreshRow

\* Finishing a run changes its status and nothing else in the rows.
LEMMA FinishRows ==
  ASSUME TypeOK, NEW r \in Runs, FinishRun(r)
  PROVE  /\ rows'[r].status = verdict[r]
         /\ rows'[r].warnings = rows[r].warnings
         /\ \A x \in Runs \ {r} : rows'[x] = rows[x]
<1>1. rows' = [rows EXCEPT ![r].status = verdict[r]]
  BY DEF FinishRun
<1>. QED
  BY <1>1 DEF TypeOK, RowType

\* Every step keeps the count.
LEMMA NextCounted == TypeOK /\ Counted /\ [Next]_vars => Counted'
<1> SUFFICES ASSUME TypeOK, Counted, [Next]_vars PROVE Counted'
  OBVIOUS
<1>1. CASE UNCHANGED vars
  <2>1. UNCHANGED <<warned, quarantined>> /\ UNCHANGED rows
    BY <1>1 DEF vars
  <2>. QED
    BY <2>1, StillCounted
<1>2. ASSUME NEW r \in Runs, StartRun(r) PROVE Counted'
  <2>1. UNCHANGED <<warned, quarantined>>
    BY <1>2 DEF StartRun
  <2>2. \A x \in Runs : rows'[x].warnings = rows[x].warnings
    BY <1>2, StartRows
  <2>. QED
    BY <2>1, <2>2, StillCounted
<1>3. ASSUME NEW r \in Runs, FinishRun(r) PROVE Counted'
  <2>1. UNCHANGED <<warned, quarantined>>
    BY <1>3 DEF FinishRun
  <2>2. \A x \in Runs : rows'[x].warnings = rows[x].warnings
    BY <1>3, FinishRows
  <2>. QED
    BY <2>1, <2>2, StillCounted
<1>4. ASSUME NEW r \in Runs, Warn(r) PROVE Counted'
  <2>1. at[r].adapter \in Nat
    BY DEF TypeOK
  <2>2. /\ warned' = warned \cup {<<r, at[r].adapter>>} /\ UNCHANGED quarantined
        /\ rows' = IF warned' = warned THEN rows
                   ELSE [rows EXCEPT ![r].warnings = @ + 1]
    BY <1>4 DEF Warn
  <2>. QED
    BY <2>1, <2>2, WarnCounts
<1>5. ASSUME NEW r \in Runs, Quarantine(r) PROVE Counted'
  <2>1. LineAt(r) \in Nat
    BY <1>5, LineIsNat DEF Quarantine
  <2>2. /\ quarantined' = quarantined \cup {<<r, LineAt(r)>>} /\ UNCHANGED warned
        /\ rows' = IF quarantined' = quarantined THEN rows
                   ELSE [rows EXCEPT ![r].warnings = @ + 1]
    BY <1>5 DEF Quarantine
  <2>. QED
    BY <2>1, <2>2, QuarantineCounts
<1>6. ASSUME NEW r \in Runs,
             Begin(r) \/ PassStored(r) \/ FindNew(r) \/ Sequence(r)
               \/ AppendEvent(r) \/ AppendUncheckpointed(r) \/ AdapterError(r)
               \/ ReadStatus(r) \/ Rebuild(r) \/ Confirm(r) \/ Collide(r)
               \/ Retry(r) \/ Exhaust(r) \/ Break(r) \/ Kill(r)
      PROVE  Counted'
  <2>1. UNCHANGED <<warned, quarantined>> /\ UNCHANGED rows
    BY <1>6 DEF Begin, PassStored, FindNew, Sequence, AppendEvent,
                AppendUncheckpointed, AdapterError, ReadStatus, Rebuild, Confirm,
                Collide, Retry, Exhaust, Break, Kill, GiveUp, store
  <2>. QED
    BY <2>1, StillCounted
<1>. QED
  BY <1>1, <1>2, <1>3, <1>4, <1>5, <1>6 DEF Next, Step

\* warning_count is the number of the entries of the run in the tables of
\* warnings and of quarantined lines, over all the attempts of the run:
\* record_warning and record_quarantine add to it in the transaction that
\* inserts the entry, and only if they do insert it.
THEOREM CountIsRight == Spec => []WarningsCounted
<1>1. Counted => WarningsCounted
  BY DEF Counted
<1> QED
  BY <1>1, InitCounted, NextCounted, TypeCorrect, PTL DEF Spec

----------------------------------------------------------------------------
(* A run without warnings leaves nothing out.                              *)

\* The store has every line before the one run r is at.
DoneBefore(r) ==
  \A a \in Adapters : \A k \in 1 .. Len(Sources[a]) :
    (a < at[r].adapter \/ (a = at[r].adapter /\ k < at[r].line)) =>
      HasEquivalent(Sources[a][k])

\* The store has every line.
Complete == \A a \in Adapters : \A k \in 1 .. Len(Sources[a]) :
              HasEquivalent(Sources[a][k])

\* What a run without warnings has stored: all it has passed, and everything
\* when it reads its status; so the status it records is a true one.
CleanSoFar(r) ==
  /\ rows[r].warnings = 0 /\ pc[r] \in {"line", "sequence", "append"} =>
       DoneBefore(r)
  /\ rows[r].warnings = 0 /\ pc[r] = "status" => Complete
  /\ pc[r] = "finish" /\ verdict[r] = "completed" => Complete
  /\ rows[r].status = "completed" => Complete

\* What is stored stays stored.
LEMMA StillStored ==
  ASSUME events \subseteq events'
  PROVE  /\ \A l : HasEquivalent(l) => HasEquivalent(l)'
         /\ Complete => Complete'
<1>1. \A l : HasEquivalent(l) => HasEquivalent(l)'
  BY DEF HasEquivalent
<1>. QED
  BY <1>1 DEF Complete

\* After its insert the line of a run is stored.
LEMMA InsertStores ==
  ASSUME TypeOK, NEW r \in Runs, pc[r] = "append", events' = Insert(r)
  PROVE  events \subseteq events' /\ \E x \in events' : x.line = LineAt(r)
<1> DEFINE e == [line |-> LineAt(r), seq |-> seq[r], run |-> r]
<1>1. CASE \E x \in events : EventId(x) = EventId(e)
  BY <1>1 DEF Insert, EventId
<1>2. CASE ~ \E x \in events : EventId(x) = EventId(e)
  <2>1. events' = events \cup {e}
    BY <1>2 DEF Insert
  <2>2. e \in events' /\ e.line = LineAt(r)
    BY <2>1
  <2>. QED
    BY <2>1, <2>2
<1>. QED
  BY <1>1, <1>2

\* Going on after a line that is stored keeps everything before it stored;
\* after the last line of the last adapter that is everything.
LEMMA AdvanceDone ==
  ASSUME TypeOK, NEW r \in Runs, NEW new, pc[r] \in {"line", "append"},
         Advance(r, new), DoneBefore(r), events \subseteq events',
         \E e \in events' : e.line = LineAt(r)
  PROVE  \/ pc'[r] = "line" /\ DoneBefore(r)'
         \/ pc'[r] = "status" /\ Complete'
<1> DEFINE a == at[r].adapter
           k == at[r].line
<1>1. a \in Adapters /\ a \in Nat /\ a <= Len(Sources)
      /\ k \in 1 .. Len(Sources[a]) /\ k \in Nat
      /\ Len(Sources[a]) \in Nat /\ Len(Sources) \in Nat
  BY LinesAreNat DEF TypeOK, Placed, Adapters
<1>2. ASSUME NEW b \in Adapters, NEW j \in 1 .. Len(Sources[b]),
             b < a \/ (b = a /\ j <= k)
      PROVE  \E e \in events' : e.line = Sources[b][j]
  <2>1. b \in Nat /\ Len(Sources[b]) \in Nat /\ j \in Nat
    BY LinesAreNat DEF Adapters
  <2>2. CASE b = a /\ j = k
    BY <2>2 DEF LineAt
  <2>3. CASE ~(b = a /\ j = k)
    <3>1. b < a \/ (b = a /\ j < k)
      BY <1>1, <1>2, <2>1, <2>3
    <3>2. HasEquivalent(Sources[b][j])
      BY <3>1 DEF DoneBefore
    <3>. QED
      BY <3>2 DEF HasEquivalent
  <2>. QED
    BY <2>2, <2>3
<1>3. CASE k < Len(Sources[a])
  <2>1. at' = [at EXCEPT ![r].line = @ + 1] /\ pc' = [pc EXCEPT ![r] = "line"]
    BY <1>3 DEF Advance, Goto
  <2>2. at'[r].adapter = a /\ at'[r].line = k + 1 /\ pc'[r] = "line"
    BY <2>1 DEF TypeOK
  <2>3. ASSUME NEW b \in Adapters, NEW j \in 1 .. Len(Sources[b]),
               b < at'[r].adapter \/ (b = at'[r].adapter /\ j < at'[r].line)
        PROVE  \E e \in events' : e.line = Sources[b][j]
    <3>1. j \in Nat
      BY LinesAreNat
    <3>2. b < a \/ (b = a /\ j <= k)
      BY <1>1, <2>2, <2>3, <3>1
    <3>. QED
      BY <1>2, <3>2
  <2>4. DoneBefore(r)'
    BY <2>3 DEF DoneBefore, HasEquivalent
  <2>. QED
    BY <2>2, <2>4
<1>4. CASE ~(k < Len(Sources[a]))
  <2>1. at' = [at EXCEPT ![r] = [adapter |-> a + 1, line |-> 1]]
        /\ pc' = [pc EXCEPT ![r] = IF a < Len(Sources) THEN "line" ELSE "status"]
    BY <1>4 DEF Advance, Goto
  <2>2. at'[r].adapter = a + 1 /\ at'[r].line = 1
        /\ pc'[r] = IF a < Len(Sources) THEN "line" ELSE "status"
    BY <2>1 DEF TypeOK
  <2>3. k = Len(Sources[a])
    BY <1>1, <1>4
  <2>4. ASSUME NEW b \in Adapters, NEW j \in 1 .. Len(Sources[b]), b <= a
        PROVE  \E e \in events' : e.line = Sources[b][j]
    <3>1. b \in Nat /\ j \in Nat /\ Len(Sources[b]) \in Nat
      BY LinesAreNat DEF Adapters
    <3>2. b < a \/ b = a
      BY <1>1, <2>4, <3>1
    <3>3. b = a => j <= k
      BY <2>3, <3>1
    <3>. QED
      BY <1>2, <3>2, <3>3
  <2>5. CASE a < Len(Sources)
    <3>1. ASSUME NEW b \in Adapters, NEW j \in 1 .. Len(Sources[b]),
                 b < at'[r].adapter \/ (b = at'[r].adapter /\ j < at'[r].line)
          PROVE  \E e \in events' : e.line = Sources[b][j]
      <4>1. b \in Nat /\ j \in Nat /\ j >= 1
        BY LinesAreNat DEF Adapters
      <4>2. b <= a
        BY <1>1, <2>2, <3>1, <4>1
      <4>. QED
        BY <2>4, <4>2
    <3>2. DoneBefore(r)'
      BY <3>1 DEF DoneBefore, HasEquivalent
    <3>. QED
      BY <2>2, <2>5, <3>2
  <2>6. CASE ~(a < Len(Sources))
    <3>1. ASSUME NEW b \in Adapters, NEW j \in 1 .. Len(Sources[b])
          PROVE  \E e \in events' : e.line = Sources[b][j]
      <4>1. b \in Nat /\ b <= Len(Sources)
        BY <1>1 DEF Adapters
      <4>2. b <= a
        BY <1>1, <2>6, <4>1
      <4>. QED
        BY <2>4, <4>2
    <3>2. Complete'
      BY <3>1 DEF Complete, HasEquivalent
    <3>. QED
      BY <2>2, <2>6, <3>2
  <2>. QED
    BY <2>5, <2>6
<1>. QED
  BY <1>3, <1>4

\* A run that a step leaves where it is stays clean.
LEMMA StillClean ==
  ASSUME NEW r, CleanSoFar(r), events \subseteq events',
         rows'[r] = rows[r], pc'[r] = pc[r], at'[r] = at[r], verdict'[r] = verdict[r]
  PROVE  CleanSoFar(r)'
<1>1. DoneBefore(r) => DoneBefore(r)'
  BY StillStored DEF DoneBefore
<1>2. Complete => Complete'
  BY StillStored
<1>. QED
  BY <1>1, <1>2 DEF CleanSoFar

\* So does one that is somewhere it has nothing to show.
LEMMA AwayClean ==
  ASSUME NEW r, CleanSoFar(r), events \subseteq events', rows'[r] = rows[r],
         pc'[r] \notin {"line", "sequence", "append", "status", "finish"}
  PROVE  CleanSoFar(r)'
<1>1. Complete => Complete'
  BY StillStored
<1>. QED
  BY <1>1 DEF CleanSoFar

\* What a step of r leaves alone of the other runs.
LEMMA OthersStay ==
  ASSUME TypeOK, NEW r \in Runs, Begin(r) \/ Step(r) \/ Kill(r)
  PROVE  \A x \in Runs \ {r} :
           /\ pc'[x] = pc[x] /\ at'[x] = at[x] /\ verdict'[x] = verdict[x]
           /\ rows'[x] = rows[x] /\ report'[x] = report[x]
<1> SUFFICES ASSUME NEW x \in Runs \ {r}
             PROVE  /\ pc'[x] = pc[x] /\ at'[x] = at[x] /\ verdict'[x] = verdict[x]
                    /\ rows'[x] = rows[x] /\ report'[x] = report[x]
  OBVIOUS
<1> USE DEF TypeOK
<1>1. CASE Begin(r) \/ Kill(r) \/ Retry(r)
  BY <1>1 DEF Begin, Kill, Retry, Goto, store, job
<1>2. CASE StartRun(r)
  BY <1>2 DEF StartRun, Goto
<1>3. CASE PassStored(r)
  <2>1. UNCHANGED <<rows, verdict, report>> /\ Advance(r, 0)
    BY <1>3 DEF PassStored, store
  <2>. QED
    BY <2>1 DEF Advance, Goto
<1>4. CASE FindNew(r) \/ Sequence(r)
  BY <1>4 DEF FindNew, Sequence, Goto, store, job
<1>5. CASE AppendEvent(r)
  <2>1. UNCHANGED <<rows, verdict, report>>
        /\ \E new \in {0, 1} : Advance(r, new)
    BY <1>5 DEF AppendEvent
  <2>. QED
    BY <2>1 DEF Advance, Goto
<1>6. CASE AppendUncheckpointed(r) \/ AdapterError(r)
  BY <1>6 DEF AppendUncheckpointed, AdapterError, Goto, store, job
<1>7. CASE Quarantine(r)
  <2>1. UNCHANGED <<verdict, report>> /\ Advance(r, 0)
    BY <1>7 DEF Quarantine
  <2>2. rows'[x] = rows[x]
    BY <1>7 DEF Quarantine
  <2>. QED
    BY <2>1, <2>2 DEF Advance, Goto
<1>8. CASE Warn(r)
  <2>1. UNCHANGED <<verdict, report>> /\ SkipAdapter(r)
    BY <1>8 DEF Warn
  <2>2. rows'[x] = rows[x]
    BY <1>8 DEF Warn
  <2>. QED
    BY <2>1, <2>2 DEF SkipAdapter, Goto
<1>9. CASE ReadStatus(r) \/ FinishRun(r) \/ Rebuild(r)
  BY <1>9 DEF ReadStatus, FinishRun, Rebuild, Goto, store, job
<1>10. CASE Confirm(r)
  BY <1>10 DEF Confirm, Report, Goto, store, job
<1>11. CASE Collide(r) \/ Exhaust(r) \/ Break(r)
  BY <1>11 DEF Collide, Exhaust, Break, GiveUp, Report, Goto, store, job
<1>. QED
  BY <1>1, <1>2, <1>3, <1>4, <1>5, <1>6, <1>7, <1>8, <1>9, <1>10, <1>11 DEF Step

\* Events are never lost.
LEMMA EventsGrow ==
  ASSUME [Next]_vars
  PROVE  events \subseteq events'
<1>1. CASE UNCHANGED vars
  BY <1>1 DEF vars
<1>2. ASSUME NEW r \in Runs, AppendEvent(r) \/ AppendUncheckpointed(r)
      PROVE  events \subseteq events'
  BY <1>2 DEF AppendEvent, AppendUncheckpointed, Insert
<1>3. ASSUME NEW r \in Runs,
             Begin(r) \/ StartRun(r) \/ PassStored(r) \/ FindNew(r) \/ Sequence(r)
               \/ Quarantine(r) \/ AdapterError(r) \/ Warn(r) \/ ReadStatus(r)
               \/ FinishRun(r) \/ Rebuild(r) \/ Confirm(r) \/ Collide(r)
               \/ Retry(r) \/ Exhaust(r) \/ Break(r) \/ Kill(r)
      PROVE  UNCHANGED events
  BY <1>3 DEF Begin, StartRun, PassStored, FindNew, Sequence, Quarantine,
              AdapterError, Warn, ReadStatus, FinishRun, Rebuild, Confirm,
              Collide, Retry, Exhaust, Break, Kill, GiveUp, store
<1>. QED
  BY <1>1, <1>2, <1>3 DEF Next, Step

\* Every step of a run keeps that run clean.
LEMMA StepClean ==
  ASSUME TypeOK, Counted, NEW r \in Runs, CleanSoFar(r), events \subseteq events',
         Begin(r) \/ Step(r) \/ Kill(r)
  PROVE  CleanSoFar(r)'
<1>0. Complete => Complete'
  BY StillStored
<1>1. CASE \/ Begin(r) \/ Kill(r) \/ Retry(r) \/ AppendUncheckpointed(r)
           \/ AdapterError(r) \/ Rebuild(r) \/ Confirm(r) \/ Collide(r)
           \/ Exhaust(r) \/ Break(r)
  <2>1. rows' = rows
    BY <1>1 DEF Begin, Kill, Retry, AppendUncheckpointed, AdapterError, Rebuild,
                Confirm, Collide, Exhaust, Break, GiveUp, store
  <2>2. pc'[r] \in {"start", "ended", "warn", "confirm"}
    BY <1>1 DEF Begin, Kill, Retry, AppendUncheckpointed, AdapterError, Rebuild,
                Confirm, Collide, Exhaust, Break, GiveUp, Goto, TypeOK
  <2>. QED
    BY <2>1, <2>2, AwayClean
<1>2. CASE StartRun(r)
  <2>1. rows'[r].status = "started"
    BY <1>2, StartRows
  <2>2. pc' = [pc EXCEPT ![r] = IF Sources = <<>> THEN "status" ELSE "line"]
        /\ at' = [at EXCEPT ![r] = [adapter |-> 1, line |-> 1]]
    BY <1>2 DEF StartRun, Goto
  <2>3. pc'[r] = (IF Sources = <<>> THEN "status" ELSE "line")
        /\ at'[r].adapter = 1 /\ at'[r].line = 1
    BY <2>2 DEF TypeOK
  <2>4. ASSUME NEW a \in Adapters, NEW k \in 1 .. Len(Sources[a])
        PROVE  ~(a < 1 \/ (a = 1 /\ k < 1))
    BY LinesAreNat DEF Adapters
  <2>5. DoneBefore(r)'
    BY <2>3, <2>4 DEF DoneBefore
  <2>6. Sources = <<>> => Adapters = {}
    BY DEF Adapters
  <2>7. Sources = <<>> => Complete'
    BY <2>6 DEF Complete
  <2>. QED
    BY <2>1, <2>3, <2>5, <2>7 DEF CleanSoFar
<1>3. CASE PassStored(r)
  <2>1. pc[r] = "line" /\ HasEquivalent(LineAt(r)) /\ Advance(r, 0) /\ rows' = rows
    BY <1>3 DEF PassStored, store
  <2>2. \E e \in events' : e.line = LineAt(r)
    BY <2>1 DEF HasEquivalent
  <2>3. CASE rows[r].warnings = 0
    <3>1. DoneBefore(r)
      BY <2>1, <2>3 DEF CleanSoFar
    <3>2. \/ pc'[r] = "line" /\ DoneBefore(r)'
          \/ pc'[r] = "status" /\ Complete'
      BY <2>1, <2>2, <3>1, AdvanceDone
    <3>. QED
      BY <1>0, <2>1, <3>2 DEF CleanSoFar
  <2>4. CASE rows[r].warnings # 0
    <3>1. pc'[r] \in {"line", "status"}
      BY <2>1 DEF Advance, Goto, TypeOK
    <3>. QED
      BY <1>0, <2>1, <2>4, <3>1 DEF CleanSoFar
  <2>. QED
    BY <2>3, <2>4
<1>4. CASE FindNew(r) \/ Sequence(r)
  <2>1. pc[r] \in {"line", "sequence"} /\ pc'[r] \in {"sequence", "append"}
        /\ rows' = rows /\ at' = at
    BY <1>4 DEF FindNew, Sequence, Goto, store, job, TypeOK
  <2>2. DoneBefore(r) => DoneBefore(r)'
    BY <2>1, StillStored DEF DoneBefore
  <2>. QED
    BY <1>0, <2>1, <2>2 DEF CleanSoFar
<1>5. CASE AppendEvent(r)
  <2>1. pc[r] = "append" /\ events' = Insert(r) /\ rows' = rows
        /\ \E new \in {0, 1} : Advance(r, new)
    BY <1>5 DEF AppendEvent
  <2>2. \E e \in events' : e.line = LineAt(r)
    BY <2>1, InsertStores
  <2>3. CASE rows[r].warnings = 0
    <3>1. DoneBefore(r)
      BY <2>1, <2>3 DEF CleanSoFar
    <3>2. \/ pc'[r] = "line" /\ DoneBefore(r)'
          \/ pc'[r] = "status" /\ Complete'
      BY <2>1, <2>2, <3>1, AdvanceDone
    <3>. QED
      BY <1>0, <2>1, <3>2 DEF CleanSoFar
  <2>4. CASE rows[r].warnings # 0
    <3>1. pc'[r] \in {"line", "status"}
      BY <2>1 DEF Advance, Goto, TypeOK
    <3>. QED
      BY <1>0, <2>1, <2>4, <3>1 DEF CleanSoFar
  <2>. QED
    BY <2>3, <2>4
<1>6. CASE Quarantine(r)
  <2>1. LineAt(r) \in Nat
    BY <1>6, LineIsNat DEF Quarantine
  <2>2. rows'[r].warnings > 0 /\ rows'[r].status = rows[r].status
    BY <1>6, <2>1, QuarantineCounts DEF Quarantine
  <2>3. pc'[r] \in {"line", "status"}
    BY <1>6 DEF Quarantine, Advance, Goto, TypeOK
  <2>. QED
    BY <1>0, <2>2, <2>3 DEF CleanSoFar
<1>7. CASE Warn(r)
  <2>1. at[r].adapter \in Nat
    BY DEF TypeOK
  <2>2. rows'[r].warnings > 0 /\ rows'[r].status = rows[r].status
    BY <1>7, <2>1, WarnCounts DEF Warn
  <2>3. pc'[r] \in {"line", "status"}
    BY <1>7 DEF Warn, SkipAdapter, Goto, TypeOK
  <2>. QED
    BY <1>0, <2>2, <2>3 DEF CleanSoFar
<1>8. CASE ReadStatus(r)
  <2>1. pc[r] = "status" /\ pc'[r] = "finish" /\ rows' = rows
        /\ verdict'[r] = IF rows[r].warnings > 0 THEN "completed_with_warnings"
                         ELSE "completed"
    BY <1>8 DEF ReadStatus, Goto, store, TypeOK
  <2>2. rows[r].warnings \in Nat
    BY DEF TypeOK, RowType
  <2>3. verdict'[r] = "completed" => rows[r].warnings = 0
    BY <2>1, <2>2
  <2>. QED
    BY <1>0, <2>1, <2>3 DEF CleanSoFar
<1>9. CASE FinishRun(r)
  <2>1. pc[r] = "finish" /\ pc'[r] = "rebuild"
    BY <1>9 DEF FinishRun, Goto, TypeOK
  <2>2. rows'[r].status = verdict[r]
    BY <1>9, FinishRows
  <2>. QED
    BY <1>0, <2>1, <2>2 DEF CleanSoFar
<1>. QED
  BY <1>1, <1>2, <1>3, <1>4, <1>5, <1>6, <1>7, <1>8, <1>9 DEF Step

\* A run recorded as completed has left no source line out, however often it
\* was tried again and whatever other runs did meanwhile: an attempt that
\* passes over a line it could not store leaves a warning, which no later
\* attempt takes back, and a run with a warning is not recorded as completed.
THEOREM NothingLeftOut == Spec => []CleanRunIsComplete
<1>1. Init => \A x \in Runs : CleanSoFar(x)
  BY DEF Init, CleanSoFar, NoRow
<1>2. TypeOK /\ Counted /\ (\A x \in Runs : CleanSoFar(x)) /\ [Next]_vars
        => (\A x \in Runs : CleanSoFar(x))'
  <2> SUFFICES ASSUME TypeOK, Counted, \A x \in Runs : CleanSoFar(x), [Next]_vars
               PROVE  \A x \in Runs : CleanSoFar(x)'
    OBVIOUS
  <2>1. events \subseteq events'
    BY EventsGrow
  <2>2. CASE UNCHANGED vars
    <3>1. rows' = rows /\ pc' = pc /\ at' = at /\ verdict' = verdict
      BY <2>2 DEF vars
    <3>. QED
      BY <2>1, <3>1, StillClean
  <2>3. ASSUME NEW r \in Runs, Begin(r) \/ Step(r) \/ Kill(r), NEW x \in Runs
        PROVE  CleanSoFar(x)'
    <3>1. CASE x = r
      BY <2>1, <2>3, <3>1, StepClean
    <3>2. CASE x # r
      <4>1. rows'[x] = rows[x] /\ pc'[x] = pc[x] /\ at'[x] = at[x]
            /\ verdict'[x] = verdict[x]
        BY <2>3, <3>2, OthersStay
      <4>. QED
        BY <2>1, <4>1, StillClean
    <3>. QED
      BY <3>1, <3>2
  <2>. QED
    BY <2>2, <2>3 DEF Next
<1>3. (\A x \in Runs : CleanSoFar(x)) => CleanRunIsComplete
  <2>1. Complete => \A l \in AllLines : HasEquivalent(l)
    BY DEF Complete, AllLines, LinesOf
  <2>. QED
    BY <2>1 DEF CleanSoFar, CleanRunIsComplete
<1> QED
  BY <1>1, <1>2, <1>3, InitCounted, NextCounted, TypeCorrect, PTL DEF Spec

----------------------------------------------------------------------------
(* A run that has reported is searchable.                                  *)

\* Run r has nothing more to store, and a search finds what it has stored.
Searchable(r) == \A e \in EventsOf(r) : EventId(e) \in indexed

\* From the rebuild to the report, and after it, run r is searchable; a run
\* that has reported has ended.
SearchSound(r) ==
  /\ pc[r] = "confirm" => Searchable(r)
  /\ report[r] # NoReport => pc[r] = "ended"
  /\ report[r] # NoReport /\ report[r].status # "warning" => Searchable(r)

\* What a search finds is what is stored; rebuilding empties and fills the
\* index in one transaction, so no search misses what an earlier one found.
IndexStored == indexed \subseteq {EventId(e) : e \in events}

\* A step of another run, or one that stores nothing, keeps a run searchable.
LEMMA StillSearchable ==
  ASSUME NEW r, Searchable(r), EventsOf(r)' = EventsOf(r),
         indexed \subseteq indexed'
  PROVE  Searchable(r)'
BY DEF Searchable

\* The index only grows.
LEMMA IndexGrows ==
  ASSUME IndexStored, [Next]_vars
  PROVE  IndexStored' /\ indexed \subseteq indexed'
<1>1. events \subseteq events'
  BY EventsGrow
<1>2. ASSUME NEW r \in Runs, Rebuild(r)
      PROVE  IndexStored' /\ indexed \subseteq indexed'
  <2>1. indexed' = {EventId(e) : e \in events} /\ UNCHANGED events
    BY <1>2 DEF Rebuild
  <2>. QED
    BY <2>1 DEF IndexStored
<1>3. CASE UNCHANGED indexed
  BY <1>1, <1>3 DEF IndexStored
<1>4. CASE UNCHANGED vars
  BY <1>3, <1>4 DEF vars
<1>5. ASSUME NEW r \in Runs,
             Begin(r) \/ StartRun(r) \/ PassStored(r) \/ FindNew(r) \/ Sequence(r)
               \/ AppendEvent(r) \/ AppendUncheckpointed(r) \/ Quarantine(r)
               \/ AdapterError(r) \/ Warn(r) \/ ReadStatus(r) \/ FinishRun(r)
               \/ Confirm(r) \/ Collide(r) \/ Retry(r) \/ Exhaust(r) \/ Break(r)
               \/ Kill(r)
      PROVE  UNCHANGED indexed
  BY <1>5 DEF Begin, StartRun, PassStored, FindNew, Sequence, AppendEvent,
              AppendUncheckpointed, Quarantine, AdapterError, Warn, ReadStatus,
              FinishRun, Confirm, Collide, Retry, Exhaust, Break, Kill, GiveUp,
              store
<1>. QED
  BY <1>2, <1>3, <1>4, <1>5 DEF Next, Step

\* Only an append adds to the events of a run, and only to its own.
LEMMA OwnEvents ==
  ASSUME NEW r \in Runs, events' = Insert(r)
  PROVE  \A x \in Runs \ {r} : EventsOf(x)' = EventsOf(x)
<1> DEFINE e == [line |-> LineAt(r), seq |-> seq[r], run |-> r]
<1>1. events' \in {events, events \cup {e}}
  BY DEF Insert
<1>2. e.run = r
  OBVIOUS
<1> HIDE DEF e
<1>. QED
  BY <1>1, <1>2 DEF EventsOf

\* Every step of a run keeps what has been reported of it.
LEMMA StepSearch ==
  ASSUME TypeOK, NEW r \in Runs, SearchSound(r), indexed \subseteq indexed',
         Begin(r) \/ Step(r) \/ Kill(r)
  PROVE  SearchSound(r)'
<1>1. CASE \/ Begin(r) \/ StartRun(r) \/ PassStored(r) \/ FindNew(r)
           \/ Sequence(r) \/ Quarantine(r) \/ AdapterError(r) \/ Warn(r)
           \/ AppendEvent(r) \/ AppendUncheckpointed(r)
           \/ ReadStatus(r) \/ FinishRun(r) \/ Retry(r)
  <2>1. pc[r] # "ended" /\ UNCHANGED report
    BY <1>1 DEF Begin, StartRun, PassStored, FindNew, Sequence, Quarantine,
                AdapterError, Warn, AppendEvent, AppendUncheckpointed,
                ReadStatus, FinishRun, Retry, Outside
  <2>2. pc'[r] # "confirm"
    BY <1>1 DEF Begin, StartRun, PassStored, FindNew, Sequence, Quarantine,
                AdapterError, Warn, AppendEvent, AppendUncheckpointed,
                ReadStatus, FinishRun, Retry, Advance, SkipAdapter, Goto, TypeOK
  <2>. QED
    BY <2>1, <2>2 DEF SearchSound
<1>2. CASE Rebuild(r)
  <2>1. pc[r] # "ended" /\ UNCHANGED <<report, events>> /\ pc'[r] = "confirm"
        /\ indexed' = {EventId(e) : e \in events}
    BY <1>2 DEF Rebuild, Goto, TypeOK
  <2>2. Searchable(r)'
    BY <2>1 DEF Searchable, EventsOf
  <2>. QED
    BY <2>1, <2>2 DEF SearchSound
<1>3. CASE Confirm(r)
  <2>1. pc[r] = "confirm" /\ pc'[r] = "ended" /\ UNCHANGED events
    BY <1>3 DEF Confirm, Goto, store, TypeOK
  <2>2. Searchable(r)'
    BY <2>1, StillSearchable DEF SearchSound, EventsOf
  <2>. QED
    BY <2>1, <2>2 DEF SearchSound
<1>4. CASE Collide(r) \/ Exhaust(r) \/ Break(r)
  <2>1. pc'[r] = "ended" /\ UNCHANGED events /\ pc[r] # "ended"
    BY <1>4 DEF Collide, Exhaust, Break, Outside, GiveUp, Goto, store, TypeOK
  <2>2. report'[r] = report[r] \/ report'[r].status = "warning"
    BY <1>4 DEF Collide, Exhaust, Break, GiveUp, Report, TypeOK
  <2>3. report[r] = NoReport
    BY <2>1 DEF SearchSound
  <2>. QED
    BY <2>1, <2>2, <2>3 DEF SearchSound
<1>5. CASE Kill(r)
  <2>1. pc[r] # "ended" /\ pc'[r] = "ended" /\ UNCHANGED report
    BY <1>5 DEF Kill, Goto, TypeOK
  <2>. QED
    BY <2>1 DEF SearchSound
<1>. QED
  BY <1>1, <1>2, <1>3, <1>4, <1>5 DEF Step

\* Once a run has reported that it completed, a search finds every event of
\* that run and goes on finding it: rebuild_search comes before the report,
\* and every later rebuild indexes all that is stored.
THEOREM ReportIsSearchable == Spec => []ReportedIsSearchable
<1> DEFINE Inv == IndexStored /\ \A x \in Runs : SearchSound(x)
<1>1. Init => Inv
  BY DEF Init, SearchSound, IndexStored
<1>2. TypeOK /\ Inv /\ [Next]_vars => Inv'
  <2> SUFFICES ASSUME TypeOK, IndexStored, \A x \in Runs : SearchSound(x), [Next]_vars
               PROVE  IndexStored' /\ \A x \in Runs : SearchSound(x)'
    OBVIOUS
  <2>1. IndexStored' /\ indexed \subseteq indexed'
    BY IndexGrows
  <2>2. CASE UNCHANGED vars
    BY <2>1, <2>2 DEF vars, SearchSound, Searchable, EventsOf
  <2>3. ASSUME NEW r \in Runs, Begin(r) \/ Step(r) \/ Kill(r), NEW x \in Runs
        PROVE  SearchSound(x)'
    <3>1. CASE x = r
      BY <2>1, <2>3, <3>1, StepSearch
    <3>2. CASE x # r
      <4>1. pc'[x] = pc[x] /\ report'[x] = report[x]
        BY <2>3, <3>2, OthersStay
      <4>2. EventsOf(x)' = EventsOf(x)
        <5>1. CASE AppendEvent(r) \/ AppendUncheckpointed(r)
          BY <3>2, <5>1, OwnEvents DEF AppendEvent, AppendUncheckpointed
        <5>2. CASE UNCHANGED events
          BY <5>2 DEF EventsOf
        <5>3. CASE ~(AppendEvent(r) \/ AppendUncheckpointed(r))
          <6>1. UNCHANGED events
            BY <2>3, <5>3 DEF Step, Begin, StartRun, PassStored, FindNew,
                 Sequence, Quarantine, AdapterError, Warn, ReadStatus, FinishRun,
                 Rebuild, Confirm, Collide, Retry, Exhaust, Break, Kill, GiveUp,
                 store
          <6>. QED
            BY <5>2, <6>1
        <5>. QED
          BY <5>1, <5>3
      <4>3. Searchable(x) => Searchable(x)'
        BY <2>1, <4>2, StillSearchable
      <4>. QED
        BY <4>1, <4>3 DEF SearchSound
    <3>. QED
      BY <3>1, <3>2
  <2>. QED
    BY <2>1, <2>2, <2>3 DEF Next
<1>3. Inv => ReportedIsSearchable
  BY DEF SearchSound, Searchable, ReportedIsSearchable
<1> QED
  BY <1>1, <1>2, <1>3, TypeCorrect, PTL DEF Spec
=============================================================================

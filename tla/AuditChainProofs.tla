--------------------------- MODULE AuditChainProofs ---------------------------
(***************************************************************************)
(* Proofs about the audit log, for every set of contents and a log of any  *)
(* length, one change of it at any moment and any number of events appended*)
(* before and after that change.                                           *)
(*                                                                         *)
(* verify_chain meets the rows by their position in the order of           *)
(* sequence_num. The first part shows that positions number the rows, and  *)
(* that they are the sequence numbers when no number is missing. The second*)
(* keeps an invariant of the rows by their sequence numbers.               *)
(***************************************************************************)
EXTENDS AuditChain, FiniteSetTheorems, TLAPS

-------------------------------------------------------------------------------
(* The inductive invariant *)

Seqs == {e.seq : e \in events}

(* A row has its columns, and nothing else.                                 *)
IsRow(e) ==
  e = [seq |-> e.seq, prev |-> e.prev, body |-> e.body, other |-> e.other, hash |-> e.hash]

WellFormed ==
  /\ IsFiniteSet(events) /\ TypeOK
  /\ \A e \in events : IsRow(e)
  /\ changed \in [field : Fields, seq : Nat] \cup {NoChange}

(* No number is missing.                                                    *)
Contiguous == Seqs = 1 .. Cardinality(events)

(* A row is linked to the one before it, and its hash is that of its columns*)
Linked(e) ==
  IF e.seq = 1 THEN e.prev = Genesis
               ELSE \E f \in events : f.seq = e.seq - 1 /\ e.prev = f.hash
Hashed(e) == e.hash = ComputeHash(e.prev, e.seq, e.body)
Sound(e) == Linked(e) /\ Hashed(e)

(* Until the log is changed every row is sound.                             *)
Intact == changed = NoChange => Contiguous /\ \A e \in events : Sound(e)

(* The hash of a row that was edited is not that of its columns, and every  *)
(* row before it is sound.                                                  *)
Edited ==
  changed # NoChange /\ changed.field \in {"body", "prev", "hash"} =>
    /\ Contiguous
    /\ \A e \in events : e.seq < changed.seq => Sound(e)
    /\ \E e \in events : e.seq = changed.seq /\ ~ Hashed(e)

(* A number that was changed or deleted leaves a row numbered 0, or a gap   *)
(* below a row that is still there.                                         *)
Misnumbered ==
  changed # NoChange /\ changed.field \in {"seq", "row"} =>
    \/ 0 \in Seqs
    \/ /\ changed.seq >= 1 /\ changed.seq \notin Seqs
       /\ \E e \in events : e.seq > changed.seq

LogInv == WellFormed /\ Intact /\ Edited /\ Misnumbered

-------------------------------------------------------------------------------
(* Positions and numbers *)

(* The rows of the log stand at the positions 1 to their number, each at its*)
(* own.                                                                     *)
LEMMA Positions ==
  ASSUME WellFormed
  PROVE  /\ \A e \in events : Position(e) \in 1 .. Cardinality(events)
         /\ \A e, f \in events : Position(e) = Position(f) => e = f
         /\ \A i \in 1 .. Cardinality(events) : RowAt(i) \in events /\ Position(RowAt(i)) = i
<1>. DEFINE Upto(e) == {f \in events : f.seq <= e.seq}
            N == Cardinality(events)
            pos == [e \in events |-> Position(e)]
<1>1. /\ IsFiniteSet(events) /\ N \in Nat
      /\ \A e \in events : e.seq \in Nat
      /\ \A e, f \in events : e.seq = f.seq => e = f
  BY FS_CardinalityType DEF WellFormed, TypeOK
<1>2. ASSUME NEW e \in events
      PROVE  /\ IsFiniteSet(Upto(e)) /\ Cardinality(Upto(e)) \in 1 .. N
             /\ Position(e) = Cardinality(Upto(e))
  <2>1. IsFiniteSet(Upto(e)) /\ Cardinality(Upto(e)) <= N
    BY <1>1, FS_Subset
  <2>2. e \in Upto(e)
    BY <1>1
  <2>3. Cardinality(Upto(e)) \in Nat /\ Cardinality(Upto(e)) # 0
    BY <2>1, <2>2, FS_CardinalityType, FS_EmptySet
  <2>. QED
    BY <1>1, <2>1, <2>3 DEF Position
<1>3. ASSUME NEW e \in events, NEW f \in events, e.seq < f.seq
      PROVE  Position(e) # Position(f)
  <2>1. Upto(e) \in SUBSET Upto(f) /\ f \in Upto(f) /\ f \notin Upto(e)
    BY <1>1, <1>3
  <2>2. Cardinality(Upto(e)) # Cardinality(Upto(f))
    BY <1>2, <2>1, FS_Subset
  <2>. QED
    BY <1>2, <2>2
<1>4. \A e, f \in events : Position(e) = Position(f) => e = f
  BY <1>1, <1>3
<1>5. pos \in Injection(events, 1 .. N)
  BY <1>2, <1>4 DEF Injection, IsInjective
<1>6. IsFiniteSet(1 .. N) /\ Cardinality(1 .. N) = N
  BY <1>1, FS_Interval
<1>7. pos \in Surjection(events, 1 .. N)
  BY <1>5, <1>6, FS_Injection
<1>8. \A i \in 1 .. N : \E e \in events : Position(e) = i
  BY <1>7 DEF Surjection
<1>9. \A i \in 1 .. N : RowAt(i) \in events /\ Position(RowAt(i)) = i
  BY <1>8 DEF RowAt
<1>. QED
  BY <1>2, <1>4, <1>9

(* append_event finds the last row.                                         *)
LEMMA LastRow ==
  ASSUME WellFormed, events # {}
  PROVE  Last \in events /\ \A f \in events : f.seq <= Last.seq
<1>. DEFINE N == Cardinality(events)
            top == RowAt(N)
<1>1. IsFiniteSet(events) /\ N \in Nat /\ N # 0
  BY FS_CardinalityType, FS_EmptySet DEF WellFormed
<1>2. top \in events /\ Position(top) = N
  BY <1>1, Positions
<1>3. {f \in events : f.seq <= top.seq} = events
  <2>1. {f \in events : f.seq <= top.seq} \in SUBSET events
    OBVIOUS
  <2>. QED
    BY <1>1, <1>2, <2>1, FS_Subset DEF Position
<1>. QED
  BY <1>2, <1>3 DEF Last

(* When no number is missing, the row at a position is the row of that      *)
(* number.                                                                  *)
LEMMA AtNumber ==
  ASSUME WellFormed, Contiguous, NEW i \in 1 .. Cardinality(events)
  PROVE  /\ RowAt(i) \in events /\ RowAt(i).seq = i
         /\ \A e \in events : e.seq = i => RowAt(i) = e
<1>. DEFINE Low == {f \in events : f.seq <= i}
            num == [f \in Low |-> f.seq]
<1>1. /\ IsFiniteSet(events) /\ Cardinality(events) \in Nat
      /\ \A e \in events : e.seq \in Nat
      /\ \A e, f \in events : e.seq = f.seq => e = f
  BY FS_CardinalityType DEF WellFormed, TypeOK
<1>2. PICK e \in events : e.seq = i
  BY DEF Contiguous, Seqs
<1>3. num \in Bijection(Low, 1 .. i)
  <2>1. \A f \in Low : f.seq \in 1 .. i
    BY <1>1 DEF Contiguous, Seqs
  <2>2. \A n \in 1 .. i : \E f \in Low : f.seq = n
    <3>. SUFFICES ASSUME NEW n \in 1 .. i PROVE \E f \in Low : f.seq = n
      OBVIOUS
    <3>1. n \in Seqs
      BY <1>1 DEF Contiguous
    <3>. QED
      BY <1>1, <3>1 DEF Seqs
  <2>3. num \in Injection(Low, 1 .. i)
    BY <1>1, <2>1 DEF Injection, IsInjective
  <2>4. num \in Surjection(Low, 1 .. i)
    BY <2>1, <2>2 DEF Surjection
  <2>. QED
    BY <2>3, <2>4 DEF Bijection
<1>4. Cardinality(Low) = i
  <2>1. IsFiniteSet(Low)
    BY <1>1, FS_Subset
  <2>2. ExistsBijection(Low, 1 .. i)
    BY <1>3 DEF ExistsBijection
  <2>3. Cardinality(1 .. i) = Cardinality(Low)
    BY <2>1, <2>2, FS_Bijection
  <2>. QED
    BY <2>3, FS_Interval
<1>5. Position(e) = i
  BY <1>2, <1>4 DEF Position
<1>6. RowAt(i) = e
  BY <1>2, <1>5, Positions
<1>. QED
  BY <1>1, <1>2, <1>6

(* A log that verifies misses no number.                                    *)
LEMMA ValidNumbers ==
  ASSUME WellFormed, IsValid
  PROVE  Contiguous
<1>1. \A i \in 1 .. Cardinality(events) : RowAt(i) \in events /\ RowAt(i).seq = i
  BY Positions DEF IsValid, BrokenRows, Broken
<1>2. \A e \in events : RowAt(Position(e)) = e /\ Position(e) \in 1 .. Cardinality(events)
  BY Positions
<1>. QED
  BY <1>1, <1>2 DEF Contiguous, Seqs

(* The tests of verify_chain are those of a sound row.                      *)
LEMMA BrokenIsUnsound ==
  ASSUME WellFormed, Contiguous, NEW i \in 1 .. Cardinality(events)
  PROVE  Broken(i) <=> ~ Sound(RowAt(i))
<1>1. RowAt(i) \in events /\ RowAt(i).seq = i
  BY AtNumber
<1>2. CASE i = 1
  BY <1>1, <1>2 DEF Broken, ExpectedPrev, Sound, Linked, Hashed
<1>3. CASE i # 1
  <2>1. i - 1 \in 1 .. Cardinality(events)
    BY <1>3, FS_CardinalityType DEF WellFormed
  <2>2. /\ RowAt(i - 1) \in events /\ RowAt(i - 1).seq = i - 1
        /\ \A f \in events : f.seq = i - 1 => f = RowAt(i - 1)
    BY <2>1, AtNumber
  <2>3. Linked(RowAt(i)) <=> RowAt(i).prev = RowAt(i - 1).hash
    BY <1>1, <1>3, <2>2 DEF Linked
  <2>4. Broken(i) <=> ~ (RowAt(i).prev = RowAt(i - 1).hash /\ Hashed(RowAt(i)))
    BY <1>1, <1>3 DEF Broken, ExpectedPrev, Hashed
  <2>. QED
    BY <2>3, <2>4 DEF Sound
<1>. QED
  BY <1>2, <1>3

-------------------------------------------------------------------------------
(* The invariant is kept *)

(* The log starts as it should be,                                          *)
LEMMA LogStarts == Init => LogInv
<1>. SUFFICES ASSUME Init PROVE LogInv
  OBVIOUS
<1>1. events = {} /\ changed = NoChange
  BY DEF Init
<1>2. IsFiniteSet(events) /\ Cardinality(events) = 0
  BY <1>1, FS_EmptySet
<1>. QED
  BY <1>1, <1>2
  DEF LogInv, WellFormed, TypeOK, Intact, Contiguous, Seqs, Edited, Misnumbered

(* append_event: the new row takes a number above every other, so the UNIQUE*)
(* constraint of sequence_num is never met, and is sound if no number is    *)
(* missing; the rows that were there are left as they were.                 *)
LEMMA AppendKeepsLog ==
  ASSUME LogInv, NEW body \in Bodies, NEW other \in Others, Append(body, other)
  PROVE  LogInv'
<1>. DEFINE N == Cardinality(events)
<1>0. PICK new : new = NextRow(body, other)
  OBVIOUS
<1>1. /\ IsFiniteSet(events) /\ N \in Nat /\ WellFormed
      /\ \A e \in events : /\ e.seq \in Nat /\ IsRow(e)
                           /\ e.body \in Bodies /\ e.other \in Others
      /\ \A e, f \in events : e.seq = f.seq => e = f
  BY FS_CardinalityType DEF LogInv, WellFormed, TypeOK
<1>2. events' = events \cup {new} /\ UNCHANGED changed
  BY <1>0 DEF Append
<1>3. /\ new.seq \in Nat /\ new.body = body /\ new.other = other /\ IsRow(new)
      /\ new.hash = ComputeHash(new.prev, new.seq, new.body)
      /\ events = {} => new.seq = 1 /\ new.prev = Genesis
      /\ events # {} => new.seq = Last.seq + 1 /\ new.prev = Last.hash
  BY <1>0, <1>1, LastRow DEF NextRow, Row, IsRow
<1>4. \A e \in events : e.seq < new.seq
  BY <1>1, <1>3, LastRow
<1>5. new \notin events /\ IsFiniteSet(events') /\ Cardinality(events') = N + 1
  BY <1>1, <1>2, <1>3, <1>4, FS_AddElement
<1>6. WellFormed'
  <2>1. TypeOK'
    BY <1>1, <1>2, <1>3, <1>4 DEF TypeOK
  <2>2. \A e \in events' : IsRow(e)
    BY <1>1, <1>2, <1>3
  <2>. QED
    BY <1>1, <1>2, <1>5, <2>1, <2>2 DEF WellFormed, IsRow
<1>7. Seqs' = Seqs \cup {new.seq}
  BY <1>2 DEF Seqs
<1>8. ASSUME Contiguous
      PROVE  Contiguous' /\ Linked(new)'
  <2>1. CASE events = {}
    <3>1. N = 0 /\ Seqs = {}
      BY <2>1, FS_EmptySet DEF Seqs
    <3>. QED
      BY <1>3, <1>5, <1>7, <2>1, <3>1 DEF Contiguous, Linked
  <2>2. CASE events # {}
    <3>1. Last \in events /\ \A f \in events : f.seq <= Last.seq
      BY <1>1, <2>2, LastRow
    <3>2. N # 0
      BY <1>1, <2>2, FS_EmptySet
    <3>3. N \in Seqs /\ Last.seq \in 1 .. N
      BY <1>1, <1>8, <3>1, <3>2 DEF Contiguous, Seqs
    <3>4. Last.seq = N
      BY <1>1, <3>1, <3>3 DEF Seqs
    <3>5. Contiguous'
      BY <1>1, <1>3, <1>5, <1>7, <1>8, <2>2, <3>4 DEF Contiguous
    <3>. QED
      BY <1>1, <1>2, <1>3, <2>2, <3>1, <3>2, <3>4, <3>5 DEF Linked
  <2>. QED
    BY <2>1, <2>2
<1>9. \A e \in events : Sound(e) => Sound(e)'
  BY <1>2 DEF Sound, Linked, Hashed
<1>10. Hashed(new)
  BY <1>3 DEF Hashed
<1>11. Intact'
  <2>. SUFFICES ASSUME changed = NoChange PROVE Contiguous' /\ \A e \in events' : Sound(e)'
    BY <1>2 DEF Intact
  <2>1. Contiguous /\ \A e \in events : Sound(e)
    BY DEF LogInv, Intact
  <2>2. Sound(new)'
    BY <1>8, <1>10, <2>1 DEF Sound, Hashed
  <2>. QED
    BY <1>2, <1>8, <1>9, <2>1, <2>2
<1>12. Edited'
  <2>. SUFFICES ASSUME changed # NoChange, changed.field \in {"body", "prev", "hash"}
                PROVE  /\ Contiguous'
                       /\ \A e \in events' : e.seq < changed.seq => Sound(e)'
                       /\ \E e \in events' : e.seq = changed.seq /\ ~ Hashed(e)
    BY <1>2 DEF Edited, Hashed
  <2>1. /\ Contiguous /\ \A e \in events : e.seq < changed.seq => Sound(e)
        /\ \E e \in events : e.seq = changed.seq /\ ~ Hashed(e)
    BY DEF LogInv, Edited
  <2>2. ~ (new.seq < changed.seq)
    BY <1>1, <1>3, <1>4, <2>1
  <2>. QED
    BY <1>2, <1>8, <1>9, <2>1, <2>2
<1>13. Misnumbered'
  <2>. SUFFICES ASSUME changed # NoChange, changed.field \in {"seq", "row"},
                       ~ (0 \in Seqs)
                PROVE  /\ changed.seq >= 1 /\ changed.seq \notin Seqs'
                       /\ \E e \in events' : e.seq > changed.seq
    BY <1>2, <1>7 DEF Misnumbered
  <2>1. /\ changed.seq >= 1 /\ changed.seq \notin Seqs
        /\ \E e \in events : e.seq > changed.seq
    BY DEF LogInv, Misnumbered
  <2>2. changed.seq \in Nat
    BY <1>1 DEF WellFormed
  <2>. QED
    BY <1>1, <1>2, <1>3, <1>4, <1>7, <2>1, <2>2
<1>. QED
  BY <1>6, <1>11, <1>12, <1>13 DEF LogInv

(* One column of one row is changed: the rows keep their types, and their   *)
(* number.                                                                  *)
LEMMA ReplaceKeepsRows ==
  ASSUME LogInv, NEW e \in events, NEW new, NEW field \in Fields, Replace(e, new, field),
         IsRow(new), new.body \in Bodies, new.other \in Others, new.seq \in Nat,
         new.seq # e.seq => new.seq \notin Seqs
  PROVE  /\ WellFormed' /\ Intact'
         /\ changed = NoChange /\ changed' # NoChange
         /\ changed' = [field |-> field, seq |-> e.seq]
         /\ events' = (events \ {e}) \cup {new}
         /\ Cardinality(events') = Cardinality(events)
         /\ Contiguous /\ \A f \in events : Sound(f)
<1>1. /\ IsFiniteSet(events) /\ Cardinality(events) \in Nat
      /\ \A f \in events : /\ f.seq \in Nat /\ IsRow(f)
                           /\ f.body \in Bodies /\ f.other \in Others
      /\ \A f, g \in events : f.seq = g.seq => f = g
  BY FS_CardinalityType DEF LogInv, WellFormed, TypeOK
<1>2. /\ changed = NoChange /\ new # e
      /\ changed' = [field |-> field, seq |-> e.seq]
      /\ events' = (events \ {e}) \cup {new}
  BY DEF Replace
<1>3. changed' \in [field : Fields, seq : Nat] /\ changed' # NoChange
  BY <1>1, <1>2, AuditAssumption
<1>4. \A f \in events \ {e} : f.seq # new.seq
  BY <1>1 DEF Seqs
<1>5. IsFiniteSet(events') /\ Cardinality(events') = Cardinality(events)
  <2>1. IsFiniteSet(events \ {e}) /\ Cardinality(events \ {e}) = Cardinality(events) - 1
    BY <1>1, FS_RemoveElement
  <2>2. new \notin events \ {e}
    BY <1>4
  <2>. QED
    BY <1>1, <1>2, <2>1, <2>2, FS_AddElement
<1>6. TypeOK'
  BY <1>1, <1>2, <1>4 DEF TypeOK
<1>7. \A f \in events' : IsRow(f)
  BY <1>1, <1>2
<1>8. WellFormed'
  BY <1>3, <1>5, <1>6, <1>7 DEF WellFormed, IsRow
<1>. QED
  BY <1>2, <1>3, <1>5, <1>8 DEF LogInv, Intact

(* The contents, the link or the hash of a row: its hash is no longer that  *)
(* of its columns, and the rows before it are not touched.                  *)
LEMMA EditKeepsLog ==
  ASSUME LogInv, NEW e \in events, NEW new, NEW field \in {"body", "prev", "hash"},
         Replace(e, new, field), IsRow(new), new.body \in Bodies, new.other \in Others,
         new.seq = e.seq, Hashed(e) => ~ Hashed(new)
  PROVE  LogInv'
<1>1. /\ WellFormed' /\ Intact'
      /\ changed' # NoChange /\ changed' = [field |-> field, seq |-> e.seq]
      /\ events' = (events \ {e}) \cup {new}
      /\ Cardinality(events') = Cardinality(events)
      /\ Contiguous /\ \A f \in events : Sound(f)
  <2>1. e.seq \in Nat /\ field \in Fields
    BY DEF LogInv, WellFormed, TypeOK, Fields
  <2>. QED
    BY <2>1, ReplaceKeepsRows
<1>2. /\ \A f \in events : f.seq \in Nat
      /\ \A f, g \in events : f.seq = g.seq => f = g
  BY DEF LogInv, WellFormed, TypeOK
<1>3. Contiguous'
  <2>1. Seqs' = Seqs
    BY <1>1 DEF Seqs
  <2>. QED
    BY <1>1, <2>1 DEF Contiguous
<1>4. ASSUME NEW f \in events', f.seq < e.seq
      PROVE  Sound(f)'
  <2>1. f \in events /\ Linked(f) /\ Hashed(f)
    BY <1>1, <1>2, <1>4 DEF Sound
  <2>2. Linked(f)'
    <3>1. CASE f.seq = 1
      BY <2>1, <3>1 DEF Linked
    <3>2. CASE f.seq # 1
      <4>1. PICK g \in events : g.seq = f.seq - 1 /\ f.prev = g.hash
        BY <2>1, <3>2 DEF Linked
      <4>2. g \in events'
        BY <1>1, <1>2, <1>4, <2>1, <4>1
      <4>. QED
        BY <3>2, <4>1, <4>2 DEF Linked
    <3>. QED
      BY <3>1, <3>2
  <2>. QED
    BY <2>1, <2>2 DEF Sound, Hashed
<1>5. Edited'
  <2>1. new \in events' /\ ~ Hashed(new)
    BY <1>1 DEF Sound
  <2>. QED
    BY <1>1, <1>3, <1>4, <2>1 DEF Edited, Hashed
<1>6. Misnumbered'
  BY <1>1 DEF Misnumbered
<1>. QED
  BY <1>1, <1>5, <1>6 DEF LogInv

(* A column outside the hash.                                               *)
LEMMA EditOtherKeepsLog ==
  ASSUME LogInv, NEW e \in events, EditOther(e)
  PROVE  LogInv'
<1>1. PICK o \in Others : Replace(e, [e EXCEPT !.other = o], "other")
  BY DEF EditOther
<1>2. PICK new : new = [e EXCEPT !.other = o]
  OBVIOUS
<1>3. e.seq \in Nat /\ e.body \in Bodies /\ IsRow(e)
  BY DEF LogInv, WellFormed, TypeOK
<1>4. IsRow(new) /\ new.body = e.body /\ new.other = o /\ new.seq = e.seq
  BY <1>2, <1>3 DEF IsRow
<1>5. WellFormed' /\ Intact' /\ changed'.field = "other"
  <2>1. Replace(e, new, "other") /\ "other" \in Fields
    BY <1>1, <1>2 DEF Fields
  <2>2. WellFormed' /\ Intact' /\ changed' = [field |-> "other", seq |-> e.seq]
    BY <1>3, <1>4, <2>1, ReplaceKeepsRows
  <2>. QED
    BY <2>2
<1>. QED
  BY <1>5 DEF LogInv, Edited, Misnumbered

(* A sequence number: the rows start at 0, or the number that was changed is*)
(* missing below the new one.                                               *)
LEMMA EditSeqKeepsLog ==
  ASSUME LogInv, NEW e \in events, EditSeq(e)
  PROVE  LogInv'
<1>1. PICK n \in (0 .. MaxEvents + 1) \ Seqs : Replace(e, [e EXCEPT !.seq = n], "seq")
  BY DEF EditSeq, Seqs
<1>2. PICK new : new = [e EXCEPT !.seq = n]
  OBVIOUS
<1>3. /\ e.seq \in Nat /\ e.body \in Bodies /\ e.other \in Others /\ IsRow(e)
      /\ \A f, g \in events : f.seq = g.seq => f = g
      /\ IsFiniteSet(events) /\ Cardinality(events) \in Nat
  BY FS_CardinalityType DEF LogInv, WellFormed, TypeOK
<1>4. /\ IsRow(new) /\ new.body = e.body /\ new.other = e.other /\ new.seq = n
      /\ n \in Nat /\ n \notin Seqs
  BY <1>1, <1>2, <1>3, AuditAssumption DEF IsRow
<1>5. /\ WellFormed' /\ Intact'
      /\ changed' = [field |-> "seq", seq |-> e.seq]
      /\ events' = (events \ {e}) \cup {new}
      /\ Contiguous
  BY <1>1, <1>2, <1>3, <1>4, ReplaceKeepsRows DEF Fields
<1>6. Misnumbered'
  <2>1. new \in events' /\ (e.seq # n => e.seq \notin Seqs')
    BY <1>3, <1>4, <1>5 DEF Seqs
  <2>2. CASE n = 0
    BY <1>4, <2>1, <2>2 DEF Misnumbered, Seqs
  <2>3. CASE n # 0
    <3>1. e.seq \in 1 .. Cardinality(events) /\ n \notin 1 .. Cardinality(events)
      BY <1>4, <1>5 DEF Contiguous, Seqs
    <3>2. e.seq >= 1 /\ n > e.seq
      BY <1>3, <1>4, <2>3, <3>1
    <3>. QED
      BY <1>3, <1>4, <1>5, <2>1, <3>2 DEF Misnumbered
  <2>. QED
    BY <2>2, <2>3
<1>. QED
  BY <1>5, <1>6 DEF LogInv, Edited

(* The deletion of a row leaves a gap below the last row, unless it was the *)
(* last.                                                                    *)
LEMMA DeleteKeepsLog ==
  ASSUME LogInv, NEW e \in events, Delete(e)
  PROVE  LogInv'
<1>1. /\ changed = NoChange /\ events' = events \ {e}
      /\ changed' = [field |-> IF e = Last THEN "tail" ELSE "row", seq |-> e.seq]
  BY DEF Delete
<1>2. /\ IsFiniteSet(events) /\ Cardinality(events) \in Nat /\ WellFormed
      /\ \A f \in events : /\ f.seq \in Nat /\ IsRow(f)
                           /\ f.body \in Bodies /\ f.other \in Others
      /\ \A f, g \in events : f.seq = g.seq => f = g
  BY FS_CardinalityType DEF LogInv, WellFormed, TypeOK
<1>3. changed' \in [field : Fields, seq : Nat] /\ changed' # NoChange
  BY <1>1, <1>2, AuditAssumption DEF Fields
<1>4. WellFormed'
  <2>1. TypeOK'
    BY <1>1, <1>2 DEF TypeOK
  <2>2. IsFiniteSet(events')
    BY <1>1, <1>2, FS_RemoveElement
  <2>. QED
    BY <1>1, <1>2, <1>3, <2>1, <2>2 DEF WellFormed, IsRow
<1>5. Misnumbered'
  <2>. SUFFICES ASSUME e # Last
                PROVE  /\ e.seq >= 1 /\ e.seq \notin Seqs'
                       /\ \E f \in events' : f.seq > e.seq
    BY <1>1 DEF Misnumbered
  <2>1. Last \in events /\ \A f \in events : f.seq <= Last.seq
    BY <1>2, LastRow
  <2>2. Last \in events' /\ Last.seq > e.seq
    BY <1>1, <1>2, <2>1
  <2>3. e.seq >= 1
    BY <1>1, <1>2 DEF LogInv, Intact, Contiguous, Seqs
  <2>4. e.seq \notin Seqs'
    BY <1>1, <1>2 DEF Seqs
  <2>. QED
    BY <2>2, <2>3, <2>4
<1>6. Intact' /\ Edited'
  BY <1>1, <1>3 DEF Intact, Edited
<1>. QED
  BY <1>4, <1>5, <1>6 DEF LogInv

(* a change of the file keeps it so,                                        *)
LEMMA ChangeKeepsLog ==
  ASSUME LogInv, NEW e \in events,
         EditBody(e) \/ EditOther(e) \/ EditPrev(e) \/ EditHash(e) \/ EditSeq(e) \/ Delete(e)
  PROVE  LogInv'
<1>1. e.seq \in Nat /\ e.body \in Bodies /\ e.other \in Others /\ IsRow(e)
  BY DEF LogInv, WellFormed, TypeOK
<1>2. CASE EditBody(e)
  <2>1. PICK b \in Bodies : Replace(e, [e EXCEPT !.body = b], "body")
    BY <1>2 DEF EditBody
  <2>2. PICK new : new = [e EXCEPT !.body = b]
    OBVIOUS
  <2>3. Replace(e, new, "body") /\ new # e
    BY <2>1, <2>2 DEF Replace
  <2>4. /\ IsRow(new) /\ new.body = b /\ new.other = e.other /\ new.seq = e.seq
        /\ new.prev = e.prev /\ new.hash = e.hash
    BY <1>1, <2>2 DEF IsRow
  <2>5. new.body # e.body
    BY <1>1, <2>2, <2>3, <2>4 DEF IsRow
  <2>6. Hashed(e) => ~ Hashed(new)
    BY <2>4, <2>5 DEF Hashed, ComputeHash
  <2>. QED
    BY <1>1, <2>3, <2>4, <2>6, EditKeepsLog
<1>3. CASE EditPrev(e)
  <2>1. PICK h \in Hashes : Replace(e, [e EXCEPT !.prev = h], "prev")
    BY <1>3 DEF EditPrev
  <2>2. PICK new : new = [e EXCEPT !.prev = h]
    OBVIOUS
  <2>3. Replace(e, new, "prev") /\ new # e
    BY <2>1, <2>2 DEF Replace
  <2>4. /\ IsRow(new) /\ new.body = e.body /\ new.other = e.other /\ new.seq = e.seq
        /\ new.prev = h /\ new.hash = e.hash
    BY <1>1, <2>2 DEF IsRow
  <2>5. new.prev # e.prev
    BY <1>1, <2>2, <2>3, <2>4 DEF IsRow
  <2>6. Hashed(e) => ~ Hashed(new)
    BY <2>4, <2>5 DEF Hashed, ComputeHash
  <2>. QED
    BY <1>1, <2>3, <2>4, <2>6, EditKeepsLog
<1>4. CASE EditHash(e)
  <2>1. PICK h \in Hashes : Replace(e, [e EXCEPT !.hash = h], "hash")
    BY <1>4 DEF EditHash
  <2>2. PICK new : new = [e EXCEPT !.hash = h]
    OBVIOUS
  <2>3. Replace(e, new, "hash") /\ new # e
    BY <2>1, <2>2 DEF Replace
  <2>4. /\ IsRow(new) /\ new.body = e.body /\ new.other = e.other /\ new.seq = e.seq
        /\ new.prev = e.prev /\ new.hash = h
    BY <1>1, <2>2 DEF IsRow
  <2>5. new.hash # e.hash
    BY <1>1, <2>2, <2>3, <2>4 DEF IsRow
  <2>6. Hashed(e) => ~ Hashed(new)
    BY <2>4, <2>5 DEF Hashed
  <2>. QED
    BY <1>1, <2>3, <2>4, <2>6, EditKeepsLog
<1>. QED
  BY <1>2, <1>3, <1>4, EditOtherKeepsLog, EditSeqKeepsLog, DeleteKeepsLog

(* and so does every step.                                                  *)
LEMMA LogKept == Spec => []LogInv
<1>1. ASSUME LogInv, [Next]_vars PROVE LogInv'
  <2>1. CASE UNCHANGED vars
    BY <1>1, <2>1
    DEF vars, LogInv, WellFormed, TypeOK, IsRow, Intact, Contiguous, Seqs, Edited, Sound,
        Linked, Hashed, Misnumbered
  <2>2. CASE Next
    BY <1>1, <2>2, AppendKeepsLog, ChangeKeepsLog DEF Next
  <2>. QED
    BY <1>1, <2>1, <2>2
<1>. QED
  BY <1>1, LogStarts, PTL DEF Spec

-------------------------------------------------------------------------------
(* The theorems *)

(* The columns keep their types, and append_event never meets the UNIQUE    *)
(* constraint of sequence_num, whatever was changed or deleted before it.   *)
THEOREM AuditTypeOK == Spec => []TypeOK
<1>1. LogInv => TypeOK
  BY DEF LogInv, WellFormed
<1>. QED
  BY <1>1, LogKept, PTL

(* A log of any length that was only appended to verifies: verify_chain     *)
(* never reports a change that did not happen.                              *)
THEOREM AuditUntouchedVerifies == Spec => []UntouchedVerifies
<1>1. ASSUME LogInv, changed = NoChange
      PROVE  IsValid /\ {e.seq : e \in events} = 1 .. Cardinality(events)
  <2>1. WellFormed /\ Contiguous /\ \A e \in events : Sound(e)
    BY <1>1 DEF LogInv, Intact
  <2>2. \A i \in 1 .. Cardinality(events) : ~ Broken(i)
    BY <2>1, AtNumber, BrokenIsUnsound
  <2>. QED
    BY <2>1, <2>2 DEF IsValid, BrokenRows, Contiguous, Seqs
<1>2. LogInv => UntouchedVerifies
  BY <1>1 DEF UntouchedVerifies
<1>. QED
  BY <1>2, LogKept, PTL

(* An edited row is the first that fails a test of verify_chain.            *)
LEMMA EditedBreaks ==
  ASSUME LogInv, changed # NoChange, changed.field \in {"body", "prev", "hash"}
  PROVE  /\ changed.seq \in BrokenRows /\ RowAt(changed.seq).seq = changed.seq
         /\ \A i \in BrokenRows : changed.seq <= i
<1>1. /\ WellFormed /\ Contiguous
      /\ \A e \in events : e.seq < changed.seq => Sound(e)
  BY DEF LogInv, Edited
<1>2. PICK e \in events : e.seq = changed.seq /\ ~ Hashed(e)
  BY DEF LogInv, Edited
<1>3. changed.seq \in 1 .. Cardinality(events)
  BY <1>1, <1>2 DEF Contiguous, Seqs
<1>4. RowAt(changed.seq) = e
  BY <1>1, <1>2, <1>3, AtNumber
<1>5. changed.seq \in BrokenRows
  BY <1>1, <1>2, <1>3, <1>4, BrokenIsUnsound DEF BrokenRows, Sound
<1>6. \A i \in 1 .. Cardinality(events) : i < changed.seq => ~ Broken(i)
  BY <1>1, AtNumber, BrokenIsUnsound
<1>7. changed.seq \in Nat /\ Cardinality(events) \in Nat
  BY <1>3, FS_CardinalityType DEF LogInv, WellFormed
<1>. QED
  BY <1>2, <1>4, <1>5, <1>6, <1>7 DEF BrokenRows

(* A changed content, link, hash or number, or a deleted row that was not   *)
(* the last, is exposed by verify_chain, however many events were appended  *)
(* before and after.                                                        *)
THEOREM AuditChangeDetected == Spec => []ChangeDetected
<1>1. ASSUME LogInv, changed # NoChange, changed.field \in {"seq", "row"}
      PROVE  ~ IsValid
  <2>. SUFFICES ASSUME IsValid PROVE FALSE
    OBVIOUS
  <2>1. WellFormed /\ Contiguous
    BY <1>1, ValidNumbers DEF LogInv
  <2>2. /\ Cardinality(events) \in Nat /\ changed.seq \in Nat
        /\ Seqs = 1 .. Cardinality(events)
    BY <1>1, <2>1, FS_CardinalityType DEF WellFormed, Contiguous
  <2>3. 0 \notin Seqs
    BY <2>2
  <2>4. changed.seq >= 1 /\ changed.seq \notin Seqs
    BY <1>1, <2>3 DEF LogInv, Misnumbered
  <2>5. PICK e \in events : e.seq > changed.seq
    BY <1>1, <2>3 DEF LogInv, Misnumbered
  <2>6. e.seq \in 1 .. Cardinality(events)
    BY <2>2 DEF Seqs
  <2>. QED
    BY <2>2, <2>4, <2>5, <2>6
<1>2. LogInv => ChangeDetected
  BY <1>1, EditedBreaks DEF ChangeDetected, IsValid
<1>. QED
  BY <1>2, LogKept, PTL

(* And broken_at_sequence names the row whose content, link or hash was     *)
(* changed.                                                                 *)
THEOREM AuditChangeLocated == Spec => []ChangeLocated
<1>1. ASSUME LogInv, changed # NoChange, changed.field \in {"body", "prev", "hash"}
      PROVE  ~ IsValid /\ BrokenAt = changed.seq
  <2>1. /\ changed.seq \in BrokenRows /\ RowAt(changed.seq).seq = changed.seq
        /\ \A i \in BrokenRows : changed.seq <= i
    BY <1>1, EditedBreaks
  <2>2. changed.seq \in Nat /\ \A i \in BrokenRows : i \in Nat
    BY <1>1 DEF LogInv, WellFormed, BrokenRows
  <2>3. (CHOOSE i \in BrokenRows : \A j \in BrokenRows : i <= j) = changed.seq
    BY <2>1, <2>2
  <2>. QED
    BY <2>1, <2>3 DEF IsValid, BrokenAt
<1>2. LogInv => ChangeLocated
  BY <1>1 DEF ChangeLocated
<1>. QED
  BY <1>2, LogKept, PTL

===============================================================================

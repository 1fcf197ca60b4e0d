------------------------------ MODULE AuditChain ------------------------------
(***************************************************************************)
(* The hash-chained audit log (audit/hash_chain.py): append_event, one     *)
(* BEGIN IMMEDIATE transaction, verify_chain, and one change of the table  *)
(* made past the service, which is what the chain is there to expose.      *)
(*                                                                         *)
(* SHA-256 is modelled as injective: the hash of a row is the tuple of what*)
(* is hashed. The columns event_type, entity_id, payload_json and timestamp*)
(* are hashed as one string and are one field here, body; the columns      *)
(* event_id and decision_id are not hashed and are the field other.        *)
(***************************************************************************)
EXTENDS Naturals, FiniteSets

CONSTANTS
  Bodies,     (* hashed contents of an event                               *)
  Others,     (* contents of the columns outside the hash                  *)
  Genesis,    (* AUDIT_GENESIS_HASH                                        *)
  Forged,     (* a hash no event has                                       *)
  NoChange,
  MaxEvents   (* bound: events in the log                                  *)

(* The kinds of change made past the service: to one column, or the deletion*)
(* of the last row or of another.                                           *)
Fields == {"body", "other", "prev", "hash", "seq", "tail", "row"}

ASSUME AuditAssumption ==
  /\ MaxEvents \in Nat /\ Genesis # Forged
  /\ NoChange \notin [field : Fields, seq : Nat]

VARIABLES
  events,     (* the rows of audit_events                                  *)
  changed     (* history: the change made past the service, if any         *)

vars == <<events, changed>>

(* _compute_hash.                                                           *)
ComputeHash(prev, seq, body) == <<prev, seq, body>>

Last == CHOOSE e \in events : \A f \in events : f.seq <= e.seq

-------------------------------------------------------------------------------
(* append_event: the last row is read and the new one inserted in one       *)
(* transaction.                                                             *)
Row(seq, prev, body, other) ==
  [seq |-> seq, prev |-> prev, body |-> body, other |-> other,
   hash |-> ComputeHash(prev, seq, body)]

(* Mutants: the sequence number counts the rows; the link is never set.     *)
NextRowCounted(body, other) ==
  IF events = {} THEN Row(1, Genesis, body, other)
                 ELSE Row(Cardinality(events) + 1, Last.hash, body, other)
NextRowUnlinked(body, other) ==
  IF events = {} THEN Row(1, Genesis, body, other)
                 ELSE Row(Last.seq + 1, Genesis, body, other)

NextRow(body, other) ==
  IF events = {} THEN Row(1, Genesis, body, other)
                 ELSE Row(Last.seq + 1, Last.hash, body, other)

Append(body, other) ==
  /\ Cardinality(events) < MaxEvents
  /\ events' = events \cup {NextRow(body, other)}
  /\ UNCHANGED changed

(* Someone with access to the database changes one column of one row, or    *)
(* deletes a row; sequence_num is UNIQUE.                                   *)
Hashes == {Forged, Genesis} \cup {e.hash : e \in events}
Replace(e, new, field) ==
  /\ changed = NoChange
  /\ new # e
  /\ events' = (events \ {e}) \cup {new}
  /\ changed' = [field |-> field, seq |-> e.seq]

EditBody(e)  == \E b \in Bodies : Replace(e, [e EXCEPT !.body = b], "body")
EditOther(e) == \E o \in Others : Replace(e, [e EXCEPT !.other = o], "other")
EditPrev(e)  == \E h \in Hashes : Replace(e, [e EXCEPT !.prev = h], "prev")
EditHash(e)  == \E h \in Hashes : Replace(e, [e EXCEPT !.hash = h], "hash")
EditSeq(e)   ==
  \E n \in (0 .. MaxEvents + 1) \ {f.seq : f \in events} :
    Replace(e, [e EXCEPT !.seq = n], "seq")
Delete(e) ==
  /\ changed = NoChange
  /\ events' = events \ {e}
  /\ changed' = [field |-> IF e = Last THEN "tail" ELSE "row", seq |-> e.seq]

Init == events = {} /\ changed = NoChange

Next ==
  \/ \E body \in Bodies, other \in Others : Append(body, other)
  \/ \E e \in events :
       EditBody(e) \/ EditOther(e) \/ EditPrev(e) \/ EditHash(e) \/ EditSeq(e) \/ Delete(e)

Spec == Init /\ [][Next]_vars

-------------------------------------------------------------------------------
(* verify_chain: the rows in order of sequence_num, and the three tests made*)
(* of each.                                                                 *)
Position(e) == Cardinality({f \in events : f.seq <= e.seq})
RowAt(i) == CHOOSE e \in events : Position(e) = i

ExpectedPrev(i) == IF i = 1 THEN Genesis ELSE RowAt(i - 1).hash

(* Mutant: the hash of a row is not recomputed.                             *)
BrokenLinkOnly(i) ==
  \/ RowAt(i).seq # i
  \/ RowAt(i).prev # ExpectedPrev(i)

Broken(i) ==
  \/ RowAt(i).seq # i
  \/ RowAt(i).prev # ExpectedPrev(i)
  \/ RowAt(i).hash # ComputeHash(RowAt(i).prev, RowAt(i).seq, RowAt(i).body)

BrokenRows == {i \in 1 .. Cardinality(events) : Broken(i)}
IsValid == BrokenRows = {}
(* Mutant: the walk goes on after the first broken row.                     *)
BrokenAtLast == RowAt(CHOOSE i \in BrokenRows : \A j \in BrokenRows : j <= i).seq
(* broken_at_sequence.                                                      *)
BrokenAt == RowAt(CHOOSE i \in BrokenRows : \A j \in BrokenRows : i <= j).seq

(* The columns have their types, and no append ever meets the UNIQUE        *)
(* constraint of sequence_num, whatever was changed or deleted before.      *)
TypeOK ==
  /\ \A e \in events : /\ e.seq \in Nat
                       /\ e.body \in Bodies /\ e.other \in Others
  /\ \A e, f \in events : e.seq = f.seq => e = f

(* A log that was only appended to verifies, and no number is missing or    *)
(* used twice.                                                              *)
UntouchedVerifies ==
  changed = NoChange =>
    /\ IsValid
    /\ {e.seq : e \in events} = 1 .. Cardinality(events)

(* A change of any hashed column, of a link, of a sequence number, or the   *)
(* deletion of a row that was not the last, is exposed by verify_chain, at  *)
(* once and after every later append.                                       *)
ChangeDetected ==
  changed # NoChange /\ changed.field \in {"body", "prev", "hash", "seq", "row"} =>
    ~ IsValid

(* And the verifier names the very row whose content or links were changed. *)
ChangeLocated ==
  changed # NoChange /\ changed.field \in {"body", "prev", "hash"} =>
    ~ IsValid /\ BrokenAt = changed.seq

===============================================================================

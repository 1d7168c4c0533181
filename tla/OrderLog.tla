------------------------------ MODULE OrderLog ------------------------------
(***************************************************************************)
(* The plaintext logs of provider orders, sideshift-shifts.json and        *)
(* giftcard-orders.json: a list of records, newest first, at most          *)
(* MaxStored long, read and rewritten as a whole under the store's mutex.  *)
(***************************************************************************)
EXTENDS Naturals, Sequences, SequencesExt

CONSTANT MaxStored  \* MAX_STORED_SHIFTS, MAX_STORED_ORDERS

ASSUME StoredAssumption == MaxStored \in Nat \ {0}

Logged(log) == {log[i].id : i \in DOMAIN log}
RecordOf(log, id) == CHOOSE r \in ToSet(log) : r.id = id

\* writeShifts, writeOrders: what is past the limit is cut off.
Cut(log) == SubSeq(log, 1, IF Len(log) < MaxStored THEN Len(log) ELSE MaxStored)

\* The log without the record of that id, which it holds once at most.
Rest(log, id) ==
  IF id \in Logged(log) THEN RemoveAt(log, CHOOSE i \in DOMAIN log : log[i].id = id) ELSE log

\* save: upsert by id, to the front.
Save(log, rec) == Cut(<<rec>> \o Rest(log, rec.id))

\* update: merge a patch into the record of that id, which may be absent.
Merge(log, id, status) ==
  [i \in DOMAIN log |-> IF log[i].id = id THEN [log[i] EXCEPT !.status = status] ELSE log[i]]
=============================================================================

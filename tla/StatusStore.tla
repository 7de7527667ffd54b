----------------------------- MODULE StatusStore -----------------------------
(***************************************************************************)
(* ProgramStatusStore (ts/program_status_store.ts) and the status bar that *)
(* renders it (ts/status_bar.ts).                                          *)
(*                                                                         *)
(* A store is the Map of the code: the records in the order in which their *)
(* ids were inserted.  An id is a path, a sequence of segments; a report   *)
(* has the fields of a record, or the state "clear".                       *)
(***************************************************************************)
EXTENDS Naturals, Sequences, SequencesExt, Functions

CONSTANT MaxRecords  \* MAX_PROGRAM_STATUS_RECORDS

ASSUME StoreAssumption == MaxRecords \in Nat \ {0}

NoApp == ""
Indeterminate == 0

Transient(r) == r.state \in {"working", "blocked"}
Settled(r) == r.state \in {"done", "error"}

Ids(store) == {store[i].id : i \in DOMAIN store}
RecordOf(store, id) == store[CHOOSE i \in DOMAIN store : store[i].id = id]

-----------------------------------------------------------------------------
Prompt(store) == SelectSeq(store, LAMBDA r : ~Transient(r))
Exit(store) == SelectSeq(store, LAMBDA r : ~Transient(r))
DismissSettled(store) == SelectSeq(store, LAMBDA r : ~Settled(r))
ClearSubtree(store, path) == SelectSeq(store, LAMBDA r : ~IsPrefix(path, r.id))

Record(report, now) ==
  [id |-> report.id, state |-> report.state, app |-> report.app,
   progress |-> IF Transient(report) THEN report.progress ELSE Indeterminate,
   updatedAt |-> now]

(* Map.set: an id that is there keeps its place. *)
Set(store, r) ==
  IF r.id \in Ids(store)
  THEN [i \in DOMAIN store |-> IF store[i].id = r.id THEN r ELSE store[i]]
  ELSE Append(store, r)

(* The first in the Map's order of those with the oldest time. *)
EvictOldest(store, keep) ==
  LET older(i, j) == store[i].updatedAt < store[j].updatedAt
      others == {i \in DOMAIN store : store[i].id # keep}
      oldest == CHOOSE i \in others :
        \A j \in others \ {i} : older(i, j) \/ (~older(j, i) /\ i < j)
  IN SelectSeq(store, LAMBDA r : r.id # store[oldest].id)

Apply(store, report, now) ==
  IF report.state = "clear" THEN ClearSubtree(store, report.id)
  ELSE LET set == Set(store, Record(report, now))
       IN IF Len(set) > MaxRecords THEN EvictOldest(set, report.id) ELSE set

(* resolveApp: the app of the nearest ancestor-or-self that names one. *)
EffectiveApp(store, id) ==
  LET named == {n \in 0 .. Len(id) :
                  \E r \in Range(store) : r.id = SubSeq(id, 1, n) /\ r.app # NoApp}
  IN IF named = {} THEN NoApp
     ELSE RecordOf(store, SubSeq(id, 1, CHOOSE n \in named : \A m \in named : m <= n)).app

-----------------------------------------------------------------------------
(* The bar: an element per id, with the signature it was built for. *)
Blank == [id \in {} |-> Indeterminate]

(* Fault: the signature has the record's own app only. *)
SignatureOfRecord(store, r) == <<r.state, r.app>>

Signature(store, r) == <<r.state, EffectiveApp(store, r.id)>>

(* A signature that has not changed keeps its element; setProgress updates it. *)
Render(entries, store) ==
  [id \in Ids(store) |->
     LET r == RecordOf(store, id)
     IN IF id \in DOMAIN entries /\ entries[id].signature = Signature(store, r)
        THEN [entries[id] EXCEPT !.progress = r.progress]
        ELSE [signature |-> Signature(store, r), progress |-> r.progress,
              shows |-> <<r.state, EffectiveApp(store, id)>>]]
=============================================================================

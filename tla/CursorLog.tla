------------------------------ MODULE CursorLog ------------------------------
(***************************************************************************)
(* What the segment table of the scanner promises to the readers of        *)
(* GET /api/scanner/segments, without sessions, sequence windows,          *)
(* transactions or crashes.  Items are stored durably; stored items get a  *)
(* cursor in batches; a cursor never changes, is never shared, and lies    *)
(* above the cursor of every item still in the table.  Items may expire.   *)
(***************************************************************************)
EXTENDS Naturals

CONSTANT Item

VARIABLES stored,   \* the items in the table
          cursor    \* cursor[i] is 0 until item i is published

vars == <<stored, cursor>>

Init == /\ stored = {}
        /\ cursor = [i \in Item |-> 0]

Unpublished(i) == i \in stored /\ cursor[i] = 0

(* An item becomes durable before any reader can see it.                   *)
Store(i) == /\ i \notin stored
            /\ stored' = stored \cup {i}
            /\ UNCHANGED cursor

(* A batch of stored items gets fresh cursors above every present cursor.  *)
Publish ==
  /\ UNCHANGED stored
  /\ cursor' \in [Item -> Nat]
  /\ \A i \in Item :
       IF Unpublished(i)
         THEN cursor'[i] = 0 \/ \A j \in Item : cursor[j] < cursor'[i]
         ELSE cursor'[i] = cursor[i]
  /\ \A i, j \in Item : i # j /\ cursor'[i] # 0 => cursor'[i] # cursor'[j]

(* Retention removes items, published or not, and touches no other.        *)
Expire == /\ stored' \subseteq stored
          /\ cursor' = [i \in Item |-> IF i \in stored' THEN cursor[i] ELSE 0]

Next == \/ \E i \in Item : Store(i)
        \/ Publish
        \/ Expire

Spec == Init /\ [][Next]_vars
=============================================================================

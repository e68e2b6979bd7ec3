---------------------------- MODULE OrdersProofs ----------------------------
(***************************************************************************)
(* For any set of orders: the child of an order is where its parent is,    *)
(* but for the order filled in one go in a build without assertions.       *)
(***************************************************************************)
EXTENDS Orders, TLAPS

Inv == TypeOK /\ ChildFollowsParent

\* The states, events and rows of both tables are of their sets.
LEMMA TableTypes ==
  /\ \A r \in ParentTable : r.start \in States /\ r.event \in Events /\ r.next \in States
  /\ \A r \in ChildTable : r.start \in States /\ r.event \in Events /\ r.next \in States
BY DEF ParentTable, ChildTable, Row, States, Events

\* A row of the parent that its child has a row for keeps the two together.
LEMMA RowsAgree ==
  ASSUME NEW p \in ParentTable, NEW c \in ChildTable, p.event = c.event,
         c.start = Agreed(p.start)
  PROVE  c.next = Agreed(p.next)
BY DEF ParentTable, ChildTable, Row, Agreed

\* The only row of the parent whose event goes to a child that agrees with it
\* and has no row for it is the one from Pending to Filled.
LEMMA OnlyFillIsMissed ==
  ASSUME NEW p \in ParentTable, Forwards(p.event),
         ~Handles(ChildTable, Agreed(p.start), p.event)
  PROVE  p.start = "Pending" /\ p.next = "Filled"
<1>1. Row("New", "PartialFill", "PartiallyFilled") \in ChildTable
      /\ Row("PartiallyFilled", "Fill", "Filled") \in ChildTable
      /\ Row("New", "Cancel", "Cancelled") \in ChildTable
  BY DEF ChildTable
<1>2. /\ Handles(ChildTable, "New", "PartialFill")
      /\ Handles(ChildTable, "PartiallyFilled", "Fill")
      /\ Handles(ChildTable, "New", "Cancel")
  BY <1>1 DEF Handles, Row
<1> QED
  BY <1>2 DEF ParentTable, Row, Agreed, Forwards

\* No row starts where an order is finished.
LEMMA NoRowFromFinal ==
  \A p \in ParentTable : p.start # "Filled" /\ p.start # "Cancelled"
BY DEF ParentTable, Row

\* A submitted order has no row to Cancelled, and its child, which is where the
\* parent is, takes no Cancel either.
LEMMA NoLateCancel ==
  \A p \in ParentTable : p.start # "New" => p.next # "Cancelled" /\ p.event # "Cancel"
BY DEF ParentTable, Row

\* process_event keeps the invariant: one case per outcome of a row.
LEMMA StepKeepsInv ==
  ASSUME Inv, NEW o \in Orders, NEW event \in Events, process_event(o, event)
  PROVE  Inv'
<1> USE DEF Inv
<1>1. CASE no_transition
  BY <1>1 DEF process_event, no_transition, TypeOK, ChildFollowsParent
<1>2. ASSUME NEW row \in ParentTable, row.start = parent[o], Take(o, row)
      PROVE  Inv'
  <2>1. build' = build
    BY DEF process_event
  <2>2. row.next \in States /\ row.start \in States
    BY TableTypes
  <2>3. child[o] = Agreed(row.start)
    BY <1>2, NoRowFromFinal DEF ChildFollowsParent
  <2>4. CASE ~Forwards(row.event) /\ parent' = [parent EXCEPT ![o] = row.next]
             /\ UNCHANGED <<child, aborted>>
    <3>1. row.start = "New" /\ row.next = "Pending"
      BY <2>4 DEF ParentTable, Row, Forwards
    <3>2. Agreed(row.next) = Agreed(row.start)
      BY <3>1 DEF Agreed
    <3> QED
      BY <2>1, <2>2, <2>3, <2>4, <3>2 DEF TypeOK, ChildFollowsParent
  <2>5. ASSUME NEW c \in ChildTable, c.start = child[o], c.event = row.event,
               child' = [child EXCEPT ![o] = c.next],
               parent' = [parent EXCEPT ![o] = row.next], UNCHANGED aborted
        PROVE  Inv'
    <3>1. c.next = Agreed(row.next)
      BY <2>3, <2>5, RowsAgree
    <3>2. c.next \in States
      BY TableTypes
    <3> QED
      BY <2>1, <2>2, <2>5, <3>1, <3>2 DEF TypeOK, ChildFollowsParent
  <2>6. CASE /\ Forwards(row.event) /\ ~Handles(ChildTable, child[o], row.event)
             /\ build # "debug"
             /\ parent' = [parent EXCEPT ![o] = row.next]
             /\ UNCHANGED <<child, aborted>>
    <3>1. row.start = "Pending" /\ row.next = "Filled"
      BY <2>3, <2>6, OnlyFillIsMissed
    <3>2. child[o] = "New"
      BY <2>3, <3>1 DEF Agreed
    <3>3. build = "release"
      BY <2>6 DEF TypeOK
    <3> QED
      BY <2>1, <2>2, <2>6, <3>1, <3>2, <3>3 DEF TypeOK, ChildFollowsParent
  <2> QED
    BY <1>1, <1>2, <2>4, <2>5, <2>6 DEF Take
<1> QED
  BY <1>1, <1>2 DEF process_event

\* Any number of orders, with any sequence of events: a child is where its
\* parent is, unless the order was filled in one go in a release build.
THEOREM OrdersAgree == Spec => [](TypeOK /\ ChildFollowsParent)
<1>1. Init => Inv
  BY DEF Init, Inv, TypeOK, ChildFollowsParent, Agreed, States
<1>2. Inv /\ [Next]_vars => Inv'
  <2>1. ASSUME Inv, Next PROVE Inv'
    BY <2>1, StepKeepsInv DEF Next
  <2>2. ASSUME Inv, UNCHANGED vars PROVE Inv'
    BY <2>2 DEF Inv, vars, TypeOK, ChildFollowsParent
  <2> QED BY <2>1, <2>2
<1> QED
  BY <1>1, <1>2, PTL DEF Spec, Inv

\* A step of process_event leaves a finished order alone, and never cancels one
\* that was submitted.
LEMMA StepKeepsFinal ==
  ASSUME Inv, NEW q \in Orders, NEW event \in Events, process_event(q, event),
         NEW o \in Orders
  PROVE  /\ parent[o] \in {"Filled", "Cancelled"}
              => parent'[o] = parent[o] /\ child'[o] = child[o]
         /\ parent[o] # "New" /\ parent[o] # "Cancelled"
              => parent'[o] # "Cancelled" /\ child'[o] # "Cancelled"
<1>0. Inv'
  BY StepKeepsInv
<1>1. \/ UNCHANGED <<parent, child>>
      \/ \E row \in ParentTable :
           /\ row.start = parent[q]
           /\ parent' = [parent EXCEPT ![q] = row.next]
           /\ \/ UNCHANGED child
              \/ \E c \in States : child' = [child EXCEPT ![q] = c]
  BY TableTypes DEF process_event, no_transition, Take
<1>2. CASE UNCHANGED <<parent, child>>
  <2>1. parent[o] # "Cancelled" => child[o] # "Cancelled"
    BY DEF Inv, TypeOK, ChildFollowsParent, Agreed
  <2> QED BY <1>2, <2>1
<1>3. ASSUME NEW row \in ParentTable, row.start = parent[q],
             parent' = [parent EXCEPT ![q] = row.next],
             \/ UNCHANGED child
             \/ \E c \in States : child' = [child EXCEPT ![q] = c]
      PROVE /\ parent[o] \in {"Filled", "Cancelled"}
                 => parent'[o] = parent[o] /\ child'[o] = child[o]
            /\ parent[o] # "New" /\ parent[o] # "Cancelled"
                 => parent'[o] # "Cancelled" /\ child'[o] # "Cancelled"
  <2>1. parent[q] # "Filled" /\ parent[q] # "Cancelled"
    BY <1>3, NoRowFromFinal
  <2>2. parent[q] # "New" => row.next # "Cancelled"
    BY <1>3, NoLateCancel
  <2>3. parent[o] # "New" /\ parent[o] # "Cancelled" => parent'[o] # "Cancelled"
    BY <1>3, <2>2 DEF Inv, TypeOK
  <2>4. parent'[o] # "Cancelled" => child'[o] # "Cancelled"
    BY <1>0 DEF Inv, TypeOK, ChildFollowsParent, Agreed
  <2>5. parent[o] \in {"Filled", "Cancelled"} => o # q
    BY <2>1
  <2>6. o # q => parent'[o] = parent[o] /\ child'[o] = child[o]
    BY <1>3 DEF Inv, TypeOK
  <2> QED BY <2>3, <2>4, <2>5, <2>6
<1> QED
  BY <1>1, <1>2, <1>3

\* No order leaves Filled or Cancelled, and no submitted order is cancelled.
THEOREM OrdersFinal == Spec => FinalStays
<1> DEFINE Step == \A o \in Orders :
       /\ parent[o] \in {"Filled", "Cancelled"}
            => parent'[o] = parent[o] /\ child'[o] = child[o]
       /\ parent[o] # "New" /\ parent[o] # "Cancelled"
            => parent'[o] # "Cancelled" /\ child'[o] # "Cancelled"
<1>1. Inv /\ [Next]_vars => [Step]_vars
  <2>1. ASSUME Inv, Next PROVE Step
    BY <2>1, StepKeepsFinal DEF Next
  <2> QED BY <2>1
<1>2. Spec => []Inv
  BY OrdersAgree DEF Inv
<1> QED
  BY <1>1, <1>2, PTL DEF Spec, FinalStays

=============================================================================

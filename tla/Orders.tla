------------------------------- MODULE Orders -------------------------------
(***************************************************************************)
(* engine/sm/StateMachine.h: the parent orders of one process, each with   *)
(* the state machine of its child order inside, which gets the events that *)
(* the parent's actions forward.                                           *)
(*                                                                         *)
(* External: the back end of Boost MSM.  It runs a row's action before it  *)
(* changes the state, and an event without a row goes to no_transition,    *)
(* which asserts false: the process ends, or with NDEBUG nothing happens.  *)
(***************************************************************************)
CONSTANTS Orders

Events == {"Submit", "PartialFill", "Fill", "Cancel"}

Row(start, event, next) == [start |-> start, event |-> event, next |-> next]

\* transition_table of ChildOrderStateMachine_.
ChildTable == {Row("New", "PartialFill", "PartiallyFilled"),
               Row("PartiallyFilled", "Fill", "Filled"),
               Row("New", "Cancel", "Cancelled")}

\* Slip: a partially filled order can be cancelled; its child has no row for it.
ParentTableLateCancel == {Row("New", "Submit", "Pending"),
                          Row("Pending", "PartialFill", "PartiallyFilled"),
                          Row("PartiallyFilled", "Fill", "Filled"),
                          Row("PartiallyFilled", "Cancel", "Cancelled"),
                          Row("Pending", "Fill", "Filled"),
                          Row("New", "Cancel", "Cancelled")}

\* transition_table of ParentOrderStateMachine_.
ParentTable == {Row("New", "Submit", "Pending"),
                Row("Pending", "PartialFill", "PartiallyFilled"),
                Row("PartiallyFilled", "Fill", "Filled"),
                Row("Pending", "Fill", "Filled"),
                Row("New", "Cancel", "Cancelled")}

\* The actions sprint_pf, sprint_f and sprint_c forward, sprint_ack does not.
Forwards(event) == event # "Submit"

VARIABLES build,    \* "debug", or "release" with NDEBUG
          parent, child,
          aborted   \* an assertion has ended the process

vars == <<build, parent, child, aborted>>

Init == /\ build \in {"debug", "release"}
        /\ parent = [o \in Orders |-> "New"]
        /\ child = [o \in Orders |-> "New"]
        /\ aborted = FALSE

Handles(table, state, event) == \E r \in table : r.start = state /\ r.event = event

\* no_transition, of the parent's machine or of the child's.
no_transition == aborted' = (build = "debug") /\ UNCHANGED <<parent, child>>

\* Slip: the parent changes its state before the child is told.
TakeParentFirst(o, row) ==
  /\ parent' = [parent EXCEPT ![o] = row.next]
  /\ \/ ~Forwards(row.event) /\ UNCHANGED <<child, aborted>>
     \/ /\ Forwards(row.event)
        /\ \E c \in ChildTable : /\ c.start = child[o] /\ c.event = row.event
                                 /\ child' = [child EXCEPT ![o] = c.next]
        /\ UNCHANGED aborted
     \/ /\ Forwards(row.event) /\ ~Handles(ChildTable, child[o], row.event)
        /\ aborted' = (build = "debug")
        /\ UNCHANGED child

\* A row of the parent: its action, with the child's part, and the new state.
Take(o, row) ==
  \/ /\ ~Forwards(row.event)
     /\ parent' = [parent EXCEPT ![o] = row.next]
     /\ UNCHANGED <<child, aborted>>
  \/ /\ Forwards(row.event)
     /\ \E c \in ChildTable :
          /\ c.start = child[o] /\ c.event = row.event
          /\ child' = [child EXCEPT ![o] = c.next]
     /\ parent' = [parent EXCEPT ![o] = row.next]
     /\ UNCHANGED aborted
  \/ /\ Forwards(row.event) /\ ~Handles(ChildTable, child[o], row.event)
     /\ IF build = "debug"
        THEN no_transition
        ELSE /\ parent' = [parent EXCEPT ![o] = row.next]
             /\ UNCHANGED <<child, aborted>>

process_event(o, event) ==
  /\ ~aborted
  /\ IF Handles(ParentTable, parent[o], event)
     THEN \E row \in ParentTable :
            row.start = parent[o] /\ row.event = event /\ Take(o, row)
     ELSE no_transition
  /\ UNCHANGED build

Next == \E o \in Orders, event \in Events : process_event(o, event)

Spec == Init /\ [][Next]_vars

-----------------------------------------------------------------------------
States == {"New", "Pending", "PartiallyFilled", "Filled", "Cancelled"}

\* The state of a child whose parent is in a state: it knows of no Pending.
Agreed(state) == IF state = "Pending" THEN "New" ELSE state

\* States are states of the tables, and only an assertion ends the process.
TypeOK == /\ build \in {"debug", "release"} /\ aborted \in BOOLEAN
          /\ parent \in [Orders -> States] /\ child \in [Orders -> States]
          /\ aborted => build = "debug"

\* The child is where its parent is, but for one case: an order filled in one
\* go has a child that is New for ever, since no row of it takes the Fill; and
\* that only without assertions, which else end the process before the parent
\* changes.
ChildFollowsParent ==
  \A o \in Orders :
    \/ child[o] = Agreed(parent[o])
    \/ build = "release" /\ parent[o] = "Filled" /\ child[o] = "New"

\* No order leaves Filled or Cancelled, and none that was submitted is ever
\* cancelled, neither by way of the parent nor by way of the child.
FinalStays ==
  [][\A o \in Orders :
       /\ parent[o] \in {"Filled", "Cancelled"}
            => parent'[o] = parent[o] /\ child'[o] = child[o]
       /\ parent[o] # "New" /\ parent[o] # "Cancelled"
            => parent'[o] # "Cancelled" /\ child'[o] # "Cancelled"]_vars

=============================================================================

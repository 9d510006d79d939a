---------------------------- MODULE SerialQueue ----------------------------
(***************************************************************************)
(* What an FTPQueue promises to the rest of the plug-in: operations become *)
(* active one at a time and in the order in which they were accepted; an   *)
(* operation that is gone (performed, withdrawn or refused) never comes    *)
(* back.                                                                   *)
(***************************************************************************)
EXTENDS Naturals, Sequences, SequencesExt

CONSTANTS Ops, NullOp

VARIABLES waiting, active, gone

vars == <<waiting, active, gone>>


Init == waiting = <<>> /\ active = NullOp /\ gone = {}

Accept(o) ==
  /\ o \notin gone \cup ToSet(waiting) \cup {active}
  /\ waiting' = Append(waiting, o)
  /\ UNCHANGED <<active, gone>>

\* An operation is refused before it waits.
Refuse(o) ==
  /\ o \notin gone \cup ToSet(waiting) \cup {active}
  /\ gone' = gone \cup {o}
  /\ UNCHANGED <<waiting, active>>

Activate ==
  /\ active = NullOp /\ waiting # <<>>
  /\ active' = Head(waiting) /\ waiting' = Tail(waiting)
  /\ UNCHANGED gone

Retire ==
  /\ active # NullOp
  /\ gone' = gone \cup {active}
  /\ active' = NullOp
  /\ UNCHANGED waiting

\* One waiting operation is withdrawn, the others keep their order.
Withdraw(i) ==
  /\ waiting' = RemoveAt(waiting, i)
  /\ gone' = gone \cup {waiting[i]}
  /\ UNCHANGED active

WithdrawAll ==
  /\ waiting' = <<>>
  /\ gone' = gone \cup ToSet(waiting)
  /\ UNCHANGED active

Next ==
  \/ \E o \in Ops : Accept(o) \/ Refuse(o)
  \/ Activate \/ Retire \/ WithdrawAll
  \/ \E i \in 1..Len(waiting) : Withdraw(i)

Spec == Init /\ [][Next]_vars
=============================================================================

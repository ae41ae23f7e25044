------------------------------- MODULE Deque -------------------------------
(***************************************************************************)
(* What RingBuffer promises: an unbounded double-ended queue.  `ret` is    *)
(* what the last PopFront returned: the value and the ok flag.             *)
(***************************************************************************)
EXTENDS Naturals, Sequences

CONSTANTS Values,       \* what may be stored
          Zero          \* the zero value of the element type

VARIABLES items, ret

Init == items = <<>> /\ ret = [data |-> Zero, ok |-> FALSE]

PushBack(v) == items' = Append(items, v) /\ UNCHANGED ret

PushFront(v) == items' = <<v>> \o items /\ UNCHANGED ret

PopFront == \/ /\ items = <<>>
               /\ ret' = [data |-> Zero, ok |-> FALSE]
               /\ UNCHANGED items
            \/ /\ items # <<>>
               /\ ret' = [data |-> Head(items), ok |-> TRUE]
               /\ items' = Tail(items)

Next == (\E v \in Values : PushBack(v) \/ PushFront(v)) \/ PopFront

Spec == Init /\ [][Next]_<<items, ret>>
=============================================================================

---------------------------- MODULE FifoHandoff ----------------------------
(***************************************************************************)
(* What asyncWrite and pollSyncOpt promise to their callers: items that    *)
(* goroutines hand over are consumed by the evPoll goroutine one at a      *)
(* time, each exactly once, in the order in which they were handed over.   *)
(* Nothing is said about how the two sides synchronise.                    *)
(***************************************************************************)
EXTENDS Naturals, Sequences

CONSTANT Items          \* everything that may ever be handed over

VARIABLES sent,         \* items in the order of acceptance
          delivered     \* items in the order of consumption

Init == sent = <<>> /\ delivered = <<>>

Send(item) == /\ sent' = Append(sent, item)
              /\ UNCHANGED delivered

Deliver == /\ Len(delivered) < Len(sent)
           /\ delivered' = Append(delivered, sent[Len(delivered) + 1])
           /\ UNCHANGED sent

Next == \/ \E item \in Items : Send(item)
        \/ Deliver

Spec == Init /\ [][Next]_<<sent, delivered>>
=============================================================================

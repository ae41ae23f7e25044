------------------------------ MODULE MCEvPoll ------------------------------
(* EvPoll for TLC: the ways of using the reactor that the runs look at. *)
EXTENDS EvPoll, TLC

HandlerSymmetry == Permutations(Handlers)

ArrFds == {fd \in Fds : InArr(fd)}

(* Connections accepted by another goroutine; and connections accepted by the
   same evPoll, with timers closing descriptors of the array.  Registration may
   fail for descriptors beyond the array. *)
SoundSetups ==
  {[sameLoop |-> FALSE, expiring |-> {}, failing |-> Fds \ ArrFds],
   [sameLoop |-> TRUE, expiring |-> ArrFds, failing |-> Fds \ ArrFds]}
=============================================================================

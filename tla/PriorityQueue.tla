---------------------------- MODULE PriorityQueue ----------------------------
(***************************************************************************)
(* The array operations with which the editor's queues keep themselves in  *)
(* priority order: TaskScheduler.pendingQueue and                          *)
(* AgentCoordinator.pendingQueue share the same insertByPriority.  A queue *)
(* is a sequence of ids, "weight" the function from ids to the numbers of  *)
(* priorityWeight().                                                       *)
(***************************************************************************)
EXTENDS SequencesExt

(* priorityWeight: the order of the four AgentPriority values. *)
PriorityWeight == [low |-> 1, normal |-> 2, high |-> 3, critical |-> 4]

(* insertByPriority: in front of the first entry of strictly lower weight, *)
(* at the end when there is none.                                          *)
InsertByPriority(queue, id, weight) ==
  LET idx == SelectInSeq(queue, LAMBDA other : weight[other] < weight[id])
  IN  IF idx = 0 THEN Append(queue, id) ELSE InsertAt(queue, idx, id)

(* What is left of queue when every member of taken has been spliced out.  *)
(* (A recursive function rather than SelectSeq: the proofs unfold it.)     *)
Without(queue, taken) ==
  LET left[i \in 0 .. Len(queue)] ==
        IF i = 0 THEN << >>
        ELSE IF queue[i] \in taken THEN left[i - 1]
        ELSE Append(left[i - 1], queue[i])
  IN  left[Len(queue)]

(* No entry stands behind one of lower weight. *)
SortedByPriority(queue, weight) ==
  \A i, j \in DOMAIN queue : i < j => weight[queue[i]] >= weight[queue[j]]
==============================================================================

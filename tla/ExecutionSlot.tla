---------------------------- MODULE ExecutionSlot ----------------------------
(***************************************************************************)
(* What the work queue promises, without its states, versions, priorities  *)
(* and checkpoints: every workflow has one execution slot; an item takes a *)
(* free slot only when everything it depends on is done, is never taken    *)
(* out by another item, and once it is done it never takes the slot again. *)
(***************************************************************************)
CONSTANTS Workflows, Items, wfOf, deps, NoItem

VARIABLES
    slot,           \* per workflow: the item being executed, or NoItem
    done            \* the items that are done

slotVars == <<slot, done>>

SlotInit ==
    /\ slot = [w \in Workflows |-> NoItem]
    /\ done = {}

MayProceed(i) == i \notin done /\ deps[i] \subseteq done

Acquire(i) ==
    /\ MayProceed(i)
    /\ slot[wfOf[i]] = NoItem
    /\ slot' = [slot EXCEPT ![wfOf[i]] = i]
    /\ UNCHANGED done

\* The item is blocked and frees the slot.
Release(w) ==
    /\ slot[w] # NoItem
    /\ slot' = [slot EXCEPT ![w] = NoItem]
    /\ UNCHANGED done

\* An item may also be done without the slot: a blocked one that was resolved.
Finish(i) ==
    /\ MayProceed(i)
    /\ done' = done \cup {i}
    /\ slot' = [slot EXCEPT ![wfOf[i]] = IF @ = i THEN NoItem ELSE @]

SlotNext ==
    \/ \E i \in Items : Acquire(i) \/ Finish(i)
    \/ \E w \in Workflows : Release(w)

SlotSpec == SlotInit /\ [][SlotNext]_slotVars
=============================================================================

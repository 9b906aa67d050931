--------------------------- MODULE AttachmentLife ---------------------------
(* The promise of note attachments: what a client may conclude from a       *)
(* status it has seen.                                                       *)
CONSTANT Items
VARIABLE life

Fates == {"none", "pending", "available", "rejected", "removed"}

Init == life = [i \in Items |-> "none"]

Move(i, from, to) ==
    /\ life[i] = from
    /\ life' = [life EXCEPT ![i] = to]

Begin(i)   == Move(i, "none", "pending")
Publish(i) == Move(i, "pending", "available")
Refuse(i)  == Move(i, "pending", "rejected")
Remove(S) ==
    /\ S # {} /\ \A i \in S : life[i] \in {"pending", "available", "rejected"}
    /\ life' = [i \in Items |-> IF i \in S THEN "removed" ELSE life[i]]

Next ==
    \/ \E i \in Items : Begin(i) \/ Publish(i) \/ Refuse(i)
    \/ \E S \in SUBSET Items : Remove(S)

Spec == Init /\ [][Next]_life
=============================================================================

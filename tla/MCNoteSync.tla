----------------------------- MODULE MCNoteSync -----------------------------
(* Two partners and a note of one character.                               *)
EXTENDS NoteSync, TLC

CONSTANTS ana, ben

MCClients == {ana, ben}
Blank == <<>>
OneCharacter == << <<"note", 1>> >>

\* Both editors are open and have handled their first snapshot.
InitOpen ==
    /\ history = <<InitialBody>> /\ operations = <<>>
    /\ task = [c \in Clients |-> [at |-> "running"]]
    /\ down = [c \in Clients |-> <<>>]
    /\ phone = [c \in Clients |-> [Selected EXCEPT !.linked = TRUE, !.ready = TRUE]]
    /\ edited = [c \in Clients |-> 0] /\ typed = [c \in Clients |-> {}]
    /\ erased = {} /\ breaks = 0

SpecOpen == InitOpen /\ [][Next]_vars

Partners == Permutations(MCClients)
=============================================================================

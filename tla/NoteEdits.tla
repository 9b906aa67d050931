------------------------------ MODULE NoteEdits ------------------------------
(***************************************************************************)
(* The operational transformation of shared notes, domain/notes.py: edits  *)
(* at Unicode code-point positions, their application to a body and the    *)
(* transformation of an incoming edit against one that was applied first.  *)
(* A body is a sequence of characters; positions count from 0 as in the    *)
(* source. A transformation may leave a deletion of length 0, which        *)
(* note_edit_service.py (_apply_non_empty_edit) applies as no change.      *)
(***************************************************************************)
EXTENDS Integers, Sequences

Insert(position, text) ==
    [kind |-> "insert", position |-> position, text |-> text, length |-> 0]

Delete(position, length) ==
    [kind |-> "delete", position |-> position, text |-> <<>>, length |-> length]

IsInsert(edit) == edit.kind = "insert"

\* How much an edit lengthens the body.
Growth(edit) == IF IsInsert(edit) THEN Len(edit.text) ELSE -edit.length

\* apply_edit accepts the edit on a body of n characters.
Valid(edit, n) ==
    /\ edit.position \in 0..n
    /\ IF IsInsert(edit) THEN edit.text # <<>>
                         ELSE edit.length > 0 /\ edit.position + edit.length <= n

\* _apply_non_empty_edit accepts it: an emptied deletion changes nothing.
Applicable(edit, n) ==
    \/ ~IsInsert(edit) /\ edit.length = 0
    \/ Valid(edit, n)

Prefix(body, n) == SubSeq(body, 1, n)
Suffix(body, n) == SubSeq(body, n + 1, Len(body))

Apply(body, edit) ==
    IF IsInsert(edit)
    THEN Prefix(body, edit.position) \o edit.text \o Suffix(body, edit.position)
    ELSE IF edit.length = 0 THEN body
    ELSE Prefix(body, edit.position) \o Suffix(body, edit.position + edit.length)

Least(a, b) == IF a < b THEN a ELSE b
Most(a, b)  == IF a > b THEN a ELSE b

\* Mutant: equal positions never shift, whoever wins the tie.
AgainstInsertNoTie(incoming, applied, winsTie) ==
    LET shift == Len(applied.text) IN
    IF IsInsert(incoming)
    THEN IF incoming.position > applied.position
         THEN Insert(incoming.position + shift, incoming.text)
         ELSE incoming
    ELSE IF incoming.position >= applied.position
         THEN Delete(incoming.position + shift, incoming.length)
    ELSE IF incoming.position + incoming.length <= applied.position
         THEN incoming
         ELSE Delete(incoming.position, incoming.length + shift)

\* A concurrent insertion shifts what is behind it, and a deletion around it
\* grows over it.
AgainstInsert(incoming, applied, winsTie) ==
    LET shift == Len(applied.text) IN
    IF IsInsert(incoming)
    THEN IF \/ incoming.position > applied.position
            \/ incoming.position = applied.position /\ ~winsTie
         THEN Insert(incoming.position + shift, incoming.text)
         ELSE incoming
    ELSE IF incoming.position >= applied.position
         THEN Delete(incoming.position + shift, incoming.length)
    ELSE IF incoming.position + incoming.length <= applied.position
         THEN incoming
         ELSE Delete(incoming.position, incoming.length + shift)

\* A concurrent deletion pulls positions back to its start, and its overlap
\* with an incoming deletion is already gone.
AgainstDelete(incoming, applied) ==
    LET start == applied.position
        end == start + applied.length IN
    IF IsInsert(incoming)
    THEN IF incoming.position <= start
         THEN incoming
         ELSE Insert(Most(start, incoming.position - applied.length),
                     incoming.text)
    ELSE LET incomingEnd == incoming.position + incoming.length
             newStart == incoming.position
                         - Least(applied.length, Most(0, incoming.position - start))
             overlap == Most(0, Least(incomingEnd, end)
                                - Most(incoming.position, start))
         IN Delete(newStart, Most(0, incoming.length - overlap))

Transform(incoming, applied, winsTie) ==
    IF IsInsert(applied) THEN AgainstInsert(incoming, applied, winsTie)
                         ELSE AgainstDelete(incoming, applied)
=============================================================================

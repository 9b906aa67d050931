----------------------------- MODULE MCNoteEdits -----------------------------
(***************************************************************************)
(* NoteEdits against what the edits mean, over every body of at most       *)
(* MaxLen distinct characters and every pair of concurrent edits of it.    *)
(* Characters are numbers: 1..MaxLen in the body, others in the            *)
(* insertions, so that each one can be told apart after any edit.          *)
(***************************************************************************)
EXTENDS NoteEdits

CONSTANTS
    MaxLen,  \* longest body
    MaxText  \* longest insertion

ASSUME EditsAssumption == {MaxLen, MaxText} \subseteq Nat

VARIABLES body,    \* the note both authors saw
          first,   \* the edit the server applied first
          second,  \* the concurrent edit, still in terms of body
          winsTie  \* the second edit has the lower operation id
editVars == <<body, first, second, winsTie>>

Nothing == Delete(0, 0)

\* The first k characters of an author who writes the characters after c.
NewText(k, c) == [i \in 1..k |-> c + i]

\* What this author can do to n characters.
Edits(n, c) == {Insert(p, NewText(k, c)) : p \in 0..n, k \in 1..MaxText}
               \cup {e \in {Delete(p, k) : p \in 0..n, k \in 1..n} : Valid(e, n)}

EditsInit == /\ \E n \in 0..MaxLen : body = [i \in 1..n |-> i]
             /\ first = Nothing /\ second = Nothing /\ winsTie = FALSE

FirstArrives == /\ first = Nothing
                /\ first' \in Edits(Len(body), MaxLen)
                /\ UNCHANGED <<body, second, winsTie>>

SecondArrives == /\ first # Nothing /\ second = Nothing
                 /\ second' \in Edits(Len(body), MaxLen + MaxText)
                 /\ winsTie' \in BOOLEAN
                 /\ UNCHANGED <<body, first>>

EditsNext == FirstArrives \/ SecondArrives

EditsSpec == EditsInit /\ [][EditsNext]_editVars

Chars(s) == {s[i] : i \in 1..Len(s)}
Targets(e) == {body[i] : i \in (e.position + 1)..(e.position + e.length)}

AfterFirst == Apply(body, first)
Moved  == Transform(second, first, winsTie)
AfterBoth == Apply(AfterFirst, Moved)

\* The insertion of one author lies strictly inside the deletion of the other.
Inside(ins, del) == /\ IsInsert(ins) /\ ~IsInsert(del)
                    /\ del.position < ins.position
                    /\ ins.position < del.position + del.length

Before(s, x, y) == \E i, j \in 1..Len(s) : i < j /\ s[i] = x /\ s[j] = y

\* Whatever was applied first, the transformed edit is accepted by apply_edit:
\* the server never answers a well-formed concurrent edit with note.error.
TransformedApplies == Applicable(Moved, Len(AfterFirst))

\* A deletion removes the characters its author selected that are still there
\* and, beyond them, only text inserted strictly inside the selection.
DeletionMeansItsTargets ==
    ~IsInsert(second) =>
        Chars(AfterFirst) \ Chars(AfterBoth) =
            (Targets(second) \cap Chars(AfterFirst))
            \cup (IF Inside(first, second) THEN Chars(first.text) ELSE {})

\* An insertion arrives whole, loses nobody's text and stays between the
\* characters its author saw on its left and on its right.
InsertionKeepsItsPlace ==
    IsInsert(second) =>
        /\ Chars(AfterBoth) = Chars(AfterFirst) \cup Chars(second.text)
        /\ \A i, j \in 1..Len(second.text) :
              i < j => Before(AfterBoth, second.text[i], second.text[j])
        /\ \A i \in 1..Len(body) : body[i] \in Chars(AfterFirst) =>
              IF i <= second.position
              THEN Before(AfterBoth, body[i], second.text[1])
              ELSE Before(AfterBoth, second.text[1], body[i])

\* Either order of arrival gives the same note, the tie being won by the same
\* operation id, unless an insertion lies inside the other's deletion: then
\* the insertion survives exactly if the deletion was applied first.
OrderDoesNotMatter ==
    LET other == Apply(Apply(body, second), Transform(first, second, ~winsTie))
    IN IF Inside(first, second) THEN Chars(first.text) \cap Chars(AfterBoth) = {}
                                     /\ Chars(first.text) \subseteq Chars(other)
       ELSE Inside(second, first) \/ AfterBoth = other

\* Two concurrent edits of one revision can be applied in either order, mean what
\* their authors meant and leave the same note (transform in domain/notes.py).
ConcurrentEditsConverge ==
    /\ TransformedApplies /\ DeletionMeansItsTargets
    /\ InsertionKeepsItsPlace /\ OrderDoesNotMatter
=============================================================================

------------------------------ MODULE MCDevices ------------------------------
(***************************************************************************)
(* What phones and watches do with the server: the watch's guard,          *)
(* smooches, partner alerts, the note library, countdowns edited offline,  *)
(* together time, and the transformation of concurrent note edits.  The    *)
(* models share no state, so one run explores their disjoint union:        *)
(* MCInit chooses the part that moves, and the other parts keep their      *)
(* initial states.                                                         *)
(***************************************************************************)
EXTENDS WatchAuthority, SmoochSending, PartnerAlerts, NoteLibrary, CountdownSync,
        TogetherTime, MCNoteEdits, TLC

CONSTANTS p1, p2

Home  == [at |-> 0, accuracy |-> 0]
Away  == [at |-> 3, accuracy |-> 0]
Vague == [at |-> 1, accuracy |-> 2]

\* One phone stays at home; the other moves and its clock is ahead.
MCPlaces == (p1 :> {Home}) @@ (p2 :> {Home, Away, Vague})
MCAhead  == (p1 :> 0) @@ (p2 :> 1)

VARIABLE part

\* The watch and the edits have several initial states.
MCInit ==
    /\ part \in {"watch", "smooch", "alerts", "library", "countdown", "together", "edits"}
    /\ WatchInit /\ SmoochInit /\ AlertsInit /\ LibraryInit /\ CountdownInit
    /\ TogetherInit /\ EditsInit
    /\ part = "watch" \/ guard.status = "NONE"
    /\ part = "edits" \/ body = <<>>

MCNext ==
    /\ UNCHANGED part
    /\ \/ /\ part = "watch" /\ WatchNext
          /\ UNCHANGED <<smoochVars, alertVars, libraryVars, countdownVars, togetherVars,
                         editVars>>
       \/ /\ part = "smooch" /\ SmoochNext
          /\ UNCHANGED <<watchVars, alertVars, libraryVars, countdownVars, togetherVars,
                         editVars>>
       \/ /\ part = "alerts" /\ AlertsNext
          /\ UNCHANGED <<watchVars, smoochVars, libraryVars, countdownVars, togetherVars,
                         editVars>>
       \/ /\ part = "library" /\ LibraryNext
          /\ UNCHANGED <<watchVars, smoochVars, alertVars, countdownVars, togetherVars,
                         editVars>>
       \/ /\ part = "countdown" /\ CountdownNext
          /\ UNCHANGED <<watchVars, smoochVars, alertVars, libraryVars, togetherVars,
                         editVars>>
       \/ /\ part = "together" /\ TogetherNext
          /\ UNCHANGED <<watchVars, smoochVars, alertVars, libraryVars, countdownVars,
                         editVars>>
       \/ /\ part = "edits" /\ EditsNext
          /\ UNCHANGED <<watchVars, smoochVars, alertVars, libraryVars, countdownVars,
                         togetherVars>>

MCSpec ==
    MCInit /\ [][MCNext]_<<part, watchVars, smoochVars, alertVars, libraryVars,
                           countdownVars, togetherVars, editVars>>

\* Every variable of the part that moves has its type.
DevicesTypeOK ==
    CASE part = "watch"     -> WatchTypeOK
      [] part = "smooch"    -> SmoochTypeOK
      [] part = "alerts"    -> AlertsTypeOK
      [] part = "library"   -> LibraryTypeOK
      [] part = "countdown" -> CountdownTypeOK
      [] part = "together"  -> TogetherTypeOK
      [] part = "edits"     -> TRUE
=============================================================================

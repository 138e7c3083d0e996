----------------------------- MODULE ChangeWait -----------------------------
(***************************************************************************)
(* What wait_for_change of a transport promises, however it learns of a    *)
(* change: each wait ends, with a screen some device has shown that is not *)
(* the one the caller knows, or with nothing.                              *)
(***************************************************************************)
CONSTANTS Screens, FirstScreen, Nothing

VARIABLES past,      \* the screens some device has shown
          waiting, known, answer

waitVars == <<past, waiting, known, answer>>

WaitInit == /\ past = {FirstScreen} /\ waiting = FALSE
            /\ known = FirstScreen /\ answer = Nothing

Show == /\ \E s \in Screens : past' = past \cup {s}
        /\ UNCHANGED <<waiting, known, answer>>

Ask == /\ ~waiting /\ waiting' = TRUE
       /\ known' \in past /\ answer' = Nothing
       /\ UNCHANGED past

Reply == /\ waiting /\ waiting' = FALSE
         /\ answer' \in (past \ {known}) \cup {Nothing}
         /\ UNCHANGED <<past, known>>

WaitNext == Show \/ Ask \/ Reply

WaitSafety == WaitInit /\ [][WaitNext]_waitVars
WaitSpec == WaitSafety /\ WF_waitVars(Reply)
=============================================================================

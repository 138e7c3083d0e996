--------------------------- MODULE ActionDelivery ---------------------------
(***************************************************************************)
(* What the session store promises of the delivery of commands, without    *)
(* devices, observations, clocks or queues: a command waits, is handed out *)
(* at most MaxAttempts times, one command per poll, and is settled once.   *)
(* SessionStore implements this specification.                             *)
(***************************************************************************)
EXTENDS Naturals

CONSTANTS Commands,
          MaxAttempts,  \* how often one command may be handed out
          MayForget     \* TRUE if a restart of the store loses its state

Unknown == "no-result"
Answers == {"SUCCESS", "STALE_OBSERVATION", "SAFETY_BLOCKED", "ACTION_REJECTED"}

VARIABLES stage, attempts, outcome

dvars == <<stage, attempts, outcome>>

DeliveryInit ==
    /\ stage = [c \in Commands |-> "absent"]
    /\ attempts = [c \in Commands |-> 0]
    /\ outcome = [c \in Commands |-> Unknown]

Submit(c) ==
    /\ stage[c] = "absent"
    /\ stage' = [stage EXCEPT ![c] = "waiting"]
    /\ UNCHANGED <<attempts, outcome>>

\* The answer of the device counts if the command is not settled yet, also
\* when its lease ran out in the meantime.
Settle(c, o) ==
    /\ stage[c] \in {"waiting", "leased"}
    /\ attempts[c] > 0
    /\ stage' = [stage EXCEPT ![c] = "settled"]
    /\ outcome' = [outcome EXCEPT ![c] = o]
    /\ UNCHANGED attempts

\* One poll: commands are given back, given up (their last attempt is over),
\* dropped as outdated, and at most one is handed out.
Poll(back, over, dropped, given) ==
    /\ \A c, e \in given : c = e
    /\ back \cup over \subseteq {c \in Commands : stage[c] = "leased"}
    /\ dropped \cup given \subseteq {c \in Commands : stage[c] \in {"waiting", "leased"}}
    /\ \A c \in over : attempts[c] = MaxAttempts
    /\ \A c \in given : attempts[c] < MaxAttempts
    /\ (over \cup dropped) \cap given = {} /\ over \cap dropped = {}
    /\ back \cap (over \cup dropped \cup given) = {}
    /\ stage' = [c \in Commands |->
          IF c \in given THEN "leased"
          ELSE IF c \in over \cup dropped THEN "settled"
          ELSE IF c \in back THEN "waiting" ELSE stage[c]]
    /\ attempts' = [c \in Commands |->
          IF c \in given THEN attempts[c] + 1 ELSE attempts[c]]
    /\ outcome' = [c \in Commands |->
          IF c \in over THEN "RETRY_EXHAUSTED"
          ELSE IF c \in dropped THEN "STALE_OBSERVATION" ELSE outcome[c]]

Forget ==
    /\ MayForget
    /\ stage' = [c \in Commands |-> IF stage[c] = "absent" THEN "absent" ELSE "forgotten"]
    /\ outcome' = [c \in Commands |-> Unknown]
    /\ UNCHANGED attempts

DeliveryNext ==
    \/ \E c \in Commands : Submit(c)
    \/ \E c \in Commands, o \in Answers : Settle(c, o)
    \/ \E back, over, dropped, given \in SUBSET Commands : Poll(back, over, dropped, given)
    \/ Forget

DeliverySpec == DeliveryInit /\ [][DeliveryNext]_dvars
=============================================================================

------------------------ MODULE InvitationLifecycle ------------------------
(***************************************************************************)
(* What the invitation store promises about one invitation, whatever its   *)
(* threads, files and crashes do: the status goes forward, from pending to *)
(* one of three ends; an expired invitation may still be answered by a     *)
(* handler that had read it before; and an end of the process can only     *)
(* take an invitation back to a status it has had.                         *)
(***************************************************************************)
CONSTANTS Ids, Initial

Answers  == {"accepted", "rejected"}
Terminal == Answers \cup {"expired"}
Status   == {"none", "pending"} \cup Terminal

VARIABLES status, running

vars == <<status, running>>

Init == status = Initial /\ running = FALSE

Before == ({"none"} \X Status) \cup ({"pending"} \X Terminal)
            \cup ({"expired"} \X Answers)

EarlierOrSame(s, t) == s = t \/ <<s, t>> \in Before

Begin ==
  /\ ~running /\ running' = TRUE
  /\ UNCHANGED status

Issue(i) ==
  /\ running /\ status[i] = "none"
  /\ status' = [status EXCEPT ![i] = "pending"]
  /\ UNCHANGED running

Answer(i) ==
  /\ running /\ status[i] \in {"pending", "expired"}
  /\ \E s \in Answers : status' = [status EXCEPT ![i] = s]
  /\ UNCHANGED running

Expire(S) ==
  /\ running /\ \A i \in S : status[i] = "pending"
  /\ status' = [i \in Ids |-> IF i \in S THEN "expired" ELSE status[i]]
  /\ UNCHANGED running

End ==
  /\ running /\ running' = FALSE
  /\ status' \in [Ids -> Status]
  /\ \A i \in Ids : EarlierOrSame(status'[i], status[i])

Next == \/ Begin \/ End
        \/ \E i \in Ids : Issue(i) \/ Answer(i)
        \/ \E S \in SUBSET Ids : Expire(S)

Spec == Init /\ [][Next]_vars
=============================================================================

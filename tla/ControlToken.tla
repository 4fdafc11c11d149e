---------------------------- MODULE ControlToken ----------------------------
(***************************************************************************)
(* What the room promises about the controls of the desktop, and nothing   *)
(* about how: they are a token that at most one participant holds, only    *)
(* somebody who is present can pick it up, and it is put down, never       *)
(* handed on, when its holder goes (the comments of room.go: "a shared     *)
(* console: exactly ONE participant holds control at a time", "free is a   *)
(* state the room is allowed to sit in").                                  *)
(***************************************************************************)
CONSTANTS Ids, Nobody

VARIABLES present, holder

Init == present = {} /\ holder = Nobody

\* People come and go, several at a time when a join evicts dead members. The
\* holder keeps the token unless it is among those who went.
ComeAndGo ==
    /\ present' \in SUBSET Ids
    /\ holder' = IF holder \in present' THEN holder ELSE Nobody

Claim ==
    /\ holder' \in present
    /\ UNCHANGED present

PutDown ==
    /\ holder' = Nobody
    /\ UNCHANGED present

Next == ComeAndGo \/ Claim \/ PutDown

Spec == Init /\ [][Next]_<<present, holder>>
=============================================================================

--------------------------- MODULE SessionRegister ---------------------------
(***************************************************************************)
(* What a store of one account's session promises (pl-auth, SecretStore):  *)
(* a save or a delete takes effect at one moment or not at all; one that   *)
(* reports success has taken effect, and a save that reports a failure has *)
(* left the session that was stored.                                       *)
(***************************************************************************)
CONSTANTS Sessions, Nothing

VARIABLES
    stored, \* the session a load returns, or Nothing
    call,   \* the save or delete under way
    answer  \* what the last call answered

Idle == [kind |-> "none", wanted |-> Nothing, stage |-> "pending"]

Init == stored \in Sessions \cup {Nothing} /\ call = Idle /\ answer = "none"

Begin ==
    /\ call = Idle
    /\ \/ \E s \in Sessions : call' = [kind |-> "save", wanted |-> s, stage |-> "pending"]
       \/ call' = [kind |-> "delete", wanted |-> Nothing, stage |-> "pending"]
    /\ UNCHANGED <<stored, answer>>

TakeEffect ==
    /\ call # Idle /\ call.stage = "pending"
    /\ stored' = call.wanted
    /\ call' = [call EXCEPT !.stage = "done"]
    /\ UNCHANGED answer

\* The launcher may end at any moment ("stopped").
Answer ==
    /\ call # Idle
    /\ answer' \in {"ok", "failed", "stopped"}
    /\ answer' = "ok" => call.stage = "done"
    /\ answer' = "failed" => call.kind = "delete" \/ call.stage = "pending"
    /\ call' = Idle
    /\ UNCHANGED stored

Next == Begin \/ TakeEffect \/ Answer
Spec == Init /\ [][Next]_<<stored, call, answer>>
=============================================================================

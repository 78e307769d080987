------------------------------ MODULE RemoteCalls ------------------------------
(***************************************************************************)
(* What send() promises its callers, with nothing said of sockets that are *)
(* replaced, tables or timers: a call goes out over one link or is refused *)
(* at once; it settles once, with an answer, a timeout or the loss of its  *)
(* link; the loss of a link settles all the calls it carries and no other; *)
(* and no call waits for ever.                                             *)
(***************************************************************************)
CONSTANTS Calls, Links, NoLink

VARIABLES
    call,       \* each call: new, pending, or what its promise settled to
    via         \* the link it went out over

vars == <<call, via>>

Init ==
    /\ call = [c \in Calls |-> "new"]
    /\ via = [c \in Calls |-> NoLink]

Begin(c, l) ==
    /\ call[c] = "new"
    /\ call' = [call EXCEPT ![c] = "pending"]
    /\ via' = [via EXCEPT ![c] = l]

\* There is no link to carry the call.
Refuse(c) ==
    /\ call[c] = "new"
    /\ call' = [call EXCEPT ![c] = "notConnected"]
    /\ UNCHANGED via

Carried(l) == {c \in Calls : call[c] = "pending" /\ via[c] = l}

Lose(l) ==
    /\ Carried(l) # {}
    /\ call' = [c \in Calls |-> IF c \in Carried(l) THEN "closed" ELSE call[c]]
    /\ UNCHANGED via

Settle(c) ==
    /\ call[c] = "pending"
    /\ \E out \in {"answered", "timedOut"} : call' = [call EXCEPT ![c] = out]
    /\ UNCHANGED via

Next ==
    \/ \E l \in Links : Lose(l) \/ \E c \in Calls : Begin(c, l)
    \/ \E c \in Calls : Refuse(c) \/ Settle(c)

Spec == Init /\ [][Next]_vars /\ \A c \in Calls : WF_vars(Settle(c))
=============================================================================

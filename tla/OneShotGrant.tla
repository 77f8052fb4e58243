---------------------------- MODULE OneShotGrant ----------------------------
(***************************************************************************)
(* What a login flow promises: one user is asked, that user agrees, and    *)
(* one app password of that user comes out of it, or none.                 *)
(***************************************************************************)
CONSTANTS User, NoUser

VARIABLES stage,     \* "open", "asked", "agreed", "over"
          asked,     \* the user who has been asked
          issued     \* the users of the app passwords that came out of it

vars == <<stage, asked, issued>>

Init == stage = "open" /\ asked = NoUser /\ issued = << >>

Ask(u) == stage = "open" /\ stage' = "asked" /\ asked' = u /\ issued' = issued

Agree == stage = "asked" /\ stage' = "agreed" /\ UNCHANGED <<asked, issued>>

Issue == stage = "agreed" /\ stage' = "over" /\ issued' = <<asked>> /\ asked' = NoUser

Withdraw == stage # "over" /\ stage' = "over" /\ asked' = NoUser /\ issued' = issued

Next == (\E u \in User : Ask(u)) \/ Agree \/ Issue \/ Withdraw

Spec == Init /\ [][Next]_vars
=============================================================================

---------------------------- MODULE Registration ----------------------------
(***************************************************************************)
(* What the invitation flow promises: an account is made only for somebody *)
(* who has been invited, and only once.                                    *)
(***************************************************************************)
CONSTANT People

VARIABLES
  invited,      \* people to whom a link has been sent
  registered    \* people with an account

RegInit == invited = {} /\ registered = {}

Invite(p) == invited' = invited \cup {p} /\ UNCHANGED registered

Register(p) ==
  /\ p \in invited \ registered
  /\ registered' = registered \cup {p}
  /\ UNCHANGED invited

RegNext == \E p \in People : Invite(p) \/ Register(p)

RegSpec == RegInit /\ [][RegNext]_<<invited, registered>>
=============================================================================

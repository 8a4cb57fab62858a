-------------------------- MODULE MCUserOnlineRepo --------------------------
(* Small instances of UserOnlineRepo for TLC. *)
EXTENDS UserOnlineRepo, TLC

CONSTANTS u1, s1, s2

\* One user with two browser tabs.
TwoTabs == s1 :> u1 @@ s2 :> u1
=============================================================================

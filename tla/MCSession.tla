---- MODULE MCSession ----
(* Session for TLC; every configuration gives the bounds. *)
EXTENDS Session

\* A bound across the others: a setting, or steering and work that tools leave.
OneDisturbance == settings + tracked <= 1 /\ settings + nextSteeringId <= 1
====

---------------------------- MODULE MCInvitations ----------------------------
(* One address, two requests, three calls by two admins and a team lead. *)
EXTENDS Invitations, TLC

CONSTANTS e1, r1, r2, c1, c2, c3, ann, bob, lea, team_lead, analyst, direct

\* Calls, admins and requests are interchangeable; no liveness is checked.
MCSymmetry == Permutations({c1, c2, c3})
              \cup Permutations({ann, bob}) \cup Permutations({r1, r2})
=============================================================================

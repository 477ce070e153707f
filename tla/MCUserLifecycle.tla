------------------------ MODULE MCUserLifecycle ------------------------
(***************************************************************************)
(* An instance of UserLifecycle for TLC: two users and everything that can *)
(* be asked about them.                                                    *)
(***************************************************************************)
EXTENDS UserLifecycle, TLC

CONSTANTS bob, alice, r1, r2, r3, r4

Ask(kind, u, s) == [kind |-> kind, user |-> u, status |-> s]

(* Bob may be created with any status, Alice as the demo does it. *)
Asked ==
    {Ask("create", bob, s) : s \in Statuses}
    \cup {Ask(kind, bob, "active") : kind \in {"activate", "order", "complete"}}
    \cup {Ask("create", alice, "pending_onboarding"), Ask("activate", alice, "active")}

Symmetry == Permutations(Requests)
=========================================================================

----------------------------- MODULE MCUserStore -----------------------------
(***************************************************************************)
(* Instances of UserStore for TLC.                                         *)
(***************************************************************************)
EXTENDS UserStore, TLC

CONSTANTS u1, u2, p1, p2, r1, r2, r3

\* One local user at first; then the admin has a password, and another
\* password and role for the user or no user at all; GitHub; nothing.
NoUsers == [u \in Users |-> None]
ConfigChoices ==
    { [auth |-> "local", admin |-> None, defaultRole |-> "read",
       users |-> [NoUsers EXCEPT ![u1] = [password |-> p1, role |-> None]]],
      [auth |-> "local", admin |-> p2, defaultRole |-> "read",
       users |-> NoUsers],
      [auth |-> "github", admin |-> None, defaultRole |-> "admin",
       users |-> NoUsers],
      [auth |-> "none", admin |-> None, defaultRole |-> "read",
       users |-> NoUsers] }

\* Requests are interchangeable: a token names the one that generated it, but
\* no action and no property names a particular one.
Interchangeable == Permutations(Requests)
=============================================================================

---------------------------- MODULE SingleSession ----------------------------
(***************************************************************************)
(* What the user service promises of sessions, without its Redis keys: an  *)
(* account has one session at most, a login replaces the one there was in  *)
(* a single step, and a session may expire.                                *)
(***************************************************************************)
CONSTANTS
    Users,     \* accounts
    Requests   \* session tokens, each named by the request that draws it

VARIABLE valid   \* the pairs <<user, token>> a backend would accept

Init == valid = {}

\* A login, or a registration, of u that ends with token t.
Replace(u, t) == valid' = {s \in valid : s[1] # u} \cup {<<u, t>>}

Expire(u) == valid' = {s \in valid : s[1] # u}

Next == \E u \in Users : Expire(u) \/ \E t \in Requests : Replace(u, t)

Spec == Init /\ [][Next]_valid

=============================================================================

----------------------------- MODULE MCRedirect -----------------------------
(* Three nodes in a ring: each may learn of the next, and one of itself.   *)
(* The third has an ADMIN_TOKEN: it can be asked but not redirected to.    *)
EXTENDS Redirect

CONSTANTS a, b, c

MCNodes == {a, b, c}
MCRecords == {<<a, a>>, <<a, b>>, <<a, c>>, <<b, c>>, <<c, a>>}
MCGuarded == {c}
=============================================================================

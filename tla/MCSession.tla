----------------------------- MODULE MCSession -----------------------------
(* Two names, two passwords and two addresses.  Sign-ups may share the name  *)
(* or the address; the password tells which of them wrote a document.        *)
EXTENDS Session

CONSTANTS kim, lee, p1, p2, a1, a2

Form(n, p, a) == [name |-> n, password |-> p, account |-> a]

FourForms == {Form(kim, p1, a1), Form(kim, p2, a2), Form(lee, p2, a1), Form(lee, p1, a2)}
=============================================================================

--------------------------- MODULE MCAuthSession ---------------------------
(***************************************************************************)
(* An instance of AuthSession for TLC.                                     *)
(***************************************************************************)
EXTENDS AuthSession, TLC

CONSTANTS plain, native, pw, chrome, addr

\* A browser, and a client whose User-Agent is its own address.
Agents == plain :> chrome @@ native :> addr
Addrs  == plain :> addr @@ native :> addr

\* A password, and the hash of its hash.
TwoPasswords == {pw, HashPassword(HashPassword(pw))}

Q(kind, b, c) ==
  [kind |-> kind, browser |-> b, ctx |-> c, name |-> None, email |-> None,
   password |-> None]

Signup(b, c, n) == [Q("signup", b, c) EXCEPT !.name = n, !.email = "mail", !.password = pw]

Login(b, c, n, p) == [Q("login", b, c) EXCEPT !.name = n, !.password = p]

\* Alice signs up; meanwhile or afterwards she signs up from a browser, logs in
\* on a second client or refreshes; then two more requests that refresh, log out
\* or connect.
Sessions ==
  << {Signup("b1", native, "alice"), Signup("b1", native, None),
      Login("b1", native, None, pw)},
     {Signup("b2", plain, "alice"), Q("refresh", "b1", native),
      Login("b2", native, "alice", HashPassword(HashPassword(pw)))},
     {Q("refresh", "b1", native), Q("logout", "b1", native)},
     {Q("refresh", "b1", native), Q("refresh", "b1", plain), Q("ws", "b2", native),
      Login("b2", native, "alice", pw)} >>
=============================================================================

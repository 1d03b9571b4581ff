---------------------------- MODULE MCAppShell ------------------------------
(* A small instance of AppShell for TLC.  The menu and the notifications have *)
(* nothing in common but that both end with the program, so that a behaviour  *)
(* has the clicks on all items, or two calls of Send and at most a Quit.      *)
EXTENDS AppShell

MenuOrSends == {[items |-> Items, sends |-> 0], [items |-> {"quit"}, sends |-> MaxSends]}
=============================================================================

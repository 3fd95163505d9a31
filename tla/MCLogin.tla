------------------------------ MODULE MCLogin ------------------------------
(* Login with inputs from the web or at the console, with and without a limit *)
(* of attempts.                                                               *)
EXTENDS Login
Config(web, max, again) == [web |-> web, max |-> max, relogin |-> again]
SomeConfigs == {Config(TRUE, 1, TRUE), Config(FALSE, 0, TRUE),
                Config(FALSE, 2, TRUE), Config(TRUE, 0, FALSE)}
=============================================================================

------------------------------- MODULE Replay -------------------------------
(***************************************************************************)
(* The vocabulary of the integration tests.  A test is a sequence of       *)
(* steps: a call that the program accepts, a call that it refuses, or an   *)
(* assertion about an account.  The *Tests modules translate tests of      *)
(* src/integration-tests and replay each on a model, which has to accept,  *)
(* refuse and hold what the test says of the program.                      *)
(***************************************************************************)
EXTENDS Naturals, Sequences

\* .send_transaction(..).expect(..)
Succeeds(call) == [kind |-> "succeeds", call |-> call]

\* .send_transaction(..).unwrap_err(), assert_error_code(..)
Fails(call) == [kind |-> "fails", call |-> call]

\* assert_eq!(account field, value)
Expect(field, value) == [kind |-> "expect", field |-> field, value |-> value]
=============================================================================

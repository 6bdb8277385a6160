---------------------------- MODULE MCAuthSession ----------------------------
(* The alarm and a capture call accessToken(); the employee signs in.       *)
EXTENDS AuthSession

CONSTANTS alarm, capture, employee

=============================================================================

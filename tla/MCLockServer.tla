---------------------------- MODULE MCLockServer ----------------------------
(***************************************************************************)
(* A small instance of the lock server and its certificates.  The signer   *)
(* and the target come to their refresh times together, so that the target *)
(* has to wait for the new signer, and the other configuration leaves the  *)
(* CA to the defaults.                                                     *)
(***************************************************************************)
EXTENDS LockTrust

MCCerts == [ca |-> [duration |-> 35, renewBefore |-> 25],
            server |-> [duration |-> 17, renewBefore |-> 7]]
MCDefaultCA == [MCCerts EXCEPT !.ca = [duration |-> Unset, renewBefore |-> Unset]]
MCCertConfigs == {MCCerts, MCDefaultCA}
ASSUME MCSpaced == Spaced
=============================================================================

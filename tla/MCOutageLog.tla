---------------------------- MODULE MCOutageLog ----------------------------
(***************************************************************************)
(* The instance of OutageLog that TLC explores: ten ticks leave room for   *)
(* three outages around a deadline.                                        *)
(***************************************************************************)
EXTENDS OutageLog

MCInitialConfig == [gapThreshold |-> 1, recoveryPeriod |-> 1,
                    maxExtension |-> 3, twapWindow |-> 1]

=============================================================================

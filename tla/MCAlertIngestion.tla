-------------------------- MODULE MCAlertIngestion --------------------------
(***************************************************************************)
(* Alerts of one service around a correlation window of length 1.  The     *)
(* second Alertmanager notification repeats a1 and adds a4.  Both a4 and   *)
(* a5 are near a1 and raise its severity, and they are not near each       *)
(* other; a2 is near all of them and of another type.                      *)
(*                                                                         *)
(*   request  alert  external id  type  severity  started at               *)
(*   batch    a1     e1           t1    low        0                       *)
(*            a2     e2           t2    medium     0                       *)
(*   again    a3     e1           t1    low        0                       *)
(*            a4     e3           t1    high       1                       *)
(*   post     a5     none         t1    critical  -1                       *)
(***************************************************************************)
EXTENDS AlertRaces, TLC

CONSTANTS a1, a2, a3, a4, a5, batch, again, post, e1, e2, e3, svc, t1, t2

MCBatchOf == [q \in Requests |->
    CASE q = batch -> <<a1, a2>>
      [] q = again -> <<a3, a4>>
      [] q = post  -> <<a5>>]

MCServiceOf == [a \in Alerts |-> svc]

MCTypeOf == [a \in Alerts |-> IF a = a2 THEN t2 ELSE t1]

MCSeverityOf == [a \in Alerts |->
    CASE a \in {a1, a3} -> 0
      [] a = a2 -> 1
      [] a = a4 -> 2
      [] a = a5 -> 3]

MCStartedAt == [a \in Alerts |->
    CASE a = a4 -> 1
      [] a = a5 -> -1
      [] OTHER  -> 0]

MCExternalId == [a \in Alerts |->
    CASE a \in {a1, a3} -> e1
      [] a = a2 -> e2
      [] a = a4 -> e3
      [] a = a5 -> None]

=============================================================================

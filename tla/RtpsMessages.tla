---------------------------- MODULE RtpsMessages ----------------------------
(***************************************************************************)
(* The RTPS submessages a reliable writer and a reliable reader exchange,  *)
(* and the network between them.  A submessage sent to several readers is  *)
(* one message per reader.  net holds what has been sent and may still     *)
(* arrive; payloads are identified by the writer and sequence number.      *)
(***************************************************************************)
EXTENDS Integers

VARIABLE net

Data(w, r, seq) ==
    [type |-> "DATA", writer |-> w, reader |-> r, seq |-> seq]

Heartbeat(w, r, first, last, count, final) ==
    [type |-> "HEARTBEAT", writer |-> w, reader |-> r,
     first |-> first, last |-> last, count |-> count, final |-> final]

\* The numbers from start up to base - 1, and those of list, will never come.
Gap(w, r, start, base, list) ==
    [type |-> "GAP", writer |-> w, reader |-> r, start |-> start, base |-> base, list |-> list]

\* Everything below base is settled, and the numbers of missing are asked for.
AckNack(w, r, base, missing, count, final) ==
    [type |-> "ACKNACK", writer |-> w, reader |-> r,
     base |-> base, missing |-> missing, count |-> count, final |-> final]
=============================================================================

----------------------------- MODULE MCEventBus -----------------------------
(***************************************************************************)
(* EventBusOnce on a small instance.  A message no queue is bound to       *)
(* (aml.report.ready) is dropped.                                          *)
(***************************************************************************)
EXTENDS EventBusOnce

CONSTANTS requests, jobs, \* two queues
          r, j, k,        \* messages: r for requests, j and k for jobs
          loose           \* a message no queue takes

MCBinding == [q \in Queue |-> IF q = requests THEN {r} \cap Message
                                             ELSE {j, k} \cap Message]

=============================================================================

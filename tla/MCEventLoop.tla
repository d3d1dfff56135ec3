----------------------------- MODULE MCEventLoop -----------------------------
(* EventLoop with the code's own times, in ticks of 250 ms: a heartbeat every *)
(* 500 ms, the documented watchdog of 1000 ms.                                *)
EXTENDS EventLoop

=============================================================================

---------------------------- MODULE TcpStates ----------------------------
(***************************************************************************)
(* The life of a control block as the socket table sees it: its state and  *)
(* whether a program holds it, without sequence numbers, buffers or time.  *)
(* TcpConnection is checked to implement it (TcpLifecycle), so SocketTable *)
(* can be stated, and proved about, in its terms.                          *)
(***************************************************************************)

TcpState == {"Closed", "Listen", "SynSent", "SynReceived", "Established", "FinWait1",
             "FinWait2", "CloseWait", "Closing", "LastAck", "TimeWait"}

\* Where a segment, a timer or an unreachable host can take a connection.
Input(s) ==
    CASE s = "SynSent"     -> {"SynSent", "SynReceived", "Established", "Closed"}
      [] s = "SynReceived" -> {"SynReceived", "Established", "CloseWait", "Closed"}
      [] s = "Established" -> {"Established", "CloseWait", "Closed"}
      [] s = "FinWait1"    -> {"FinWait1", "FinWait2", "Closing", "TimeWait", "Closed"}
      [] s = "FinWait2"    -> {"FinWait2", "TimeWait", "Closed"}
      [] s = "CloseWait"   -> {"CloseWait", "Closed"}
      [] s = "Closing"     -> {"Closing", "TimeWait", "Closed"}
      [] s = "LastAck"     -> {"LastAck", "Closed"}
      [] s = "TimeWait"    -> {"TimeWait", "Closed"}
      [] OTHER             -> {s}

\* Where shutdown_write leaves it.
Shut(s) == CASE s = "Established" -> "FinWait1" [] s = "CloseWait" -> "LastAck" [] OTHER -> s

\* Where close leaves it: nothing to finish means abort.
Close(s) == IF s \in {"SynSent", "SynReceived", "Closed"} THEN "Closed" ELSE Shut(s)
============================================================================
